--------------------------- MODULE AgentLoopProofs ---------------------------
(* Theorems about AgentLoop, for any number of runs, turns, calls and messages. *)
EXTENDS AgentLoop, SequenceTheorems, WellFoundedInduction, TLAPS

LEMMA RunsAreNat == Runs \subseteq Nat \ {0}
  BY BoundsAssumption DEF Runs

(* The constructors build messages. *)
LEMMA MessageTypes ==
  ASSUME NEW r \in Runs, NEW k \in Nat
  PROVE  /\ Prompt(r) \in Message
         /\ \A m \in Msgs : Queued(m) \in Message
         /\ \A n \in 0 .. MaxCalls, s \in StopReasons : Assistant(r, k, n, s) \in Message
         /\ \A i \in 1 .. MaxCalls : ToolResult(r, k, i) \in Message
  BY DEF Message, Prompt, Queued, Assistant, ToolResult

(* What drain() returns and what it leaves are again queues of messages. *)
LEMMA DrainTypes ==
  ASSUME TypeOK, NEW q \in Boxes
  PROVE  /\ Drained(q) \in Seq(Msgs)
         /\ Remaining(q) \in Seq(Msgs)
         /\ AsMessages(Drained(q)) \in Seq(Message)
<1>1. queue[q] \in Seq(Msgs)
  BY DEF TypeOK
<1>2. Drained(q) \in Seq(Msgs) /\ Remaining(q) \in Seq(Msgs)
  BY <1>1, HeadTailProperties, EmptySeq DEF Drained, Remaining
<1>3. \A i \in 1 .. Len(Drained(q)) : Queued(Drained(q)[i]) \in Message
  BY <1>2, ElementOfSeq DEF Message, Queued
<1>4. DOMAIN Drained(q) = 1 .. Len(Drained(q)) /\ Len(Drained(q)) \in Nat
  BY <1>2, LenProperties
<1>5. AsMessages(Drained(q)) \in [1 .. Len(Drained(q)) -> Message]
  BY <1>3, <1>4 DEF AsMessages
<1>6. QED
  BY <1>2, <1>4, <1>5, SeqDef

LEMMA InitTypeOK == Init => TypeOK
<1> SUFFICES ASSUME Init PROVE TypeOK
  OBVIOUS
<1>1. <<>> \in Seq(Msgs) /\ <<>> \in Seq(Message)
  BY EmptySeq
<1>2. 0 \in 0 .. MaxRuns /\ 0 \in 0 .. MaxCalls /\ 0 \in 0 .. 0
  BY BoundsAssumption
<1> QED
  BY <1>1, <1>2 DEF Init, TypeOK, PcValues, LoopPcs, Kinds

(* A run is started with messages of the right type. *)
LEMMA StartKeepsTypes ==
  ASSUME TypeOK, NEW r \in Runs, NEW prompts \in Seq(Message), StartRun(r, prompts),
         queue' \in [Boxes -> Seq(Msgs)]
  PROVE  TypeOK'
<1> USE DEF stateVars, batchVars, historyVars
<1>1. started' \in 0 .. MaxRuns /\ active' \in 0 .. started'
  BY RunsAreNat, BoundsAssumption DEF StartRun, TypeOK, Runs
<1>2. pc' \in [Runs -> PcValues]
  BY DEF StartRun, Goto, TypeOK, PcValues, LoopPcs
<1>3. base' \in [Runs -> Nat]
  BY LenProperties DEF StartRun, TypeOK
<1>4. inbox' \in [Runs -> Seq(Message)] /\ news' \in [Runs -> Seq(Message)]
  BY DEF StartRun, TypeOK
<1>5. QED
  BY <1>1, <1>2, <1>3, <1>4 DEF StartRun, TypeOK

(* Calls of other tasks keep the types. *)
LEMMA CallKeepsTypes ==
  ASSUME TypeOK, CallStep
  PROVE  TypeOK'
<1> USE BoundsAssumption, ModesAssumption DEF boxVars, stateVars, lifeVars, loopVars, batchVars, historyVars
<1>1. ASSUME NEW q \in Boxes, NEW m \in Msgs, Push(q, m)
      PROVE  TypeOK'
  BY <1>1, AppendProperties DEF Push, TypeOK
<1>2. ASSUME NEW q \in Boxes, ClearQueue(q)
      PROVE  TypeOK'
  <2>1. Elems(queue[q]) \subseteq Msgs
    BY LenProperties, ElementOfSeq DEF TypeOK, Elems
  <2>2. QED
    BY <1>2, <2>1, EmptySeq DEF ClearQueue, TypeOK
<1>3. ASSUME NEW q \in Boxes, SetMode(q)
      PROVE  TypeOK'
  BY <1>3 DEF SetMode, TypeOK
<1>4. ASSUME Abort
      PROVE  TypeOK'
  BY <1>4 DEF Abort, TypeOK
<1>5. ASSUME Reset
      PROVE  TypeOK'
  BY <1>5, EmptySeq DEF Reset, TypeOK
<1>6. ASSUME NEW r \in Runs, PromptCall(r)
      PROVE  TypeOK'
  <2>1. <<Prompt(r)>> \in Seq(Message)
    BY MessageTypes
  <2>2. QED
    BY <1>6, <2>1, StartKeepsTypes DEF PromptCall, TypeOK
<1>7. ASSUME NEW r \in Runs, ContinueCall(r)
      PROVE  TypeOK'
  <2>1. CASE ~ AssistantTail
    BY <1>7, <2>1, EmptySeq, StartKeepsTypes DEF ContinueCall, TypeOK
  <2>2. CASE AssistantTail
    <3>1. ContinueBox \in Boxes
      BY DEF ContinueBox, Boxes
    <3>2. /\ Remaining(ContinueBox) \in Seq(Msgs)
          /\ AsMessages(Drained(ContinueBox)) \in Seq(Message)
      BY <3>1, DrainTypes
    <3>3. QED
      <4>1. /\ StartRun(r, AsMessages(Drained(ContinueBox)))
            /\ queue' = [queue EXCEPT ![ContinueBox] = Remaining(ContinueBox)]
        BY <1>7, <2>2 DEF ContinueCall
      <4>2. queue' \in [Boxes -> Seq(Msgs)]
        BY <3>1, <3>2, <4>1 DEF TypeOK
      <4>. QED BY <3>2, <4>1, <4>2, StartKeepsTypes
  <2>3. QED
    BY <2>1, <2>2
<1>8. ASSUME ContinueRefused
      PROVE  TypeOK'
  <2>1. ContinueBox \in Boxes
    BY DEF ContinueBox, Boxes
  <2>2. QED
    BY <1>8, <2>1, DrainTypes DEF ContinueRefused, TypeOK
<1>9. ASSUME CancelCaller
      PROVE  TypeOK'
  <2>1. active' \in 0 .. started'
    BY <1>9 DEF CancelCaller, TypeOK
  <2>2. QED
    BY <1>9, <2>1 DEF CancelCaller, TypeOK
<1>10. QED
  BY <1>1, <1>2, <1>3, <1>4, <1>5, <1>6, <1>7, <1>8, <1>9 DEF CallStep

(* Steps of a loop task keep the types. *)
LEMMA LoopKeepsTypes ==
  ASSUME TypeOK, CallsDue, NEW r \in Runs, LoopStep(r)
  PROVE  TypeOK'
<1> USE BoundsAssumption DEF allButPc, boxVars, stateVars, lifeVars, loopVars, batchVars, historyVars,
                             Goto, PcValues, LoopPcs
<1>0. <<>> \in Seq(Message)
  BY EmptySeq
<1>1. CASE Return(r)
  <2>1. active' \in 0 .. started' /\ pc' \in [Runs -> PcValues]
    BY <1>1 DEF Return, TypeOK
  <2>2. QED
    BY <1>1, <2>1 DEF Return, TypeOK
<1>2. CASE EmitStart(r) \/ KeepInbox(r) \/ Announce(r) \/ Request(r) \/ CallProvider(r)
  BY <1>2 DEF EmitStart, KeepInbox, Announce, Request, CallProvider, TypeOK
<1>3. CASE EmitPrompt(r)
  BY <1>3, HeadTailProperties, AppendProperties DEF EmitPrompt, TypeOK
<1>4. ASSUME NEW q \in Boxes, NEW l \in PcValues, DrainInto(r, q, l)
      PROVE  TypeOK'
  <2>1. pc' \in [Runs -> PcValues]
    BY <1>4 DEF DrainInto, LeaveTo, TypeOK
  <2>2. inbox' \in [Runs -> Seq(Message)]
    <3>1. AsMessages(Drained(q)) \in Seq(Message)
      BY DrainTypes
    <3>2. QED
      BY <1>4, <1>0, <3>1 DEF DrainInto, LeaveTo, TypeOK
  <2>3. queue' \in [Boxes -> Seq(Msgs)]
    BY <1>4, DrainTypes DEF DrainInto, TypeOK
  <2>4. QED
    BY <1>4, <2>1, <2>2, <2>3 DEF DrainInto, TypeOK
<1>5. CASE InitialDrain(r) \/ Redrain(r) \/ TakeFollowUp(r) \/ \E more \in BOOLEAN : Decide(r, more)
  BY <1>5, <1>4 DEF InitialDrain, Redrain, TakeFollowUp, Decide, Boxes
<1>6. CASE TurnTop(r)
  <2>1. pc' \in [Runs -> PcValues]
    BY <1>6 DEF TurnTop, LeaveTo, TypeOK
  <2>2. inbox' \in [Runs -> Seq(Message)]
    BY <1>6, <1>0 DEF TurnTop, LeaveTo, TypeOK
  <2>3. QED
    BY <1>6, <2>1, <2>2 DEF TurnTop, TypeOK
<1>7. CASE Inject(r)
  BY <1>7, HeadTailProperties, AppendProperties DEF Inject, TypeOK
<1>8. CASE Partial(r)
  <2>1. Assistant(r, turn[r], 0, "pending") \in Message
    BY MessageTypes DEF TypeOK, StopReasons
  <2>2. QED
    BY <1>8, <2>1, AppendProperties DEF Partial, TypeOK
<1>9. ASSUME NEW s \in Outcomes, NEW n \in 0 .. MaxCalls, Finish(r, s, n)
      PROVE  TypeOK'
  <2>1. Assistant(r, turn[r], n, s) \in Message
    BY MessageTypes DEF TypeOK, StopReasons, Outcomes
  <2>2. WithoutPartial(r) \in Seq(Message)
    <3>1. news[r] \in Seq(Message) /\ Len(news[r]) \in Nat
      BY LenProperties DEF TypeOK
    <3>2. \A i \in 1 .. Len(news[r]) - 1 : news[r][i] \in Message
      BY <3>1, ElementOfSeq
    <3>3. SubSeq(news[r], 1, Len(news[r]) - 1) \in Seq(Message)
      BY <3>1, <3>2, SubSeqProperties
    <3>4. QED
      BY <3>1, <3>3 DEF WithoutPartial, Front
  <2>3. BatchKinds(s, n) \subseteq Kinds
    BY DEF BatchKinds, Kinds
  <2>4. QED
    <3>1. transcript' \in Seq(Message) /\ news' \in [Runs -> Seq(Message)]
      BY <1>9, <2>1, <2>2, AppendProperties DEF Finish, TypeOK
    <3>2. kind' \in [Runs -> Kinds]
      BY <1>9, <2>3 DEF Finish, TypeOK
    <3>3. pc' \in [Runs -> PcValues]
      BY <1>9 DEF Finish, TypeOK
    <3>4. batch' \in [Runs -> 0 .. MaxCalls] /\ results' \in [Runs -> 0 .. MaxCalls]
      BY <1>9 DEF Finish, TypeOK
    <3>5. QED
      BY <1>9, <3>1, <3>2, <3>3, <3>4 DEF Finish, TypeOK
<1>10. CASE StreamBreaks(r) \/ NextCall(r) \/ BatchFails(r) \/ StopAfterTurn(r) \/ Close(r)
  BY <1>10 DEF StreamBreaks, NextCall, BatchFails, StopAfterTurn, Close, TypeOK
<1>11. CASE AppendResult(r)
  <2>1. results[r] \in Nat /\ results[r] + 1 \in 1 .. MaxCalls
    BY <1>11 DEF AppendResult, TypeOK, CallsDue
  <2>2. ToolResult(r, turn[r], results[r] + 1) \in Message
    BY <2>1, MessageTypes DEF TypeOK
  <2>3. transcript' \in Seq(Message) /\ news' \in [Runs -> Seq(Message)]
    BY <1>11, <2>2, AppendProperties DEF AppendResult, TypeOK
  <2>4. pc' \in [Runs -> PcValues]
    BY <1>11 DEF AppendResult, TypeOK
  <2>5. results' \in [Runs -> 0 .. MaxCalls]
    BY <1>11, <2>1 DEF AppendResult, TypeOK
  <2>6. QED
    BY <1>11, <2>3, <2>4, <2>5 DEF AppendResult, TypeOK
<1>12. CASE EndTurn(r)
  BY <1>12 DEF EndTurn, TypeOK
<1>13. CASE Fail(r)
  <2>1. Assistant(r, turn[r], 0, "failed") \in Message
    BY MessageTypes DEF TypeOK, StopReasons
  <2>2. QED
    BY <1>13, <2>1, AppendProperties DEF Fail, TypeOK
<1>14. CASE OutsideRun(r)
  BY <1>14, EmptySeq DEF OutsideRun, LeaveTo, TypeOK
<1>15. QED
  BY <1>1, <1>2, <1>3, <1>5, <1>6, <1>7, <1>8, <1>9, <1>10, <1>11, <1>12, <1>13, <1>14
     DEF LoopStep

-----------------------------------------------------------------------------
(* The parts of IInv that concern control. *)

(* A call on the Agent moves no loop but the one it starts. *)
LEMMA CallFrame ==
  ASSUME TypeOK, CallStep
  PROVE  /\ UNCHANGED <<turn, batchVars>>
         /\ \A r \in Runs : pc'[r] = pc[r] \/ (pc'[r] = "starting" /\ active = 0 /\ active' = r)
         /\ \/ UNCHANGED <<cancelled, abortTurn>>
            \/ /\ active \in Runs
               /\ UNCHANGED pc
               /\ cancelled' = [cancelled EXCEPT ![active] = TRUE]
               /\ abortTurn' = [abortTurn EXCEPT ![active] = turn[active]]
<1> USE DEF boxVars, stateVars, lifeVars, loopVars, batchVars, historyVars
<1>1. ASSUME NEW q \in Boxes, NEW m \in Msgs, Push(q, m)
      PROVE  UNCHANGED <<pc, turn, cancelled, abortTurn, batchVars>>
  BY <1>1 DEF Push
<1>2. ASSUME Reset \/ ContinueRefused \/ CancelCaller
      PROVE  UNCHANGED <<pc, turn, cancelled, abortTurn, batchVars>>
  BY <1>2 DEF Reset, ContinueRefused, CancelCaller
<1>3. ASSUME NEW r \in Runs, PromptCall(r) \/ ContinueCall(r)
      PROVE  /\ UNCHANGED <<turn, cancelled, abortTurn, batchVars>>
             /\ active = 0 /\ active' = r
             /\ pc' = [pc EXCEPT ![r] = "starting"]
  BY <1>3 DEF PromptCall, ContinueCall, StartRun, Goto, IsStreaming
<1>4. CASE Abort
  BY <1>4, RunsAreNat DEF Abort, IsStreaming, TypeOK, Runs
<1>5. ASSUME NEW q \in Boxes, ClearQueue(q) \/ SetMode(q)
      PROVE  UNCHANGED <<pc, turn, cancelled, abortTurn, batchVars>>
  BY <1>5 DEF ClearQueue, SetMode
<1>6. pc \in [Runs -> PcValues]
  BY DEF TypeOK
<1>7. QED
  BY <1>1, <1>2, <1>3, <1>4, <1>5, <1>6 DEF CallStep

LEMMA CallKeepsControl ==
  ASSUME TypeOK, CallStep, CallsDue, AbortFreezesTurn
  PROVE  CallsDue' /\ AbortFreezesTurn'
<1>1. /\ turn' = turn /\ batch' = batch /\ results' = results
      /\ \A r \in Runs : pc'[r] = pc[r] \/ pc'[r] = "starting"
  BY CallFrame DEF batchVars
<1>2. CallsDue'
  BY <1>1 DEF CallsDue
<1>3. CASE cancelled' = cancelled /\ abortTurn' = abortTurn
  BY <1>1, <1>2, <1>3 DEF AbortFreezesTurn
<1>4. CASE /\ active \in Runs
           /\ cancelled' = [cancelled EXCEPT ![active] = TRUE]
           /\ abortTurn' = [abortTurn EXCEPT ![active] = turn[active]]
  <2>1. /\ abortTurn'[active] = turn[active]
        /\ \A r \in Runs : r # active => abortTurn'[r] = abortTurn[r] /\ cancelled'[r] = cancelled[r]
    BY <1>4 DEF TypeOK
  <2>. QED BY <1>1, <1>2, <2>1 DEF AbortFreezesTurn
<1>5. \/ cancelled' = cancelled /\ abortTurn' = abortTurn
      \/ /\ active \in Runs
         /\ cancelled' = [cancelled EXCEPT ![active] = TRUE]
         /\ abortTurn' = [abortTurn EXCEPT ![active] = turn[active]]
  BY CallFrame
<1>. QED BY <1>3, <1>4, <1>5

LEMMA LoopKeepsCallsDue ==
  ASSUME TypeOK, CallsDue, NEW r \in Runs, LoopStep(r)
  PROVE  CallsDue'
<1> USE DEF CallsDue, TypeOK, Goto, LeaveTo, allButPc, batchVars
<1>1. CASE EmitStart(r) \/ KeepInbox(r) \/ Announce(r) \/ Request(r) \/ CallProvider(r)
  BY <1>1 DEF EmitStart, KeepInbox, Announce, Request, CallProvider
<1>2. CASE Return(r) \/ EmitPrompt(r) \/ TurnTop(r) \/ Inject(r) \/ Partial(r)
  BY <1>2 DEF Return, EmitPrompt, TurnTop, Inject, Partial
<1>3. CASE InitialDrain(r) \/ Redrain(r) \/ TakeFollowUp(r) \/ \E more \in BOOLEAN : Decide(r, more)
  BY <1>3, SMTT(30) DEF InitialDrain, Redrain, TakeFollowUp, Decide, DrainInto
<1>4. ASSUME NEW s \in Outcomes, NEW n \in 0 .. MaxCalls, Finish(r, s, n)
      PROVE  CallsDue'
  <2>1. pc' = [pc EXCEPT ![r] = IF s = "failed" THEN "closing"
                                ELSE IF n > 0 THEN "tools" ELSE "turnEnd"]
    BY <1>4 DEF Finish
  <2>2. batch' = [batch EXCEPT ![r] = n] /\ results' = [results EXCEPT ![r] = 0]
    BY <1>4 DEF Finish
  <2>3. QED
    BY <2>1, <2>2
<1>5. CASE StreamBreaks(r) \/ BatchFails(r) \/ StopAfterTurn(r) \/ Close(r)
  BY <1>5 DEF StreamBreaks, BatchFails, StopAfterTurn, Close
<1>6. CASE AppendResult(r)
  BY <1>6 DEF AppendResult
<1>7. CASE NextCall(r)
  BY <1>7 DEF NextCall, BatchOver
<1>8. CASE EndTurn(r) \/ Fail(r) \/ OutsideRun(r)
  BY <1>8 DEF EndTurn, Fail, OutsideRun
<1>9. QED
  BY <1>1, <1>2, <1>3, <1>4, <1>5, <1>6, <1>7, <1>8 DEF LoopStep

LEMMA LoopKeepsAbortFreezesTurn ==
  ASSUME TypeOK, AbortFreezesTurn, NEW r \in Runs, LoopStep(r)
  PROVE  AbortFreezesTurn'
<1> USE DEF AbortFreezesTurn, TypeOK, Goto, LeaveTo, allButPc, historyVars
<1>1. CASE EmitStart(r) \/ KeepInbox(r) \/ Announce(r) \/ Request(r) \/ CallProvider(r)
  BY <1>1, SMTT(30) DEF EmitStart, KeepInbox, Announce, Request, CallProvider
<1>2. CASE Return(r) \/ EmitPrompt(r) \/ TurnTop(r) \/ Inject(r) \/ Partial(r)
  BY <1>2, SMTT(30) DEF Return, EmitPrompt, TurnTop, Inject, Partial
<1>3. CASE InitialDrain(r) \/ Redrain(r) \/ TakeFollowUp(r) \/ \E more \in BOOLEAN : Decide(r, more)
  BY <1>3, SMTT(30) DEF InitialDrain, Redrain, TakeFollowUp, Decide, DrainInto
<1>4. ASSUME NEW s \in Outcomes, NEW n \in 0 .. MaxCalls, Finish(r, s, n)
      PROVE  AbortFreezesTurn'
  BY <1>4, SMTT(30) DEF Finish
<1>5. CASE StreamBreaks(r) \/ BatchFails(r) \/ StopAfterTurn(r) \/ Close(r)
  BY <1>5, SMTT(30) DEF StreamBreaks, BatchFails, StopAfterTurn, Close
<1>6. CASE AppendResult(r) \/ NextCall(r)
  BY <1>6 DEF AppendResult, NextCall
<1>7. CASE EndTurn(r)
  BY <1>7 DEF EndTurn
<1>8. CASE Fail(r) \/ OutsideRun(r)
  BY <1>8, SMTT(30) DEF Fail, OutsideRun
<1>9. QED
  BY <1>1, <1>2, <1>3, <1>4, <1>5, <1>6, <1>7, <1>8 DEF LoopStep

LEMMA StutterKeepsIInv ==
  ASSUME IInv, UNCHANGED vars
  PROVE  IInv'
  BY DEF IInv, TypeOK, CallsDue, AbortFreezesTurn, vars, boxVars, stateVars, lifeVars, loopVars,
         batchVars, historyVars

(* The inductive invariant: types, calls that are due, and the turn an abort freezes. *)
THEOREM Invariance == Spec => []IInv
<1>1. Init => IInv
  BY InitTypeOK DEF Init, IInv, CallsDue, AbortFreezesTurn
<1>2. IInv /\ [Next]_vars => IInv'
  <2> SUFFICES ASSUME IInv, [Next]_vars PROVE IInv'
    OBVIOUS
  <2>1. CASE CallStep
    BY <2>1, CallKeepsTypes, CallKeepsControl DEF IInv
  <2>2. ASSUME NEW r \in Runs, LoopStep(r) PROVE IInv'
    BY <2>2, LoopKeepsTypes, LoopKeepsCallsDue, LoopKeepsAbortFreezesTurn DEF IInv
  <2>3. CASE UNCHANGED vars
    BY <2>3, StutterKeepsIInv
  <2>4. QED
    BY <2>1, <2>2, <2>3 DEF Next
<1>3. QED
  BY <1>1, <1>2, PTL DEF Spec

(* Type correctness, for every choice of the constants and switches. *)
THEOREM TypeCorrect == Spec => []TypeOK
<1>1. IInv => TypeOK
  BY DEF IInv
<1>2. QED
  BY <1>1, Invariance, PTL

(* After abort() no later turn of the run reaches the model, whatever else happens: hooks that
   fail, providers that break, callers that are cancelled, runs that are started meanwhile. *)
THEOREM AbortStopsTurns == Spec => []NoTurnAfterAbort
<1>1. IInv => NoTurnAfterAbort
  BY DEF IInv, AbortFreezesTurn, NoTurnAfterAbort
<1>2. QED
  BY <1>1, Invariance, PTL

-----------------------------------------------------------------------------
(* When no caller is cancelled, the loop task and the run come and go together. *)

LEMMA CallKeepsSingleWriter ==
  ASSUME TypeOK, SingleWriter, PartialWhileStreaming, ~ CallerMayCancel, CallStep
  PROVE  SingleWriter' /\ PartialWhileStreaming'
<1> USE DEF SingleWriter, PartialWhileStreaming, stateVars, lifeVars, loopVars
<1>1. ASSUME NEW q \in Boxes, NEW m \in Msgs, Push(q, m)
      PROVE  UNCHANGED <<pc, active, streamingMessage>>
  BY <1>1 DEF Push
<1>2. ASSUME NEW q \in Boxes, ClearQueue(q) \/ SetMode(q)
      PROVE  UNCHANGED <<pc, active, streamingMessage>>
  BY <1>2 DEF ClearQueue, SetMode
<1>3. CASE Abort \/ ContinueRefused
  BY <1>3 DEF Abort, ContinueRefused
<1>4. CASE Reset
  BY <1>4 DEF Reset
<1>5. ASSUME NEW r \in Runs, PromptCall(r) \/ ContinueCall(r)
      PROVE  SingleWriter' /\ PartialWhileStreaming'
  <2>1. /\ active = 0 /\ active' = r
        /\ pc' = [pc EXCEPT ![r] = "starting"]
        /\ UNCHANGED streamingMessage
    BY <1>5 DEF PromptCall, ContinueCall, StartRun, Goto, IsStreaming
  <2>2. \A s \in Runs : pc[s] \notin LoopPcs
    BY <2>1, RunsAreNat
  <2>3. QED
    BY <2>1, <2>2 DEF TypeOK
<1>6. QED
  BY <1>1, <1>2, <1>3, <1>4, <1>5 DEF CallStep, CancelCaller

LEMMA LoopKeepsSingleWriter ==
  ASSUME TypeOK, SingleWriter, PartialWhileStreaming, NEW r \in Runs, LoopStep(r)
  PROVE  SingleWriter' /\ PartialWhileStreaming'
<1> USE RunsAreNat DEF SingleWriter, PartialWhileStreaming, TypeOK, Goto, LeaveTo, LoopPcs, allButPc,
        stateVars, lifeVars
<1>1. CASE EmitStart(r) \/ KeepInbox(r) \/ Announce(r) \/ Request(r) \/ CallProvider(r)
  <2>1. active = r /\ streamingMessage = FALSE
    BY <1>1 DEF EmitStart, KeepInbox, Announce, Request, CallProvider
  <2>2. UNCHANGED <<active, streamingMessage>> /\ \A s \in Runs \ {r} : pc'[s] = pc[s]
    BY <1>1 DEF EmitStart, KeepInbox, Announce, Request, CallProvider
  <2>3. QED
    BY <2>1, <2>2
<1>2. CASE Return(r)
  BY <1>2 DEF Return
<1>3. CASE EmitPrompt(r) \/ TurnTop(r) \/ Inject(r)
  <2>1. active = r /\ streamingMessage = FALSE
    BY <1>3 DEF EmitPrompt, TurnTop, Inject
  <2>2. UNCHANGED <<active, streamingMessage>> /\ \A s \in Runs \ {r} : pc'[s] = pc[s]
    BY <1>3 DEF EmitPrompt, TurnTop, Inject
  <2>3. QED
    BY <2>1, <2>2
<1>4. CASE Partial(r)
  BY <1>4 DEF Partial
<1>5. CASE InitialDrain(r) \/ Redrain(r) \/ TakeFollowUp(r) \/ \E more \in BOOLEAN : Decide(r, more)
  <2>1. active = r /\ streamingMessage = FALSE
    BY <1>5 DEF InitialDrain, Redrain, TakeFollowUp, Decide
  <2>2. UNCHANGED <<active, streamingMessage>> /\ \A s \in Runs \ {r} : pc'[s] = pc[s]
    BY <1>5 DEF InitialDrain, Redrain, TakeFollowUp, Decide, DrainInto
  <2>3. QED
    BY <2>1, <2>2
<1>6. ASSUME NEW s \in Outcomes, NEW n \in 0 .. MaxCalls, Finish(r, s, n)
      PROVE  SingleWriter' /\ PartialWhileStreaming'
  <2>1. active = r /\ streamingMessage' = FALSE
    BY <1>6 DEF Finish
  <2>2. UNCHANGED active /\ \A t \in Runs \ {r} : pc'[t] = pc[t]
    BY <1>6 DEF Finish
  <2>3. QED
    BY <2>1, <2>2
<1>7. CASE BatchFails(r) \/ StopAfterTurn(r) \/ Close(r)
  <2>1. active = r /\ streamingMessage = FALSE
    BY <1>7 DEF BatchFails, StopAfterTurn, Close
  <2>2. UNCHANGED <<active, streamingMessage>> /\ \A s \in Runs \ {r} : pc'[s] = pc[s]
    BY <1>7 DEF BatchFails, StopAfterTurn, Close
  <2>3. QED
    BY <2>1, <2>2
<1>8. CASE StreamBreaks(r)
  <2>1. active = r /\ pc'[r] = "failing"
    BY <1>8 DEF StreamBreaks
  <2>2. UNCHANGED <<active, streamingMessage>> /\ \A s \in Runs \ {r} : pc'[s] = pc[s]
    BY <1>8 DEF StreamBreaks
  <2>3. QED
    BY <2>1, <2>2
<1>9. CASE AppendResult(r) \/ NextCall(r) \/ EndTurn(r)
  <2>1. active = r /\ streamingMessage = FALSE
    BY <1>9 DEF AppendResult, NextCall, EndTurn
  <2>2. UNCHANGED <<active, streamingMessage>> /\ \A s \in Runs \ {r} : pc'[s] = pc[s]
    BY <1>9 DEF AppendResult, NextCall, EndTurn
  <2>3. QED
    BY <2>1, <2>2
<1>10. CASE Fail(r) \/ OutsideRun(r)
  BY <1>10 DEF Fail, OutsideRun, IsStreaming, NextStepEmits
<1>11. QED
  BY <1>1, <1>2, <1>3, <1>4, <1>5, <1>6, <1>7, <1>8, <1>9, <1>10 DEF LoopStep

(* An Agent whose callers are never cancelled has one writer: whenever no run is active, no loop
   task is left that could drain a queue or extend the transcript, and no partial message
   survives its run. *)
THEOREM OneWriter ==
  ~ CallerMayCancel => (Spec => [](SingleWriter /\ PartialWhileStreaming))
<1> SUFFICES ASSUME ~ CallerMayCancel
             PROVE  Spec => [](SingleWriter /\ PartialWhileStreaming)
  OBVIOUS
<1>1. Init => SingleWriter /\ PartialWhileStreaming
  BY DEF Init, SingleWriter, PartialWhileStreaming, LoopPcs
<1>2. ASSUME TypeOK, SingleWriter, PartialWhileStreaming, [Next]_vars
      PROVE  SingleWriter' /\ PartialWhileStreaming'
  <2>1. CASE CallStep
    BY <1>2, <2>1, CallKeepsSingleWriter
  <2>2. ASSUME NEW r \in Runs, LoopStep(r) PROVE SingleWriter' /\ PartialWhileStreaming'
    BY <1>2, <2>2, LoopKeepsSingleWriter
  <2>3. CASE UNCHANGED vars
    BY <1>2, <2>3 DEF SingleWriter, PartialWhileStreaming, vars, stateVars, lifeVars, loopVars
  <2>4. QED
    BY <1>2, <2>1, <2>2, <2>3 DEF Next
<1>3. QED
  BY <1>1, <1>2, TypeCorrect, PTL DEF Spec

-----------------------------------------------------------------------------
(* What a step of a loop task does to the queues, to what the loop holds and to the transcript:
   nothing, or it adds a message of its own and may give up what it holds; *)
Quiet(r) ==
    /\ queue' = queue
    /\ \/ inbox' = inbox
       \/ /\ inbox' = [inbox EXCEPT ![r] = <<>>]
          /\ HooksMayFail \/ Abandoned(r)
    /\ \/ transcript' = transcript
       \/ \E x : x.role \in {"assistant", "toolResult"} /\ transcript' = Append(transcript, x)

(* it takes messages from a queue, when it holds none, and may lose them; *)
Takes(r, q) ==
    /\ inbox[r] = <<>> /\ transcript' = transcript
    /\ queue' = [queue EXCEPT ![q] = Remaining(q)]
    /\ \/ inbox' = [inbox EXCEPT ![r] = AsMessages(Drained(q))]
       \/ HooksMayFail /\ inbox' = [inbox EXCEPT ![r] = <<>>]

(* or it delivers the first message that it holds. *)
Delivers(r) ==
    /\ inbox[r] # <<>> /\ queue' = queue
    /\ transcript' = Append(transcript, Head(inbox[r]))
    /\ inbox' = [inbox EXCEPT ![r] = Tail(inbox[r])]

(* A run that has not been started is idle, and a loop holds messages only between a drain and
   the injection. *)
Holding == {"starting", "prompting", "turnTop", "redrain", "announce", "inject"}
HandInv ==
    \A r \in Runs :
        /\ r > started => pc[r] = "idle"
        /\ pc[r] \notin Holding => inbox[r] = <<>>

(* A loop task changes its own locals only, and never which run it is or what was accepted. *)
LEMMA LoopFrame ==
  ASSUME TypeOK, NEW r \in Runs, LoopStep(r)
  PROVE  /\ pc[r] \in LoopPcs \cup {"ended"}
         /\ UNCHANGED <<base, cancelled, started, pushed, cleared>>
         /\ \A s \in Runs : s # r =>
                /\ pc'[s] = pc[s] /\ inbox'[s] = inbox[s] /\ news'[s] = news[s]
                /\ turn'[s] = turn[s] /\ batch'[s] = batch[s] /\ results'[s] = results[s]
<1> USE DEF TypeOK, Goto, LeaveTo, LoopPcs, allButPc, boxVars, stateVars, lifeVars, batchVars, historyVars
<1>1. CASE Return(r)
  BY <1>1 DEF Return
<1>2. CASE EmitStart(r) \/ KeepInbox(r) \/ Announce(r) \/ Request(r) \/ CallProvider(r)
  BY <1>2 DEF EmitStart, KeepInbox, Announce, Request, CallProvider
<1>3. CASE EmitPrompt(r) \/ TurnTop(r) \/ Inject(r)
  BY <1>3 DEF EmitPrompt, TurnTop, Inject
<1>4. CASE Partial(r)
  BY <1>4 DEF Partial
<1>5. CASE InitialDrain(r) \/ Redrain(r) \/ TakeFollowUp(r) \/ \E more \in BOOLEAN : Decide(r, more)
  <2>1. pc[r] \in LoopPcs /\ \E q \in Boxes, l \in PcValues : DrainInto(r, q, l)
    BY <1>5 DEF InitialDrain, Redrain, TakeFollowUp, Decide, Boxes, PcValues
  <2>. QED BY <2>1 DEF DrainInto
<1>6. ASSUME NEW s \in Outcomes, NEW n \in 0 .. MaxCalls, Finish(r, s, n)
      PROVE  /\ pc[r] \in LoopPcs \cup {"ended"}
             /\ UNCHANGED <<base, cancelled, started, pushed, cleared>>
             /\ \A t \in Runs : t # r =>
                    /\ pc'[t] = pc[t] /\ inbox'[t] = inbox[t] /\ news'[t] = news[t]
                    /\ turn'[t] = turn[t] /\ batch'[t] = batch[t] /\ results'[t] = results[t]
  BY <1>6 DEF Finish
<1>7. CASE StreamBreaks(r) \/ BatchFails(r) \/ StopAfterTurn(r) \/ Close(r)
  BY <1>7 DEF StreamBreaks, BatchFails, StopAfterTurn, Close
<1>8. CASE AppendResult(r) \/ NextCall(r) \/ EndTurn(r)
  BY <1>8 DEF AppendResult, NextCall, EndTurn
<1>9. CASE Fail(r) \/ OutsideRun(r)
  BY <1>9 DEF Fail, OutsideRun, NextStepEmits
<1>. QED BY <1>1, <1>2, <1>3, <1>4, <1>5, <1>6, <1>7, <1>8, <1>9 DEF LoopStep

LEMMA EmptyDrain ==
  ASSUME TypeOK, NEW q \in Boxes
  PROVE  /\ DOMAIN AsMessages(Drained(q)) = DOMAIN Drained(q)
         /\ Drained(q) = <<>> => AsMessages(Drained(q)) = <<>>
<1>1. AsMessages(Drained(q)) \in Seq(Message) /\ Drained(q) \in Seq(Msgs)
  BY DrainTypes
<1>2. DOMAIN AsMessages(Drained(q)) = DOMAIN Drained(q)
  BY DEF AsMessages
<1>3. Drained(q) = <<>> => Len(AsMessages(Drained(q))) = 0
  BY <1>1, <1>2
<1>. QED BY <1>1, <1>2, <1>3

LEMMA LoopHands ==
  ASSUME TypeOK, HandInv, NEW r \in Runs, LoopStep(r)
  PROVE  HandInv'
<1>1. started \in Nat /\ r \in Nat /\ pc[r] # "idle"
  <2>1. pc[r] # "idle"
    BY LoopFrame DEF LoopPcs
  <2>. QED BY <2>1, RunsAreNat, BoundsAssumption DEF TypeOK
<1>2. r <= started /\ started' = started
  BY <1>1, LoopFrame DEF HandInv
<1>3. pc'[r] \notin Holding => inbox'[r] = <<>>
  <2> USE DEF TypeOK, Goto, LeaveTo, Holding, HandInv, allButPc
  <2>1. CASE Return(r)
    BY <2>1 DEF Return
  <2>2. CASE EmitStart(r) \/ KeepInbox(r) \/ Announce(r) \/ Request(r) \/ CallProvider(r)
    BY <2>2 DEF EmitStart, KeepInbox, Announce, Request, CallProvider
  <2>3. CASE EmitPrompt(r) \/ TurnTop(r) \/ Inject(r)
    BY <2>3 DEF EmitPrompt, TurnTop, Inject
  <2>4. CASE Partial(r)
    BY <2>4 DEF Partial
  <2>5. CASE InitialDrain(r) \/ Redrain(r)
    BY <2>5 DEF InitialDrain, Redrain, DrainInto
  <2>6. CASE TakeFollowUp(r) \/ \E more \in BOOLEAN : Decide(r, more)
    BY <2>6, EmptyDrain, SMTT(30) DEF TakeFollowUp, Decide, DrainInto, Boxes
  <2>7. ASSUME NEW s \in Outcomes, NEW n \in 0 .. MaxCalls, Finish(r, s, n)
        PROVE  inbox'[r] = <<>>
    BY <2>7 DEF Finish
  <2>8. CASE StreamBreaks(r) \/ BatchFails(r) \/ StopAfterTurn(r) \/ Close(r)
    BY <2>8 DEF StreamBreaks, BatchFails, StopAfterTurn, Close
  <2>9. CASE AppendResult(r) \/ NextCall(r) \/ EndTurn(r)
    BY <2>9 DEF AppendResult, NextCall, EndTurn
  <2>10. CASE Fail(r) \/ OutsideRun(r)
    BY <2>10 DEF Fail, OutsideRun
  <2>. QED BY <2>1, <2>2, <2>3, <2>4, <2>5, <2>6, <2>7, <2>8, <2>9, <2>10 DEF LoopStep
<1>. QED BY <1>1, <1>2, <1>3, LoopFrame, RunsAreNat DEF HandInv

LEMMA LoopEffects ==
  ASSUME TypeOK, HandInv, NEW r \in Runs, LoopStep(r)
  PROVE  Quiet(r) \/ Delivers(r) \/ \E q \in Boxes : Takes(r, q)
<1> USE DEF TypeOK, Goto, LeaveTo, allButPc, boxVars, stateVars
<1>1. CASE Return(r)
  BY <1>1 DEF Return, Quiet
<1>2. CASE EmitStart(r) \/ KeepInbox(r) \/ Announce(r) \/ Request(r) \/ CallProvider(r)
  BY <1>2 DEF EmitStart, KeepInbox, Announce, Request, CallProvider, Quiet
<1>3. CASE EmitPrompt(r) \/ Inject(r)
  BY <1>3 DEF EmitPrompt, Inject, Delivers
<1>4. CASE Partial(r) \/ TurnTop(r)
  BY <1>4 DEF Partial, TurnTop, Quiet
<1>5. CASE InitialDrain(r) \/ Redrain(r)
  BY <1>5 DEF InitialDrain, Redrain, DrainInto, Takes, Boxes
<1>6. CASE TakeFollowUp(r) \/ \E more \in BOOLEAN : Decide(r, more)
  BY <1>6 DEF TakeFollowUp, Decide, DrainInto, Takes, Boxes, HandInv, Holding
<1>7. ASSUME NEW s \in Outcomes, NEW n \in 0 .. MaxCalls, Finish(r, s, n)
      PROVE  Quiet(r)
  <2>1. Assistant(r, turn[r], n, s).role = "assistant"
    BY DEF Assistant
  <2>. QED BY <1>7, <2>1 DEF Finish, Quiet
<1>8. CASE StreamBreaks(r) \/ BatchFails(r) \/ StopAfterTurn(r) \/ Close(r) \/ NextCall(r) \/ EndTurn(r)
  BY <1>8 DEF StreamBreaks, BatchFails, StopAfterTurn, Close, NextCall, EndTurn, Quiet
<1>9. CASE AppendResult(r)
  <2>. DEFINE x == ToolResult(r, turn[r], results[r] + 1)
  <2>1. x.role = "toolResult" /\ transcript' = Append(transcript, x) /\ UNCHANGED <<queue, inbox>>
    BY <1>9 DEF AppendResult, ToolResult
  <2>. QED BY <2>1 DEF Quiet
<1>10. CASE Fail(r)
  <2>1. Assistant(r, turn[r], 0, "failed").role = "assistant"
    BY DEF Assistant
  <2>. QED BY <1>10, <2>1 DEF Fail, Quiet
<1>11. CASE OutsideRun(r)
  BY <1>11, RunsAreNat DEF OutsideRun, Quiet, Abandoned, IsStreaming, NextStepEmits
<1>. QED BY <1>1, <1>2, <1>3, <1>4, <1>5, <1>6, <1>7, <1>8, <1>9, <1>10, <1>11 DEF LoopStep

-----------------------------------------------------------------------------
(* Where a message can be. *)
InQueue(q, i, m) == i \in DOMAIN queue[q] /\ queue[q][i] = m
InHand(r, i, m) == i \in DOMAIN inbox[r] /\ inbox[r][i] = Queued(m)
InTranscript(i, m) == i \in DOMAIN transcript /\ transcript[i] = Queued(m)

(* It is in one place, and nowhere before it is pushed. *)
OnceInv ==
    /\ \A m \in Msgs, q \in Boxes, b \in Boxes, i \in Nat, j \in Nat :
            InQueue(q, i, m) /\ InQueue(b, j, m) => q = b /\ i = j
    /\ \A m \in Msgs, r \in Runs, s \in Runs, i \in Nat, j \in Nat :
            InHand(r, i, m) /\ InHand(s, j, m) => r = s /\ i = j
    /\ \A m \in Msgs, i \in Nat, j \in Nat : InTranscript(i, m) /\ InTranscript(j, m) => i = j
    /\ \A m \in Msgs, q \in Boxes, i \in Nat : InQueue(q, i, m) =>
            /\ m \in Sent
            /\ \A r \in Runs, j \in Nat : ~ InHand(r, j, m)
            /\ \A j \in Nat : ~ InTranscript(j, m)
    /\ \A m \in Msgs, r \in Runs, i \in Nat : InHand(r, i, m) =>
            /\ m \in Sent
            /\ \A j \in Nat : ~ InTranscript(j, m)
    /\ \A m \in Msgs, i \in Nat : InTranscript(i, m) => m \in Sent

(* drain() returns the front of its queue and leaves the rest. *)
LEMMA DrainItems ==
  ASSUME TypeOK, NEW q \in Boxes
  PROVE  \E k \in Nat :
            /\ k <= Len(queue[q])
            /\ DOMAIN Drained(q) = 1 .. k /\ \A i \in 1 .. k : Drained(q)[i] = queue[q][i]
            /\ DOMAIN Remaining(q) = 1 .. Len(queue[q]) - k
            /\ \A i \in 1 .. Len(queue[q]) - k : Remaining(q)[i] = queue[q][i + k]
<1>1. queue[q] \in Seq(Msgs) /\ Len(queue[q]) \in Nat /\ DOMAIN queue[q] = 1 .. Len(queue[q])
  BY LenProperties DEF TypeOK
<1>2. CASE queue[q] = <<>>
  BY <1>1, <1>2 DEF Drained, Remaining
<1>3. CASE mode[q] = "all"
  <2>1. Drained(q) = queue[q] /\ Remaining(q) = <<>>
    BY <1>3 DEF Drained, Remaining
  <2>. WITNESS Len(queue[q]) \in Nat
  <2>. QED BY <1>1, <2>1
<1>4. CASE mode[q] # "all" /\ queue[q] # <<>>
  <2>1. Drained(q) = <<queue[q][1]>> /\ Remaining(q) = Tail(queue[q]) /\ Len(queue[q]) >= 1
    BY <1>1, <1>4 DEF Drained, Remaining
  <2>2. /\ DOMAIN Tail(queue[q]) = 1 .. Len(queue[q]) - 1
        /\ \A i \in 1 .. Len(queue[q]) - 1 : Tail(queue[q])[i] = queue[q][i + 1]
    BY <1>1, <1>4, <2>1, HeadTailProperties
  <2>3. DOMAIN Drained(q) = 1 .. 1 /\ \A i \in 1 .. 1 : Drained(q)[i] = queue[q][i]
    BY <2>1
  <2>. WITNESS 1 \in Nat
  <2>. QED BY <1>1, <2>1, <2>2, <2>3
<1>. QED BY <1>2, <1>3, <1>4

(* Messages that stay where they are or vanish. *)
LEMMA VanishOnce ==
  ASSUME OnceInv, Sent' = Sent,
         \A m \in Msgs, q \in Boxes, i \in Nat : InQueue(q, i, m)' => InQueue(q, i, m),
         \A m \in Msgs, r \in Runs, i \in Nat : InHand(r, i, m)' => InHand(r, i, m),
         \A m \in Msgs, i \in Nat : InTranscript(i, m)' => InTranscript(i, m)
  PROVE  OnceInv'
  BY DEF OnceInv

(* Messages that go from the front of a queue into a hand, or vanish. *)
LEMMA TakeOnce ==
  ASSUME TypeOK, OnceInv, NEW q \in Boxes, NEW r \in Runs,
         queue' = [queue EXCEPT ![q] = Remaining(q)], transcript' = transcript, Sent' = Sent,
         \A m \in Msgs, s \in Runs, i \in Nat : InHand(s, i, m)' =>
            InHand(s, i, m) \/ (s = r /\ i \in DOMAIN Drained(q) /\ Drained(q)[i] = m)
  PROVE  OnceInv'
<1>1. PICK k \in Nat :
            /\ k <= Len(queue[q])
            /\ DOMAIN Drained(q) = 1 .. k /\ \A i \in 1 .. k : Drained(q)[i] = queue[q][i]
            /\ DOMAIN Remaining(q) = 1 .. Len(queue[q]) - k
            /\ \A i \in 1 .. Len(queue[q]) - k : Remaining(q)[i] = queue[q][i + k]
  BY DrainItems
<1>2. queue[q] \in Seq(Msgs) /\ Len(queue[q]) \in Nat /\ DOMAIN queue[q] = 1 .. Len(queue[q])
  BY LenProperties DEF TypeOK
<1>3. \A m \in Msgs, i \in Nat : InQueue(q, i, m)' => InQueue(q, i + k, m)
  BY <1>1, <1>2 DEF InQueue, TypeOK
<1>4. \A m \in Msgs, b \in Boxes, i \in Nat : b # q => (InQueue(b, i, m)' => InQueue(b, i, m))
  BY DEF InQueue, TypeOK
<1>5. \A m \in Msgs, s \in Runs, i \in Nat : InHand(s, i, m)' =>
            InHand(s, i, m) \/ (s = r /\ i <= k /\ InQueue(q, i, m))
  BY <1>1, <1>2 DEF InQueue
<1>6. \A m \in Msgs, i \in Nat : InTranscript(i, m)' => InTranscript(i, m)
  BY DEF InTranscript
<1>7. \A m \in Msgs, i \in Nat : InQueue(q, i, m)' => i >= 1
  BY <1>1 DEF InQueue, TypeOK
<1>8. /\ \A m \in Msgs, b \in Boxes, i \in Nat : InQueue(b, i, m)' =>
            \E j \in Nat : InQueue(b, j, m) /\ j = (IF b = q THEN i + k ELSE i)
  BY <1>3, <1>4
<1>9. ASSUME NEW m \in Msgs, NEW p \in Boxes, NEW b \in Boxes, NEW i \in Nat, NEW j \in Nat,
             InQueue(p, i, m)', InQueue(b, j, m)'
      PROVE  p = b /\ i = j
  <2>1. p = b
    BY <1>8, <1>9 DEF OnceInv
  <2>2. CASE b = q
    <3>1. InQueue(q, i + k, m) /\ InQueue(q, j + k, m)
      BY <1>3, <1>9, <2>1, <2>2
    <3>. QED BY <2>1, <3>1 DEF OnceInv
  <2>3. CASE b # q
    BY <1>4, <1>9, <2>1, <2>3 DEF OnceInv
  <2>. QED BY <2>1, <2>2, <2>3
<1>10. ASSUME NEW m \in Msgs, NEW t \in Runs, NEW s \in Runs, NEW i \in Nat, NEW j \in Nat,
              InHand(t, i, m)', InHand(s, j, m)'
       PROVE  t = s /\ i = j
  BY <1>5, <1>10 DEF OnceInv
<1>11. ASSUME NEW m \in Msgs, NEW b \in Boxes, NEW s \in Runs, NEW i \in Nat, NEW j \in Nat,
              InQueue(b, i, m)', InHand(s, j, m)'
       PROVE  FALSE
  <2>1. ~ InHand(s, j, m)
    BY <1>8, <1>11 DEF OnceInv
  <2>2. InQueue(q, j, m) /\ j <= k
    BY <1>5, <1>11, <2>1
  <2>3. b = q
    BY <1>8, <1>11, <2>2 DEF OnceInv
  <2>4. i + k = j /\ i >= 1
    BY <1>3, <1>7, <1>11, <2>2, <2>3 DEF OnceInv
  <2>. QED BY <2>2, <2>4
<1>12. ASSUME NEW m \in Msgs, NEW i \in Nat, NEW j \in Nat
       PROVE  /\ \A b \in Boxes : ~ (InQueue(b, i, m)' /\ InTranscript(j, m)')
              /\ \A s \in Runs : ~ (InHand(s, i, m)' /\ InTranscript(j, m)')
  BY <1>5, <1>6, <1>8 DEF OnceInv
<1>13. ASSUME NEW m \in Msgs, NEW i \in Nat
       PROVE  /\ \A b \in Boxes : InQueue(b, i, m)' => m \in Sent
              /\ \A s \in Runs : InHand(s, i, m)' => m \in Sent
              /\ InTranscript(i, m)' => m \in Sent
  BY <1>5, <1>6, <1>8 DEF OnceInv
<1>14. \A m \in Msgs, i \in Nat, j \in Nat : InTranscript(i, m)' /\ InTranscript(j, m)' => i = j
  BY <1>6 DEF OnceInv
<1>. QED BY <1>9, <1>10, <1>11, <1>12, <1>13, <1>14 DEF OnceInv

(* A message that goes from a hand into the transcript. *)
LEMMA DeliverOnce ==
  ASSUME TypeOK, OnceInv, NEW r \in Runs, Delivers(r), Sent' = Sent
  PROVE  OnceInv'
<1>1. /\ inbox[r] \in Seq(Message) /\ inbox[r] # <<>> /\ transcript \in Seq(Message)
      /\ Len(inbox[r]) \in Nat /\ DOMAIN inbox[r] = 1 .. Len(inbox[r]) /\ Len(inbox[r]) >= 1
      /\ DOMAIN transcript = 1 .. Len(transcript) /\ Len(transcript) \in Nat
  BY LenProperties DEF TypeOK, Delivers
<1>2. /\ DOMAIN Tail(inbox[r]) = 1 .. Len(inbox[r]) - 1
      /\ \A i \in 1 .. Len(inbox[r]) - 1 : Tail(inbox[r])[i] = inbox[r][i + 1]
      /\ Head(inbox[r]) = inbox[r][1]
  BY <1>1, HeadTailProperties
<1>3. /\ DOMAIN transcript' = 1 .. Len(transcript) + 1
      /\ transcript'[Len(transcript) + 1] = inbox[r][1]
      /\ \A i \in 1 .. Len(transcript) : transcript'[i] = transcript[i]
  BY <1>1, <1>2, AppendProperties DEF Delivers
<1>4. \A m \in Msgs, i \in Nat : InHand(r, i, m)' => InHand(r, i + 1, m) /\ i >= 1
  BY <1>1, <1>2 DEF InHand, Delivers, TypeOK
<1>5. \A m \in Msgs, s \in Runs, i \in Nat : s # r => (InHand(s, i, m)' => InHand(s, i, m))
  BY DEF InHand, Delivers, TypeOK
<1>6. \A m \in Msgs, i \in Nat : InTranscript(i, m)' =>
            InTranscript(i, m) \/ (i = Len(transcript) + 1 /\ InHand(r, 1, m))
  BY <1>1, <1>3 DEF InHand, InTranscript
<1>7. \A m \in Msgs, q \in Boxes, i \in Nat : InQueue(q, i, m)' => InQueue(q, i, m)
  BY DEF InQueue, Delivers
<1>8. \A m \in Msgs, s \in Runs, i \in Nat : InHand(s, i, m)' =>
            \E j \in Nat : InHand(s, j, m) /\ j = (IF s = r THEN i + 1 ELSE i)
  BY <1>4, <1>5
<1>9. ASSUME NEW m \in Msgs, NEW t \in Runs, NEW s \in Runs, NEW i \in Nat, NEW j \in Nat,
             InHand(t, i, m)', InHand(s, j, m)'
      PROVE  t = s /\ i = j
  <2>1. t = s
    BY <1>8, <1>9 DEF OnceInv
  <2>2. CASE s = r
    <3>1. InHand(r, i + 1, m) /\ InHand(r, j + 1, m)
      BY <1>4, <1>9, <2>1, <2>2
    <3>. QED BY <2>1, <3>1 DEF OnceInv
  <2>3. CASE s # r
    BY <1>5, <1>9, <2>1, <2>3 DEF OnceInv
  <2>. QED BY <2>1, <2>2, <2>3
<1>10. ASSUME NEW m \in Msgs, NEW s \in Runs, NEW i \in Nat, NEW j \in Nat,
              InHand(s, i, m)', InTranscript(j, m)'
       PROVE  FALSE
  <2>1. InHand(r, 1, m)
    BY <1>6, <1>8, <1>10 DEF OnceInv
  <2>2. s = r
    BY <1>8, <1>10, <2>1 DEF OnceInv
  <2>3. i + 1 = 1 /\ i >= 1
    BY <1>4, <1>10, <2>1, <2>2 DEF OnceInv
  <2>. QED BY <2>3
<1>11. ASSUME NEW m \in Msgs, NEW i \in Nat, NEW j \in Nat, InTranscript(i, m)', InTranscript(j, m)'
       PROVE  i = j
  BY <1>6, <1>11 DEF OnceInv
<1>12. ASSUME NEW m \in Msgs, NEW q \in Boxes, NEW i \in Nat, NEW j \in Nat
       PROVE  /\ \A s \in Runs : ~ (InQueue(q, i, m)' /\ InHand(s, j, m)')
              /\ ~ (InQueue(q, i, m)' /\ InTranscript(j, m)')
  BY <1>6, <1>7, <1>8 DEF OnceInv
<1>13. ASSUME NEW m \in Msgs, NEW i \in Nat
       PROVE  /\ \A q \in Boxes : InQueue(q, i, m)' => m \in Sent
              /\ \A s \in Runs : InHand(s, i, m)' => m \in Sent
              /\ InTranscript(i, m)' => m \in Sent
  BY <1>6, <1>7, <1>8 DEF OnceInv
<1>14. \A m \in Msgs, q \in Boxes, b \in Boxes, i \in Nat, j \in Nat :
            InQueue(q, i, m)' /\ InQueue(b, j, m)' => q = b /\ i = j
  BY <1>7 DEF OnceInv
<1>. QED BY <1>9, <1>10, <1>11, <1>12, <1>13, <1>14 DEF OnceInv

(* A message that is pushed has been nowhere before. *)
LEMMA PushOnce ==
  ASSUME TypeOK, OnceInv, NEW q \in Boxes, NEW n \in Msgs, Push(q, n)
  PROVE  OnceInv'
<1>1. /\ queue[q] \in Seq(Msgs) /\ DOMAIN queue[q] = 1 .. Len(queue[q]) /\ Len(queue[q]) \in Nat
      /\ queue'[q] = Append(queue[q], n) /\ UNCHANGED <<inbox, transcript>>
      /\ \A b \in Boxes : b # q => queue'[b] = queue[b]
  BY LenProperties DEF TypeOK, Push, stateVars, loopVars
<1>2. \A b \in Boxes : Elems(pushed[b]) \subseteq Elems(pushed'[b])
  <2>1. \A b \in Boxes : pushed[b] \in Seq(Msgs) /\ pushed'[b] \in {pushed[b], Append(pushed[b], n)}
    BY DEF Push, TypeOK
  <2>2. \A t \in Seq(Msgs) : Elems(t) \subseteq Elems(Append(t, n))
    BY AppendProperties DEF Elems
  <2>. QED BY <2>1, <2>2
<1>3. n \in Elems(pushed'[q])
  <2>1. pushed[q] \in Seq(Msgs) /\ pushed'[q] = Append(pushed[q], n) /\ Len(pushed[q]) + 1 \in DOMAIN pushed'[q]
    BY LenProperties, AppendProperties DEF Push, TypeOK
  <2>. QED BY <2>1, AppendProperties DEF Elems
<1>4. Sent \subseteq Sent' /\ n \in Sent' /\ n \notin Sent
  BY <1>2, <1>3 DEF Sent, Boxes, Push
<1>5. \A m \in Msgs, b \in Boxes, i \in Nat : InQueue(b, i, m)' =>
            InQueue(b, i, m) \/ (b = q /\ i = Len(queue[q]) + 1 /\ m = n)
  <2>1. /\ DOMAIN Append(queue[q], n) = 1 .. Len(queue[q]) + 1
        /\ Append(queue[q], n)[Len(queue[q]) + 1] = n
        /\ \A i \in 1 .. Len(queue[q]) : Append(queue[q], n)[i] = queue[q][i]
    BY <1>1, AppendProperties
  <2>. QED BY <1>1, <2>1 DEF InQueue
<1>6. /\ \A m \in Msgs, r \in Runs, i \in Nat : InHand(r, i, m)' => InHand(r, i, m)
      /\ \A m \in Msgs, i \in Nat : InTranscript(i, m)' => InTranscript(i, m)
  BY <1>1 DEF InHand, InTranscript
<1>. QED BY <1>4, <1>5, <1>6 DEF OnceInv

-----------------------------------------------------------------------------
(* What a call does to the queues, to what the loops hold and to the transcript, and to the
   record of what was accepted and cleared. *)
Clears(q) ==
    /\ queue' = [queue EXCEPT ![q] = <<>>] /\ UNCHANGED <<inbox, transcript, pushed>>
    /\ cleared' = cleared \cup Elems(queue[q])

Refuses(q) ==
    /\ ContinueMayOverlap /\ queue' = [queue EXCEPT ![q] = Remaining(q)]
    /\ UNCHANGED <<inbox, transcript, pushed, cleared>>

Starts(r) ==
    /\ inbox[r] = <<>> /\ UNCHANGED <<queue, transcript, pushed, cleared>>
    /\ inbox' = [inbox EXCEPT ![r] = <<>>] \/ inbox' = [inbox EXCEPT ![r] = <<Prompt(r)>>]

CallEffect ==
    \/ \E q \in Boxes, n \in Msgs : Push(q, n)
    \/ \E q \in Boxes : Clears(q) \/ Refuses(q)
    \/ Reset
    \/ \E r \in Runs : Starts(r)
    \/ \E r \in Runs, q \in Boxes : Takes(r, q) /\ UNCHANGED <<pushed, cleared>>
    \/ UNCHANGED <<queue, inbox, transcript, pushed, cleared>>

LEMMA StartFrame ==
  ASSUME TypeOK, HandInv, NEW r \in Runs, NEW prompts, StartRun(r, prompts)
  PROVE  /\ pc[r] = "idle" /\ inbox[r] = <<>> /\ r = started + 1 /\ started' = r /\ active = 0 /\ active' = r
         /\ pc' = [pc EXCEPT ![r] = "starting"] /\ inbox' = [inbox EXCEPT ![r] = prompts]
         /\ news' = [news EXCEPT ![r] = prompts] /\ base' = [base EXCEPT ![r] = Len(transcript)]
         /\ UNCHANGED <<transcript, pushed, cleared>>
         /\ pc'[r] = "starting" /\ inbox'[r] = prompts /\ news'[r] = prompts /\ base'[r] = Len(transcript)
         /\ \A s \in Runs : s # r => pc'[s] = pc[s] /\ inbox'[s] = inbox[s]
<1>0. /\ pc \in [Runs -> PcValues] /\ inbox \in [Runs -> Seq(Message)] /\ news \in [Runs -> Seq(Message)]
      /\ base \in [Runs -> Nat]
  BY DEF TypeOK
<1>1. r = started + 1 /\ started \in Nat
  BY BoundsAssumption DEF StartRun, TypeOK
<1>2. r > started
  BY <1>1
<1>3. pc[r] = "idle" /\ inbox[r] = <<>>
  BY <1>2 DEF HandInv, Holding
<1>4. /\ started' = r /\ active = 0 /\ active' = r
      /\ pc' = [pc EXCEPT ![r] = "starting"] /\ inbox' = [inbox EXCEPT ![r] = prompts]
      /\ news' = [news EXCEPT ![r] = prompts] /\ base' = [base EXCEPT ![r] = Len(transcript)]
      /\ UNCHANGED <<transcript, pushed, cleared>>
  BY DEF StartRun, IsStreaming, Goto, stateVars, historyVars
<1>5. /\ pc'[r] = "starting" /\ inbox'[r] = prompts /\ news'[r] = prompts /\ base'[r] = Len(transcript)
      /\ \A s \in Runs : s # r => pc'[s] = pc[s] /\ inbox'[s] = inbox[s]
  BY <1>0, <1>4
<1>. QED BY <1>1, <1>3, <1>4, <1>5

LEMMA CallEffects ==
  ASSUME TypeOK, HandInv, CallStep
  PROVE  CallEffect
<1> USE DEF boxVars, stateVars, lifeVars, loopVars, historyVars
<1>1. ASSUME NEW q \in Boxes, ClearQueue(q) \/ SetMode(q) PROVE CallEffect
  BY <1>1 DEF ClearQueue, SetMode, Clears, CallEffect
<1>2. CASE Abort \/ CancelCaller
  BY <1>2 DEF Abort, CancelCaller, CallEffect
<1>3. CASE ContinueRefused
  <2>1. ContinueBox \in Boxes
    BY DEF ContinueBox, Boxes
  <2>. QED BY <1>3, <2>1 DEF ContinueRefused, Refuses, CallEffect
<1>4. ASSUME NEW r \in Runs, PromptCall(r) PROVE CallEffect
  <2>1. StartRun(r, <<Prompt(r)>>) /\ queue' = queue
    BY <1>4 DEF PromptCall
  <2>2. Starts(r)
    BY <2>1, StartFrame DEF Starts
  <2>. QED BY <2>2 DEF CallEffect
<1>5. ASSUME NEW r \in Runs, ContinueCall(r) PROVE CallEffect
  <2>1. CASE StartRun(r, <<>>) /\ queue' = queue
    <3>1. Starts(r)
      BY <2>1, StartFrame DEF Starts
    <3>. QED BY <3>1 DEF CallEffect
  <2>2. CASE /\ StartRun(r, AsMessages(Drained(ContinueBox)))
             /\ queue' = [queue EXCEPT ![ContinueBox] = Remaining(ContinueBox)]
    <3>1. ContinueBox \in Boxes
      BY DEF ContinueBox, Boxes
    <3>2. PICK q \in Boxes : q = ContinueBox
      BY <3>1
    <3>3. Takes(r, q) /\ UNCHANGED <<pushed, cleared>>
      BY <2>2, <3>2, StartFrame DEF Takes
    <3>. QED BY <3>3 DEF CallEffect
  <2>. QED BY <1>5, <2>1, <2>2 DEF ContinueCall
<1>. QED BY <1>1, <1>2, <1>3, <1>4, <1>5 DEF CallStep, CallEffect

LEMMA CallHands ==
  ASSUME TypeOK, HandInv, CallStep
  PROVE  HandInv'
<1> USE DEF stateVars, lifeVars, loopVars
<1>1. CASE UNCHANGED <<pc, inbox, started>>
  BY <1>1 DEF HandInv
<1>2. ASSUME NEW r \in Runs, NEW prompts, StartRun(r, prompts) PROVE HandInv'
  <2>1. /\ r = started + 1 /\ started' = r /\ started \in Nat
        /\ pc'[r] = "starting" /\ \A s \in Runs : s # r => pc'[s] = pc[s] /\ inbox'[s] = inbox[s]
    <3>1. started \in Nat
      BY BoundsAssumption DEF TypeOK
    <3>. QED BY <1>2, <3>1, StartFrame
  <2>2. \A s \in Runs : s > started' => s > started /\ s # r
    BY <2>1, RunsAreNat
  <2>. QED BY <2>1, <2>2 DEF HandInv, Holding
<1>3. \/ UNCHANGED <<pc, inbox, started>>
      \/ \E r \in Runs : PromptCall(r) \/ ContinueCall(r)
  BY DEF CallStep, Push, ClearQueue, SetMode, Abort, Reset, ContinueRefused, CancelCaller
<1>. QED BY <1>1, <1>2, <1>3 DEF PromptCall, ContinueCall

(* A queued message is told apart from a prompt, an answer and a result. *)
LEMMA QueuedIsNot ==
  /\ \A m \in Msgs, n \in Msgs : Queued(m) = Queued(n) => m = n
  /\ \A m \in Msgs : Queued(m).role = "queued"
  /\ \A m \in Msgs, r \in Runs : Prompt(r) # Queued(m)
<1>1. \A m \in Msgs : Queued(m).role = "queued" /\ Queued(m).msg = m
  BY DEF Queued
<1>2. \A r \in Runs : Prompt(r).role = "user"
  BY DEF Prompt
<1>. QED BY <1>1, <1>2

LEMMA TakesOnce ==
  ASSUME TypeOK, OnceInv, NEW r \in Runs, NEW q \in Boxes, Takes(r, q), Sent' = Sent
  PROVE  OnceInv'
<1>1. \A m \in Msgs, s \in Runs, i \in Nat : InHand(s, i, m)' =>
            InHand(s, i, m) \/ (s = r /\ i \in DOMAIN Drained(q) /\ Drained(q)[i] = m)
  <2>1. SUFFICES ASSUME NEW m \in Msgs, NEW s \in Runs, NEW i \in Nat, InHand(s, i, m)', ~ InHand(s, i, m)
                 PROVE  s = r /\ i \in DOMAIN Drained(q) /\ Drained(q)[i] = m
    OBVIOUS
  <2>2. s = r
    BY <2>1 DEF InHand, Takes, TypeOK
  <2>3. inbox'[r] # <<>> /\ inbox'[r] = AsMessages(Drained(q))
    BY <2>1, <2>2 DEF InHand, Takes, TypeOK
  <2>4. i \in DOMAIN AsMessages(Drained(q)) /\ AsMessages(Drained(q))[i] = Queued(m)
    BY <2>1, <2>2, <2>3 DEF InHand
  <2>5. i \in DOMAIN Drained(q) /\ Queued(Drained(q)[i]) = Queued(m)
    BY <2>4 DEF AsMessages
  <2>6. Drained(q)[i] \in Msgs
    BY <2>5, DrainTypes, ElementOfSeq, LenProperties
  <2>. QED BY <2>2, <2>5, <2>6, QueuedIsNot
<1>. QED BY <1>1, TakeOnce DEF Takes

LEMMA SentStays == ASSUME pushed' = pushed PROVE Sent' = Sent
  BY DEF Sent

(* Every call keeps a message in one place. *)
LEMMA CallOnce ==
  ASSUME TypeOK, HandInv, OnceInv, CallStep
  PROVE  OnceInv'
<1>1. ASSUME NEW q \in Boxes, Clears(q) PROVE OnceInv'
  <2>1. \A m \in Msgs, b \in Boxes, i \in Nat : InQueue(b, i, m)' => InQueue(b, i, m)
    BY <1>1 DEF InQueue, Clears, TypeOK
  <2>. QED BY <1>1, <2>1, VanishOnce, SentStays DEF Clears, InHand, InTranscript
<1>2. ASSUME NEW q \in Boxes, Refuses(q) PROVE OnceInv'
  <2>1. PICK r \in Runs : TRUE
    BY BoundsAssumption DEF Runs
  <2>2. \A m \in Msgs, s \in Runs, i \in Nat : InHand(s, i, m)' => InHand(s, i, m)
    BY <1>2 DEF Refuses, InHand
  <2>3. /\ queue' = [queue EXCEPT ![q] = Remaining(q)] /\ transcript' = transcript
        /\ pushed' = pushed
    BY <1>2 DEF Refuses
  <2>. QED BY <2>2, <2>3, TakeOnce, SentStays
<1>3. CASE Reset
  <2>1. \A m \in Msgs, b \in Boxes, i \in Nat : InQueue(b, i, m)' => InQueue(b, i, m)
    BY <1>3 DEF InQueue, Reset, TypeOK
  <2>2. UNCHANGED <<inbox, pushed>> /\ transcript' = <<>>
    BY <1>3 DEF Reset, loopVars
  <2>. QED BY <2>1, <2>2, VanishOnce, SentStays DEF InHand, InTranscript
<1>4. ASSUME NEW r \in Runs, Starts(r) PROVE OnceInv'
  <2>1. \A m \in Msgs, s \in Runs, i \in Nat : InHand(s, i, m)' => InHand(s, i, m)
    <3>1. \A s \in Runs : s # r => inbox'[s] = inbox[s]
      BY <1>4 DEF Starts, TypeOK
    <3>2. inbox'[r] = <<>> \/ inbox'[r] = <<Prompt(r)>>
      BY <1>4 DEF Starts, TypeOK
    <3>3. \A m \in Msgs, i \in Nat : ~ InHand(r, i, m)'
      BY <3>2, QueuedIsNot DEF InHand
    <3>. QED BY <3>1, <3>3 DEF InHand
  <2>. QED BY <1>4, <2>1, VanishOnce, SentStays DEF Starts, InQueue, InTranscript
<1>5. ASSUME NEW r \in Runs, NEW q \in Boxes, Takes(r, q), UNCHANGED <<pushed, cleared>> PROVE OnceInv'
  BY <1>5, TakesOnce, SentStays
<1>6. CASE UNCHANGED <<queue, inbox, transcript, pushed, cleared>>
  BY <1>6, VanishOnce, SentStays DEF InQueue, InHand, InTranscript
<1>. QED BY <1>1, <1>2, <1>3, <1>4, <1>5, <1>6, PushOnce, CallEffects DEF CallEffect

(* Every step of a loop keeps a message in one place. *)
LEMMA LoopOnce ==
  ASSUME TypeOK, HandInv, OnceInv, NEW r \in Runs, LoopStep(r)
  PROVE  OnceInv'
<1>1. Sent' = Sent
  BY LoopFrame, SentStays
<1>2. CASE Quiet(r)
  <2>1. \A m \in Msgs, s \in Runs, i \in Nat : InHand(s, i, m)' => InHand(s, i, m)
    <3>1. inbox' = inbox \/ inbox' = [inbox EXCEPT ![r] = <<>>]
      BY <1>2 DEF Quiet
    <3>2. \A s \in Runs : inbox'[s] = inbox[s] \/ inbox'[s] = <<>>
      BY <3>1 DEF TypeOK
    <3>. QED BY <3>2 DEF InHand
  <2>2. \A m \in Msgs, i \in Nat : InTranscript(i, m)' => InTranscript(i, m)
    <3>1. CASE transcript' = transcript
      BY <3>1 DEF InTranscript
    <3>2. ASSUME NEW x, x.role \in {"assistant", "toolResult"}, transcript' = Append(transcript, x)
          PROVE  \A m \in Msgs, i \in Nat : InTranscript(i, m)' => InTranscript(i, m)
      <4>1. /\ Len(transcript) \in Nat /\ DOMAIN transcript = 1 .. Len(transcript)
            /\ DOMAIN transcript' = 1 .. Len(transcript) + 1
            /\ transcript'[Len(transcript) + 1] = x
            /\ \A i \in 1 .. Len(transcript) : transcript'[i] = transcript[i]
        BY <3>2 DEF TypeOK
      <4>2. \A m \in Msgs : x # Queued(m)
        BY <3>2, QueuedIsNot
      <4>. QED BY <4>1, <4>2 DEF InTranscript
    <3>. QED BY <1>2, <3>1, <3>2 DEF Quiet
  <2>. QED BY <1>1, <1>2, <2>1, <2>2, VanishOnce DEF Quiet, InQueue
<1>. QED BY <1>1, <1>2, LoopEffects, DeliverOnce, TakesOnce

LEMMA OnceIsQueuedOnce == ASSUME TypeOK, OnceInv PROVE QueuedOnce
<1>1. /\ \A q \in Boxes : DOMAIN queue[q] \subseteq Nat
      /\ \A r \in Runs : DOMAIN inbox[r] \subseteq Nat
      /\ DOMAIN transcript \subseteq Nat
  BY LenProperties DEF TypeOK
<1>2. ASSUME NEW m \in Msgs, NEW p \in Places(m)
      PROVE  \/ \E q \in Boxes, i \in Nat : p = <<q, 0, i>> /\ InQueue(q, i, m)
             \/ \E r \in Runs, i \in Nat : p = <<"inbox", r, i>> /\ InHand(r, i, m)
             \/ \E i \in Nat : p = <<"transcript", 0, i>> /\ InTranscript(i, m)
  <2>1. CASE \E q \in Boxes : p \in {<<q, 0, i>> : i \in Occurrences(queue[q], m)}
    BY <1>1, <2>1 DEF Occurrences, InQueue
  <2>2. CASE \E r \in Runs : p \in {<<"inbox", r, i>> : i \in Occurrences(inbox[r], Queued(m))}
    BY <1>1, <2>2 DEF Occurrences, InHand
  <2>3. CASE p \in {<<"transcript", 0, i>> : i \in Occurrences(transcript, Queued(m))}
    BY <1>1, <2>3 DEF Occurrences, InTranscript
  <2>4. \/ p \in UNION {{<<q, 0, i>> : i \in Occurrences(queue[q], m)} : q \in Boxes}
        \/ p \in UNION {{<<"inbox", r, i>> : i \in Occurrences(inbox[r], Queued(m))} : r \in Runs}
        \/ p \in {<<"transcript", 0, i>> : i \in Occurrences(transcript, Queued(m))}
    BY Zenon DEF Places
  <2>5. p \in UNION {{<<q, 0, i>> : i \in Occurrences(queue[q], m)} : q \in Boxes} =>
            \E q \in Boxes : p \in {<<q, 0, i>> : i \in Occurrences(queue[q], m)}
    BY Zenon
  <2>6. p \in UNION {{<<"inbox", r, i>> : i \in Occurrences(inbox[r], Queued(m))} : r \in Runs} =>
            \E r \in Runs : p \in {<<"inbox", r, i>> : i \in Occurrences(inbox[r], Queued(m))}
    BY Zenon
  <2>. QED BY <2>1, <2>2, <2>3, <2>4, <2>5, <2>6
<1>3. ASSUME NEW m \in Msgs, NEW p1 \in Places(m), NEW p2 \in Places(m) PROVE p1 = p2
  BY <1>2 DEF OnceInv
<1>. QED BY <1>3 DEF QueuedOnce

LEMMA InitOnce == Init => HandInv /\ OnceInv
  BY DEF Init, HandInv, OnceInv, InQueue, InHand, InTranscript, Holding

LEMMA NextOnce == ASSUME TypeOK, HandInv, OnceInv, [Next]_vars PROVE HandInv' /\ OnceInv'
<1>1. CASE CallStep
  BY <1>1, CallHands, CallOnce
<1>2. ASSUME NEW r \in Runs, LoopStep(r) PROVE HandInv' /\ OnceInv'
  BY <1>2, LoopHands, LoopOnce
<1>3. CASE UNCHANGED vars
  <2>1. UNCHANGED <<queue, inbox, transcript, pushed, pc, started>>
    BY <1>3 DEF vars, boxVars, stateVars, lifeVars, loopVars, historyVars
  <2>2. HandInv'
    BY <2>1 DEF HandInv
  <2>. QED BY <2>1, <2>2, VanishOnce, SentStays DEF InQueue, InHand, InTranscript
<1>. QED BY <1>1, <1>2, <1>3 DEF Next

(* Whatever hooks, providers, callers and overlapping continue_run() calls do, a steered or
   followed-up message is in one place at a time: no drain, clear, restart or failure shows it
   to the model twice (agent.py's queues and the drains of agent_loop.py). *)
THEOREM NeverTwice == Spec => []QueuedOnce
<1>1. Init => HandInv /\ OnceInv
  BY InitOnce
<1>2. TypeOK /\ HandInv /\ OnceInv /\ [Next]_vars => (HandInv /\ OnceInv)'
  BY NextOnce
<1>3. TypeOK /\ OnceInv => QueuedOnce
  BY OnceIsQueuedOnce
<1>. QED BY <1>1, <1>2, <1>3, TypeCorrect, PTL DEF Spec

-----------------------------------------------------------------------------
(* Which run is active: a loop gives that up only to return, and a call only to start a run or
   when a caller is cancelled. *)
LEMMA LoopControl ==
  ASSUME TypeOK, NEW r \in Runs, LoopStep(r)
  PROVE  \/ active' = active /\ pc'[r] \in LoopPcs \cup {"ended", "dead"}
         \/ active = r /\ active' = 0 /\ pc'[r] = "returned"
<1> USE DEF TypeOK, Goto, LeaveTo, LoopPcs, allButPc, lifeVars
<1>1. CASE Return(r)
  BY <1>1 DEF Return
<1>2. CASE EmitStart(r) \/ KeepInbox(r) \/ Announce(r) \/ Request(r) \/ CallProvider(r)
  BY <1>2 DEF EmitStart, KeepInbox, Announce, Request, CallProvider
<1>3. CASE EmitPrompt(r) \/ TurnTop(r) \/ Inject(r) \/ Partial(r)
  BY <1>3 DEF EmitPrompt, TurnTop, Inject, Partial
<1>4. CASE InitialDrain(r) \/ Redrain(r) \/ TakeFollowUp(r) \/ \E more \in BOOLEAN : Decide(r, more)
  <2>1. \E q \in Boxes, l \in LoopPcs : DrainInto(r, q, l)
    BY <1>4 DEF InitialDrain, Redrain, TakeFollowUp, Decide, Boxes
  <2>. QED BY <2>1 DEF DrainInto
<1>5. ASSUME NEW s \in Outcomes, NEW n \in 0 .. MaxCalls, Finish(r, s, n)
      PROVE  active' = active /\ pc'[r] \in LoopPcs
  BY <1>5 DEF Finish
<1>6. CASE StreamBreaks(r) \/ BatchFails(r) \/ StopAfterTurn(r) \/ Close(r)
  BY <1>6 DEF StreamBreaks, BatchFails, StopAfterTurn, Close
<1>7. CASE AppendResult(r) \/ NextCall(r) \/ EndTurn(r)
  BY <1>7 DEF AppendResult, NextCall, EndTurn
<1>8. CASE Fail(r) \/ OutsideRun(r)
  BY <1>8 DEF Fail, OutsideRun
<1>. QED BY <1>1, <1>2, <1>3, <1>4, <1>5, <1>6, <1>7, <1>8 DEF LoopStep

LEMMA CallControl ==
  ASSUME TypeOK, HandInv, CallStep
  PROVE  \/ pc' = pc /\ active' \in {active, 0}
         \/ \E r \in Runs : active = 0 /\ active' = r /\ pc[r] = "idle" /\ pc' = [pc EXCEPT ![r] = "starting"]
<1> USE DEF lifeVars, loopVars
<1>1. ASSUME NEW r \in Runs, NEW prompts, StartRun(r, prompts)
      PROVE  active = 0 /\ active' = r /\ pc[r] = "idle" /\ pc' = [pc EXCEPT ![r] = "starting"]
  BY <1>1, StartFrame
<1>2. \/ pc' = pc /\ active' \in {active, 0}
      \/ \E r \in Runs : PromptCall(r) \/ ContinueCall(r)
  BY DEF CallStep, Push, ClearQueue, SetMode, Abort, Reset, ContinueRefused, CancelCaller
<1>. QED BY <1>1, <1>2 DEF PromptCall, ContinueCall

(* A run that was abandoned stays so: no later step joins it with a caller again. *)
LEMMA AbandonedStays ==
  ASSUME TypeOK, HandInv, [Next]_vars, Undisturbed'
  PROVE  Undisturbed
<1> SUFFICES ASSUME NEW r \in Runs, Abandoned(r) PROVE Abandoned(r)'
  BY DEF Undisturbed
<1>0. pc[r] \notin {"idle", "returned"} /\ active # r /\ r # 0
  BY RunsAreNat DEF Abandoned
<1>1. CASE CallStep
  <2>1. CASE pc' = pc /\ active' \in {active, 0}
    BY <1>0, <2>1 DEF Abandoned
  <2>2. ASSUME NEW s \in Runs, active' = s, pc[s] = "idle", pc' = [pc EXCEPT ![s] = "starting"]
        PROVE  Abandoned(r)'
    <3>1. s # r
      BY <1>0, <2>2
    <3>. QED BY <1>0, <2>2, <3>1 DEF Abandoned, TypeOK
  <2>. QED BY <1>1, <2>1, <2>2, CallControl
<1>2. ASSUME NEW s \in Runs, LoopStep(s) PROVE Abandoned(r)'
  <2>1. CASE s = r
    BY <1>0, <1>2, <2>1, LoopControl DEF Abandoned, LoopPcs
  <2>2. CASE s # r
    <3>1. pc'[r] = pc[r]
      BY <1>2, <2>2, LoopFrame
    <3>2. active' \in {active, 0}
      BY <1>2, LoopControl
    <3>. QED BY <1>0, <3>1, <3>2 DEF Abandoned
  <2>. QED BY <2>1, <2>2
<1>3. CASE UNCHANGED vars
  BY <1>3 DEF vars, lifeVars, loopVars, Abandoned
<1>. QED BY <1>1, <1>2, <1>3 DEF Next

-----------------------------------------------------------------------------
LEMMA KeptWhere ==
  ASSUME TypeOK, NEW m \in Msgs
  PROVE  Kept(m) <=> \/ \E q \in Boxes, i \in Nat : InQueue(q, i, m)
                     \/ \E r \in Runs, i \in Nat : InHand(r, i, m)
                     \/ \E i \in Nat : InTranscript(i, m)
<1>1. /\ \A q \in Boxes : DOMAIN queue[q] \subseteq Nat
      /\ \A r \in Runs : DOMAIN inbox[r] \subseteq Nat
      /\ DOMAIN transcript \subseteq Nat
  BY LenProperties DEF TypeOK
<1>2. (\E q \in Boxes : m \in Elems(queue[q])) <=> \E q \in Boxes, i \in Nat : InQueue(q, i, m)
  BY <1>1 DEF Elems, InQueue
<1>3. (\E r \in Runs : Queued(m) \in Elems(inbox[r])) <=> \E r \in Runs, i \in Nat : InHand(r, i, m)
  BY <1>1 DEF Elems, InHand
<1>4. Queued(m) \in Elems(transcript) <=> \E i \in Nat : InTranscript(i, m)
  BY <1>1 DEF Elems, InTranscript
<1>. QED BY <1>2, <1>3, <1>4 DEF Kept

LEMMA SentAreMsgs == TypeOK => Sent \subseteq Msgs
<1> SUFFICES ASSUME TypeOK PROVE Sent \subseteq Msgs
  OBVIOUS
<1>1. \A q \in Boxes : pushed[q] \in Seq(Msgs)
  BY DEF TypeOK
<1>2. \A q \in Boxes : Elems(pushed[q]) \subseteq Msgs
  BY <1>1, LenProperties, ElementOfSeq DEF Elems
<1>. QED BY <1>2 DEF Sent, Boxes

(* A message that is in one of these places after a step is kept by it. *)
LEMMA KeptThere ==
  ASSUME TypeOK', NEW m \in Msgs
  PROVE  /\ \A q \in Boxes, i \in Nat : InQueue(q, i, m)' => Kept(m)'
         /\ \A r \in Runs, i \in Nat : InHand(r, i, m)' => Kept(m)'
         /\ \A i \in Nat : InTranscript(i, m)' => Kept(m)'
<1>1. \A q \in Boxes, i \in Nat : InQueue(q, i, m)' => m \in Elems(queue'[q])
  BY DEF Elems, InQueue
<1>2. \A r \in Runs, i \in Nat : InHand(r, i, m)' => Queued(m) \in Elems(inbox'[r])
  BY DEF Elems, InHand
<1>3. \A i \in Nat : InTranscript(i, m)' => Queued(m) \in Elems(transcript')
  BY DEF Elems, InTranscript
<1>. QED BY <1>1, <1>2, <1>3 DEF Kept

(* A message whose place is kept, or that moves to another one, is kept. *)
LEMMA StaysKept ==
  ASSUME TypeOK, TypeOK', NEW m \in Msgs, Kept(m),
         \A q \in Boxes, i \in Nat : InQueue(q, i, m) => Kept(m)',
         \A r \in Runs, i \in Nat : InHand(r, i, m) => Kept(m)',
         \A i \in Nat : InTranscript(i, m) => Kept(m)'
  PROVE  Kept(m)'
  BY KeptWhere

(* What a drain takes out of a queue is in the hands of the loop. *)
LEMMA TakenIsKept ==
  ASSUME TypeOK, TypeOK', NEW r \in Runs, NEW q \in Boxes, Takes(r, q), ~ HooksMayFail,
         NEW m \in Msgs, Kept(m)
  PROVE  Kept(m)'
<1>0. /\ queue' = [queue EXCEPT ![q] = Remaining(q)] /\ transcript' = transcript /\ inbox[r] = <<>>
      /\ inbox' = [inbox EXCEPT ![r] = AsMessages(Drained(q))]
  BY DEF Takes
<1>1. PICK k \in Nat :
            /\ k <= Len(queue[q])
            /\ DOMAIN Drained(q) = 1 .. k /\ \A i \in 1 .. k : Drained(q)[i] = queue[q][i]
            /\ DOMAIN Remaining(q) = 1 .. Len(queue[q]) - k
            /\ \A i \in 1 .. Len(queue[q]) - k : Remaining(q)[i] = queue[q][i + k]
  BY DrainItems
<1>2. queue[q] \in Seq(Msgs) /\ Len(queue[q]) \in Nat /\ DOMAIN queue[q] = 1 .. Len(queue[q])
  BY LenProperties DEF TypeOK
<1>3. ASSUME NEW i \in Nat, InQueue(q, i, m), i <= k PROVE Kept(m)'
  <2>1. i \in DOMAIN Drained(q) /\ Drained(q)[i] = m
    BY <1>1, <1>2, <1>3 DEF InQueue
  <2>2. inbox'[r] = AsMessages(Drained(q))
    BY <1>0 DEF TypeOK
  <2>3. InHand(r, i, m)'
    BY <2>1, <2>2 DEF InHand, AsMessages
  <2>. QED BY <2>3, KeptThere
<1>4. ASSUME NEW i \in Nat, InQueue(q, i, m), ~ i <= k PROVE Kept(m)'
  <2>1. i - k \in 1 .. Len(queue[q]) - k /\ i - k \in Nat /\ (i - k) + k = i
    BY <1>1, <1>2, <1>4 DEF InQueue
  <2>2. queue'[q] = Remaining(q)
    BY <1>0 DEF TypeOK
  <2>3. InQueue(q, i - k, m)'
    BY <1>1, <1>4, <2>1, <2>2 DEF InQueue
  <2>. QED BY <2>1, <2>3, KeptThere
<1>5. ASSUME NEW b \in Boxes, b # q, NEW i \in Nat, InQueue(b, i, m) PROVE Kept(m)'
  <2>1. InQueue(b, i, m)'
    BY <1>0, <1>5 DEF InQueue, TypeOK
  <2>. QED BY <2>1, KeptThere
<1>6. ASSUME NEW s \in Runs, NEW i \in Nat, InHand(s, i, m) PROVE Kept(m)'
  <2>1. s # r
    BY <1>0, <1>6 DEF InHand
  <2>2. InHand(s, i, m)'
    BY <1>0, <1>6, <2>1 DEF InHand, TypeOK
  <2>. QED BY <2>2, KeptThere
<1>7. ASSUME NEW i \in Nat, InTranscript(i, m) PROVE Kept(m)'
  <2>1. InTranscript(i, m)'
    BY <1>0, <1>7 DEF InTranscript
  <2>. QED BY <2>1, KeptThere
<1>. QED BY <1>3, <1>4, <1>5, <1>6, <1>7, StaysKept

(* What the loop delivers is in the transcript. *)
LEMMA DeliveredIsKept ==
  ASSUME TypeOK, TypeOK', NEW r \in Runs, Delivers(r), NEW m \in Msgs, Kept(m)
  PROVE  Kept(m)'
<1>1. /\ inbox[r] \in Seq(Message) /\ inbox[r] # <<>> /\ transcript \in Seq(Message)
      /\ Len(inbox[r]) \in Nat /\ DOMAIN inbox[r] = 1 .. Len(inbox[r])
      /\ DOMAIN transcript = 1 .. Len(transcript) /\ Len(transcript) \in Nat
  BY LenProperties DEF TypeOK, Delivers
<1>2. /\ DOMAIN Tail(inbox[r]) = 1 .. Len(inbox[r]) - 1
      /\ \A i \in 1 .. Len(inbox[r]) - 1 : Tail(inbox[r])[i] = inbox[r][i + 1]
      /\ Head(inbox[r]) = inbox[r][1]
  BY <1>1, HeadTailProperties
<1>3. /\ DOMAIN transcript' = 1 .. Len(transcript) + 1
      /\ transcript'[Len(transcript) + 1] = inbox[r][1]
      /\ \A i \in 1 .. Len(transcript) : transcript'[i] = transcript[i]
  BY <1>1, <1>2, AppendProperties DEF Delivers
<1>4. inbox'[r] = Tail(inbox[r]) /\ \A s \in Runs : s # r => inbox'[s] = inbox[s]
  BY DEF Delivers, TypeOK
<1>5. ASSUME NEW s \in Runs, NEW i \in Nat, InHand(s, i, m) PROVE Kept(m)'
  <2>1. CASE s # r
    <3>1. InHand(s, i, m)'
      BY <1>4, <1>5, <2>1 DEF InHand
    <3>. QED BY <3>1, KeptThere
  <2>2. CASE s = r /\ i = 1
    <3>1. PICK n \in Nat : n = Len(transcript) + 1
      BY <1>1
    <3>2. InTranscript(n, m)'
      BY <1>1, <1>3, <1>5, <2>2, <3>1 DEF InHand, InTranscript
    <3>. QED BY <3>2, KeptThere
  <2>3. CASE s = r /\ i # 1
    <3>1. i - 1 \in Nat /\ i - 1 \in 1 .. Len(inbox[r]) - 1 /\ (i - 1) + 1 = i
      BY <1>1, <1>5, <2>3 DEF InHand
    <3>2. InHand(r, i - 1, m)'
      BY <1>2, <1>4, <1>5, <2>3, <3>1 DEF InHand
    <3>. QED BY <3>1, <3>2, KeptThere
  <2>. QED BY <2>1, <2>2, <2>3
<1>6. ASSUME NEW q \in Boxes, NEW i \in Nat, InQueue(q, i, m) PROVE Kept(m)'
  <2>1. InQueue(q, i, m)'
    BY <1>6 DEF InQueue, Delivers
  <2>. QED BY <2>1, KeptThere
<1>7. ASSUME NEW i \in Nat, InTranscript(i, m) PROVE Kept(m)'
  <2>1. InTranscript(i, m)'
    BY <1>1, <1>3, <1>7 DEF InTranscript
  <2>. QED BY <2>1, KeptThere
<1>. QED BY <1>5, <1>6, <1>7, StaysKept

(* A step that does not fail and belongs to no abandoned run loses nothing. *)
LEMMA LoopLosesNothing ==
  ASSUME TypeOK, TypeOK', HandInv, NothingLost, ~ HooksMayFail, Undisturbed,
         NEW r \in Runs, LoopStep(r), NEW m \in Sent \ cleared
  PROVE  Kept(m)'
<1>1. m \in Msgs /\ Kept(m)
  BY SentAreMsgs DEF NothingLost
<1>2. CASE Quiet(r)
  <2>1. queue' = queue /\ inbox' = inbox
    BY <1>2 DEF Quiet, Undisturbed
  <2>2. \A x \in Elems(transcript) : x \in Elems(transcript')
    <3>1. CASE transcript' = transcript
      BY <3>1
    <3>2. ASSUME NEW x, transcript' = Append(transcript, x)
          PROVE  Elems(transcript) \subseteq Elems(transcript')
      <4>1. /\ Len(transcript) \in Nat /\ DOMAIN transcript = 1 .. Len(transcript)
            /\ DOMAIN transcript' = 1 .. Len(transcript) + 1
            /\ \A i \in 1 .. Len(transcript) : transcript'[i] = transcript[i]
        BY <3>2 DEF TypeOK
      <4>. QED BY <4>1 DEF Elems
    <3>. QED BY <1>2, <3>1, <3>2 DEF Quiet
  <2>. QED BY <1>1, <2>1, <2>2 DEF Kept
<1>. QED BY <1>1, <1>2, LoopEffects, DeliveredIsKept, TakenIsKept

(* A call loses nothing but what it clears: continue_run() that is refused would. *)
LEMMA CallLosesNothing ==
  ASSUME TypeOK, TypeOK', HandInv, NothingLost, ~ HooksMayFail, ~ ContinueMayOverlap, Undisturbed,
         CallStep
  PROVE  NothingLost'
<1>0. \A m \in Sent \ cleared : m \in Msgs /\ Kept(m)
  BY SentAreMsgs DEF NothingLost
<1> SUFFICES ASSUME NEW m \in Msgs, m \in Sent' \ cleared' PROVE Kept(m)'
  <2>1. Sent' \subseteq Msgs
    <3>1. \A q \in Boxes : pushed'[q] \in Seq(Msgs)
      BY DEF TypeOK
    <3>2. \A q \in Boxes : Elems(pushed'[q]) \subseteq Msgs
      BY <3>1, LenProperties, ElementOfSeq DEF Elems
    <3>. QED BY <3>2 DEF Sent, Boxes
  <2>. QED BY <2>1 DEF NothingLost
<1>1. ASSUME NEW q \in Boxes, NEW n \in Msgs, Push(q, n) PROVE Kept(m)'
  <2>1. /\ queue[q] \in Seq(Msgs) /\ pushed[q] \in Seq(Msgs)
        /\ queue'[q] = Append(queue[q], n) /\ pushed'[q] = Append(pushed[q], n)
        /\ \A b \in Boxes : b # q => queue'[b] = queue[b] /\ pushed'[b] = pushed[b]
        /\ UNCHANGED <<inbox, transcript, cleared>>
    BY <1>1 DEF Push, TypeOK, stateVars, loopVars
  <2>2. ASSUME NEW s \in Seq(Msgs) PROVE Elems(Append(s, n)) = Elems(s) \cup {n}
    <3>1. /\ DOMAIN Append(s, n) = 1 .. Len(s) + 1 /\ Append(s, n)[Len(s) + 1] = n
          /\ DOMAIN s = 1 .. Len(s) /\ Len(s) \in Nat
          /\ \A i \in 1 .. Len(s) : Append(s, n)[i] = s[i]
      BY AppendProperties, LenProperties
    <3>2. Elems(Append(s, n)) \subseteq Elems(s) \cup {n}
      BY <3>1 DEF Elems
    <3>3. Elems(s) \cup {n} \subseteq Elems(Append(s, n))
      BY <3>1 DEF Elems
    <3>. QED BY <3>2, <3>3
  <2>3. m = n \/ m \in Sent
    <3>1. \A b \in Boxes : Elems(pushed'[b]) \subseteq Elems(pushed[b]) \cup {n}
      BY <2>1, <2>2
    <3>. QED BY <3>1 DEF Sent, Boxes
  <2>4. \A b \in Boxes : Elems(queue[b]) \subseteq Elems(queue'[b])
    BY <2>1, <2>2
  <2>5. n \in Elems(queue'[q])
    BY <2>1, <2>2
  <2>. QED BY <1>0, <2>1, <2>3, <2>4, <2>5 DEF Kept
<1>2. ASSUME NEW q \in Boxes, Clears(q) PROVE Kept(m)'
  <2>1. m \in Sent /\ m \notin cleared /\ m \notin Elems(queue[q])
    BY <1>2, SentStays DEF Clears
  <2>2. \A b \in Boxes : b # q => queue'[b] = queue[b]
    BY <1>2 DEF Clears, TypeOK
  <2>. QED BY <1>0, <1>2, <2>1, <2>2 DEF Kept, Clears
<1>3. CASE Reset
  <2>1. m \in Sent /\ m \notin cleared
    BY <1>3, SentStays DEF Reset
  <2>2. Queued(m) \notin Elems(transcript) /\ \A b \in Boxes : m \notin Elems(queue[b])
    BY <1>3 DEF Reset
  <2>3. inbox' = inbox
    BY <1>3 DEF Reset, loopVars
  <2>. QED BY <1>0, <2>1, <2>2, <2>3 DEF Kept
<1>4. ASSUME NEW r \in Runs, Starts(r) PROVE Kept(m)'
  <2>1. Kept(m)
    BY <1>0, <1>4, SentStays DEF Starts
  <2>2. \A s \in Runs : Elems(inbox[s]) \subseteq Elems(inbox'[s])
    <3>1. \A s \in Runs : s # r => inbox'[s] = inbox[s]
      BY <1>4 DEF Starts, TypeOK
    <3>2. Elems(inbox[r]) = {}
      BY <1>4 DEF Starts, Elems
    <3>. QED BY <3>1, <3>2
  <2>. QED BY <1>4, <2>1, <2>2 DEF Kept, Starts
<1>5. ASSUME NEW r \in Runs, NEW q \in Boxes, Takes(r, q), UNCHANGED <<pushed, cleared>> PROVE Kept(m)'
  BY <1>0, <1>5, SentStays, TakenIsKept
<1>6. CASE UNCHANGED <<queue, inbox, transcript, pushed, cleared>>
  BY <1>0, <1>6, SentStays DEF Kept
<1>. QED BY <1>1, <1>2, <1>3, <1>4, <1>5, <1>6, CallEffects DEF CallEffect, Refuses

LEMMA NextLosesNothing ==
  ASSUME TypeOK, TypeOK', HandInv, NothingLost, ~ HooksMayFail, ~ ContinueMayOverlap, [Next]_vars
  PROVE  NothingLost'
<1> SUFFICES ASSUME Undisturbed' PROVE NothingLost'
  BY DEF NothingLost
<1>1. Undisturbed
  BY AbandonedStays
<1>2. CASE CallStep
  BY <1>1, <1>2, CallLosesNothing
<1>3. ASSUME NEW r \in Runs, LoopStep(r) PROVE NothingLost'
  <2>1. Sent' = Sent /\ cleared' = cleared
    BY <1>3, LoopFrame, SentStays
  <2>. QED BY <1>1, <1>3, <2>1, LoopLosesNothing DEF NothingLost
<1>4. CASE UNCHANGED vars
  <2>1. UNCHANGED <<queue, inbox, transcript, pushed, cleared>>
    BY <1>4 DEF vars, boxVars, stateVars, loopVars, historyVars
  <2>. QED BY <1>1, <2>1, SentStays DEF NothingLost, Kept
<1>. QED BY <1>2, <1>3, <1>4 DEF Next

(* Where hooks and external queues do not raise and continue_run() is not called during a run,
   every message that steer() or follow_up() accepted and nothing cleared is queued, in the
   hands of a loop or in the transcript, and only once, as long as no run is abandoned by a
   cancelled caller: no drain, abort, broken stream or restart loses or doubles it. *)
THEOREM DeliveredExactlyOnce ==
  ASSUME ~ HooksMayFail, ~ ContinueMayOverlap
  PROVE  Spec => []DeliveredOnce
<1>1. Init => NothingLost
  <2>1. ASSUME Init PROVE Sent = {}
    <3>1. pushed["steering"] = <<>> /\ pushed["followUp"] = <<>>
      BY <2>1 DEF Init, Boxes
    <3>2. Elems(<<>>) = {}
      BY DEF Elems
    <3>. QED BY <3>1, <3>2 DEF Sent
  <2>. QED BY <2>1 DEF NothingLost
<1>2. Init => HandInv /\ OnceInv
  BY InitOnce
<1>3. TypeOK /\ HandInv /\ OnceInv /\ [Next]_vars => (HandInv /\ OnceInv)'
  BY NextOnce
<1>4. TypeOK /\ TypeOK' /\ HandInv /\ NothingLost /\ [Next]_vars => NothingLost'
  BY NextLosesNothing
<1>5. TypeOK /\ OnceInv /\ NothingLost => DeliveredOnce
  BY OnceIsQueuedOnce DEF DeliveredOnce
<1>. QED BY <1>1, <1>2, <1>3, <1>4, <1>5, TypeCorrect, PTL DEF Spec

-----------------------------------------------------------------------------
(* Tool calls and their results.  Loops hold prompts and queued messages; *)
InputInv == \A r \in Runs : \A i \in DOMAIN inbox[r] : inbox[r][i].role \in {"user", "queued"}

(* every call that run r made is followed by its result; *)
AllAnswered(r) == \A i \in Calling(transcript, r) : Answered(transcript, i)

(* or all but those of its last message, whose results so far end the transcript. *)
InTheBatch(r) ==
    \E k \in DOMAIN transcript :
        /\ k + results[r] = Len(transcript)
        /\ transcript[k].role = "assistant" /\ transcript[k].calls = batch[r]
        /\ transcript[k].run = r /\ transcript[k].turn = turn[r]
        /\ \A j \in 1 .. results[r] : transcript[k + j] = ToolResult(r, turn[r], j)
        /\ \A i \in Calling(transcript, r) \ {k} : Answered(transcript, i)

(* A batch that an abort cut short leaves calls unanswered, but then the run asks no more. *)
AnswersFor(r) ==
    /\ pc[r] \in {"starting", "prompting", "turnTop", "redrain", "announce", "inject", "turnEnd",
                  "decide", "followUp"} => cancelled[r] \/ AllAnswered(r)
    /\ pc[r] \in {"requesting", "streaming", "partial"} => AllAnswered(r)
    /\ pc[r] \in {"tools", "toolCheck"} => InTheBatch(r)
RunsBegun == \A i \in DOMAIN transcript : transcript[i].role = "assistant" => transcript[i].run <= started
AnswersInv == InputInv /\ RunsBegun /\ \A r \in Runs : AnswersFor(r)

LEMMA AppendAnswers ==
  ASSUME TypeOK, NEW x, transcript' = Append(transcript, x)
  PROVE  /\ Len(transcript) \in Nat /\ DOMAIN transcript = 1 .. Len(transcript)
         /\ DOMAIN transcript' = 1 .. Len(transcript) + 1 /\ Len(transcript') = Len(transcript) + 1
         /\ transcript'[Len(transcript) + 1] = x
         /\ \A i \in DOMAIN transcript : transcript'[i] = transcript[i]
         /\ \A i \in DOMAIN transcript : Answered(transcript, i) => Answered(transcript', i)
         /\ \A r \in Runs : \A i \in Calling(transcript', r) :
                \/ i \in Calling(transcript, r)
                \/ i = Len(transcript) + 1 /\ x.role = "assistant" /\ x.run = r /\ x.stop # "failed"
<1>1. /\ Len(transcript) \in Nat /\ DOMAIN transcript = 1 .. Len(transcript)
      /\ DOMAIN transcript' = 1 .. Len(transcript) + 1 /\ Len(transcript') = Len(transcript) + 1
      /\ transcript'[Len(transcript) + 1] = x
      /\ \A i \in 1 .. Len(transcript) : transcript'[i] = transcript[i]
  BY DEF TypeOK
<1>2. ASSUME NEW i \in DOMAIN transcript, Answered(transcript, i) PROVE Answered(transcript', i)
  <2>1. transcript'[i] = transcript[i]
    BY <1>1, <1>2
  <2>2. \A j \in DOMAIN transcript : j \in DOMAIN transcript' /\ transcript'[j] = transcript[j]
    BY <1>1
  <2>. QED BY <1>2, <2>1, <2>2 DEF Answered
<1>3. ASSUME NEW r \in Runs, NEW i \in Calling(transcript', r)
      PROVE  \/ i \in Calling(transcript, r)
             \/ i = Len(transcript) + 1 /\ x.role = "assistant" /\ x.run = r /\ x.stop # "failed"
  BY <1>1, <1>3 DEF Calling
<1>. QED BY <1>1, <1>2, <1>3

(* A message that calls nothing leaves every call answered. *)
LEMMA AppendIdle ==
  ASSUME TypeOK, NEW x, transcript' = Append(transcript, x), x.role # "assistant" \/ x.calls = 0,
         NEW r \in Runs, AllAnswered(r)
  PROVE  AllAnswered(r)'
<1>1. Calling(transcript, r) \subseteq DOMAIN transcript
  BY DEF Calling
<1>2. ASSUME NEW i \in Calling(transcript', r) PROVE Answered(transcript', i)
  <2>1. CASE i \in Calling(transcript, r)
    BY <1>1, <2>1, AppendAnswers DEF AllAnswered
  <2>2. CASE i = Len(transcript) + 1 /\ x.role = "assistant"
    <3>1. transcript'[i] = x /\ x.calls = 0
      BY <2>2, AppendAnswers
    <3>. QED BY <3>1 DEF Answered
  <2>. QED BY <1>2, <2>1, <2>2, AppendAnswers
<1>. QED BY <1>2 DEF AllAnswered

LEMMA TakesInput ==
  ASSUME TypeOK, InputInv, NEW r \in Runs, NEW q \in Boxes, Takes(r, q)
  PROVE  InputInv'
<1>1. \A i \in DOMAIN AsMessages(Drained(q)) : AsMessages(Drained(q))[i].role = "queued"
  BY DEF AsMessages, Queued
<1>2. inbox'[r] = AsMessages(Drained(q)) \/ inbox'[r] = <<>>
  BY DEF Takes, TypeOK
<1>3. \A s \in Runs : s # r => inbox'[s] = inbox[s]
  BY DEF Takes, TypeOK
<1>. QED BY <1>1, <1>2, <1>3 DEF InputInv

LEMMA LoopInput ==
  ASSUME TypeOK, HandInv, InputInv, NEW r \in Runs, LoopStep(r)
  PROVE  InputInv'
<1>1. CASE Quiet(r)
  <2>1. \A s \in Runs : inbox'[s] = inbox[s] \/ inbox'[s] = <<>>
    BY <1>1 DEF Quiet, TypeOK
  <2>. QED BY <2>1 DEF InputInv
<1>2. CASE Delivers(r)
  <2>1. inbox[r] \in Seq(Message) /\ inbox[r] # <<>>
    BY <1>2 DEF Delivers, TypeOK
  <2>2. /\ DOMAIN Tail(inbox[r]) = 1 .. Len(inbox[r]) - 1
        /\ \A i \in 1 .. Len(inbox[r]) - 1 : Tail(inbox[r])[i] = inbox[r][i + 1]
        /\ DOMAIN inbox[r] = 1 .. Len(inbox[r]) /\ Len(inbox[r]) \in Nat
    BY <2>1, HeadTailProperties, LenProperties
  <2>3. inbox'[r] = Tail(inbox[r]) /\ \A s \in Runs : s # r => inbox'[s] = inbox[s]
    BY <1>2 DEF Delivers, TypeOK
  <2>4. \A i \in DOMAIN Tail(inbox[r]) : i + 1 \in DOMAIN inbox[r]
    BY <2>2
  <2>5. \A i \in DOMAIN inbox'[r] : inbox'[r][i].role \in {"user", "queued"}
    BY <2>2, <2>3, <2>4 DEF InputInv
  <2>. QED BY <2>3, <2>5 DEF InputInv
<1>. QED BY <1>1, <1>2, LoopEffects, TakesInput

LEMMA CallInput ==
  ASSUME TypeOK, HandInv, InputInv, CallStep
  PROVE  InputInv'
<1>1. CASE inbox' = inbox
  BY <1>1 DEF InputInv
<1>2. ASSUME NEW r \in Runs, Starts(r) PROVE InputInv'
  <2>1. Prompt(r).role = "user"
    BY DEF Prompt
  <2>2. inbox'[r] = <<>> \/ inbox'[r] = <<Prompt(r)>>
    BY <1>2 DEF Starts, TypeOK
  <2>3. \A s \in Runs : s # r => inbox'[s] = inbox[s]
    BY <1>2 DEF Starts, TypeOK
  <2>. QED BY <2>1, <2>2, <2>3 DEF InputInv
<1>. QED BY <1>1, <1>2, CallEffects, TakesInput DEF CallEffect, Push, Clears, Refuses, Reset, loopVars

(* Steps that leave the transcript alone: the loop enters the batch and leaves it only through
   its last result, or cut short by an abort. *)
LEMMA SilentAnswers ==
  ASSUME TypeOK, NEW r \in Runs, AnswersFor(r), UNCHANGED <<transcript, cancelled>>,
         pc'[r] \in {"requesting", "streaming", "partial"} =>
            \/ pc[r] \in {"requesting", "streaming", "partial"}
            \/ pc[r] = "inject" /\ ~ cancelled[r],
         pc'[r] \in {"tools", "toolCheck"} =>
            /\ pc[r] \in {"tools", "toolCheck"}
            /\ results'[r] = results[r] /\ batch'[r] = batch[r] /\ turn'[r] = turn[r],
         pc'[r] \in {"starting", "prompting", "turnTop", "redrain", "announce", "inject", "turnEnd",
                     "decide", "followUp"} =>
            \/ pc[r] \in {"starting", "prompting", "turnTop", "redrain", "announce", "inject", "turnEnd",
                          "decide", "followUp"}
            \/ pc[r] = "toolCheck" /\ (results[r] = batch[r] \/ cancelled[r])
  PROVE  AnswersFor(r)'
<1>1. AllAnswered(r) => AllAnswered(r)'
  BY DEF AllAnswered, Calling, Answered
<1>2. CASE pc'[r] \in {"tools", "toolCheck"}
  <2>1. InTheBatch(r)
    BY <1>2 DEF AnswersFor
  <2>2. results'[r] = results[r] /\ batch'[r] = batch[r] /\ turn'[r] = turn[r]
    BY <1>2
  <2>3. InTheBatch(r)'
    BY <2>1, <2>2 DEF InTheBatch, Calling, Answered
  <2>. QED BY <1>2, <2>3 DEF AnswersFor
<1>3. ASSUME InTheBatch(r), results[r] = batch[r] PROVE AllAnswered(r)
  <2>1. PICK k \in DOMAIN transcript :
            /\ k + results[r] = Len(transcript)
            /\ transcript[k].role = "assistant" /\ transcript[k].calls = batch[r]
            /\ transcript[k].run = r /\ transcript[k].turn = turn[r]
            /\ \A j \in 1 .. results[r] : transcript[k + j] = ToolResult(r, turn[r], j)
            /\ \A i \in Calling(transcript, r) \ {k} : Answered(transcript, i)
    BY <1>3 DEF InTheBatch
  <2>2. DOMAIN transcript = 1 .. Len(transcript) /\ Len(transcript) \in Nat /\ results[r] \in Nat
    BY LenProperties DEF TypeOK
  <2>3. \A j \in 1 .. results[r] : k + j \in DOMAIN transcript
    BY <2>1, <2>2
  <2>4. Answered(transcript, k)
    BY <1>3, <2>1, <2>3 DEF Answered
  <2>. QED BY <2>1, <2>4 DEF AllAnswered
<1>4. CASE pc'[r] \in {"requesting", "streaming", "partial"}
  <2>1. AllAnswered(r)
    BY <1>4 DEF AnswersFor
  <2>. QED BY <1>1, <1>4, <2>1 DEF AnswersFor
<1>5. CASE pc'[r] \in {"starting", "prompting", "turnTop", "redrain", "announce", "inject", "turnEnd",
                       "decide", "followUp"}
  <2>1. cancelled[r] \/ AllAnswered(r)
    BY <1>3, <1>5 DEF AnswersFor
  <2>2. cancelled'[r] = cancelled[r]
    OBVIOUS
  <2>. QED BY <1>1, <1>5, <2>1, <2>2 DEF AnswersFor
<1>. QED BY <1>2, <1>4, <1>5 DEF AnswersFor

(* The last message asks for n calls, none of which has a result yet. *)
LEMMA FinishAnswers ==
  ASSUME TypeOK, NEW r \in Runs, AnswersFor(r), NEW s \in Outcomes, NEW n \in 0 .. MaxCalls,
         Finish(r, s, n)
  PROVE  AnswersFor(r)'
<1>1. PICK x : x = Assistant(r, turn[r], n, s)
  OBVIOUS
<1>2. /\ x.role = "assistant" /\ x.run = r /\ x.turn = turn[r] /\ x.calls = n
  BY <1>1 DEF Assistant
<1>3. transcript' = Append(transcript, x) /\ turn' = turn /\ cancelled' = cancelled
  BY <1>1 DEF Finish
<1>4. AllAnswered(r)
  BY DEF Finish, AnswersFor
<1>5. pc'[r] = (IF s = "failed" THEN "closing" ELSE IF n > 0 THEN "tools" ELSE "turnEnd")
  BY DEF Finish, Goto, TypeOK
<1>6. batch'[r] = n /\ results'[r] = 0
  BY DEF Finish, TypeOK
<1>7. CASE pc'[r] = "turnEnd"
  <2>1. n = 0
    BY <1>5, <1>7
  <2>2. AllAnswered(r)'
    BY <1>2, <1>3, <1>4, <2>1, AppendIdle
  <2>. QED BY <1>7, <2>2 DEF AnswersFor
<1>8. CASE pc'[r] = "tools"
  <2>1. PICK k \in Nat : k = Len(transcript) + 1
    BY AppendAnswers, <1>3
  <2>2. /\ k \in DOMAIN transcript' /\ transcript'[k] = x /\ k + 0 = Len(transcript')
    BY <1>3, <2>1, AppendAnswers
  <2>3. ASSUME NEW i \in Calling(transcript', r) \ {k} PROVE Answered(transcript', i)
    <3>1. i \in Calling(transcript, r) /\ i \in DOMAIN transcript
      BY <1>3, <2>1, <2>3, AppendAnswers DEF Calling
    <3>. QED BY <1>3, <1>4, <3>1, AppendAnswers DEF AllAnswered
  <2>4. InTheBatch(r)'
    BY <1>2, <1>3, <1>6, <2>2, <2>3 DEF InTheBatch
  <2>. QED BY <1>8, <2>4 DEF AnswersFor
<1>. QED BY <1>5, <1>7, <1>8 DEF AnswersFor

(* The next result follows those the batch has. *)
LEMMA ResultAnswers ==
  ASSUME TypeOK, NEW r \in Runs, AnswersFor(r), AppendResult(r)
  PROVE  AnswersFor(r)'
<1>0. results[r] \in Nat
  BY DEF TypeOK
<1>1. PICK x : x = ToolResult(r, turn[r], results[r] + 1)
  OBVIOUS
<1>2. x.role = "toolResult"
  BY <1>1 DEF ToolResult
<1>3. /\ transcript' = Append(transcript, x) /\ turn'[r] = turn[r] /\ batch'[r] = batch[r]
      /\ results'[r] = results[r] + 1 /\ pc'[r] = "toolCheck"
  BY <1>1 DEF AppendResult, Goto, TypeOK
<1>4. PICK k \in DOMAIN transcript :
            /\ k + results[r] = Len(transcript)
            /\ transcript[k].role = "assistant" /\ transcript[k].calls = batch[r]
            /\ transcript[k].run = r /\ transcript[k].turn = turn[r]
            /\ \A j \in 1 .. results[r] : transcript[k + j] = ToolResult(r, turn[r], j)
            /\ \A i \in Calling(transcript, r) \ {k} : Answered(transcript, i)
  BY DEF AppendResult, AnswersFor, InTheBatch
<1>5. k \in DOMAIN transcript' /\ transcript'[k] = transcript[k]
  BY <1>3, AppendAnswers
<1>6. k \in Nat /\ Len(transcript) \in Nat /\ Len(transcript') = Len(transcript) + 1
  BY <1>3, AppendAnswers
<1>7. k + results'[r] = Len(transcript')
  <2>1. results'[r] = results[r] + 1
    BY <1>3
  <2>2. k + (results[r] + 1) = (k + results[r]) + 1
    BY <1>0, <1>6
  <2>3. k + results[r] = Len(transcript)
    BY <1>4
  <2>. QED BY <1>6, <2>1, <2>2, <2>3, Zenon
<1>8. ASSUME NEW j \in 1 .. results'[r] PROVE transcript'[k + j] = ToolResult(r, turn'[r], j)
  <2>1. CASE j = results[r] + 1
    <3>1. k + j = Len(transcript) + 1
      <4>1. k + results[r] = Len(transcript)
        BY <1>4
      <4>2. k + (results[r] + 1) = (k + results[r]) + 1
        BY <1>0, <1>6
      <4>. QED BY <2>1, <4>1, <4>2, Zenon
    <3>. QED BY <1>1, <1>3, <2>1, <3>1, AppendAnswers
  <2>2. CASE j # results[r] + 1
    <3>1. j \in 1 .. results[r] /\ k + j \in DOMAIN transcript
      BY <1>0, <1>3, <1>4, <1>8, <2>2, AppendAnswers
    <3>. QED BY <1>3, <1>4, <3>1, AppendAnswers
  <2>. QED BY <2>1, <2>2
<1>9. ASSUME NEW i \in Calling(transcript', r) \ {k} PROVE Answered(transcript', i)
  <2>1. i \in Calling(transcript, r) /\ i \in DOMAIN transcript
    BY <1>2, <1>3, <1>9, AppendAnswers DEF Calling
  <2>. QED BY <1>3, <1>4, <1>9, <2>1, AppendAnswers
<1>10. InTheBatch(r)'
  <2>1. /\ transcript'[k].role = "assistant" /\ transcript'[k].calls = batch'[r]
        /\ transcript'[k].run = r /\ transcript'[k].turn = turn'[r]
    BY <1>3, <1>4, <1>5
  <2>. QED BY <1>5, <1>7, <1>8, <1>9, <2>1 DEF InTheBatch
<1>. QED BY <1>3, <1>10 DEF AnswersFor

(* Every step of a loop keeps what AnswersFor says of its run. *)
LEMMA LoopAnswersFor ==
  ASSUME TypeOK, InputInv, SingleWriter, NEW r \in Runs, AnswersFor(r), LoopStep(r)
  PROVE  AnswersFor(r)'
<1> USE DEF TypeOK, Goto, LeaveTo, allButPc, stateVars, batchVars
<1>1. CASE Return(r) \/ Fail(r)
  <2>1. pc'[r] \in {"returned", "closing"}
    BY <1>1 DEF Return, Fail
  <2>. QED BY <2>1 DEF AnswersFor
<1>2. CASE EmitStart(r) \/ KeepInbox(r) \/ Announce(r) \/ Request(r) \/ CallProvider(r)
  BY <1>2, SilentAnswers DEF EmitStart, KeepInbox, Announce, Request, CallProvider
<1>3. CASE EmitPrompt(r) \/ Inject(r)
  <2>1. inbox[r] \in Seq(Message) /\ inbox[r] # <<>>
    BY <1>3 DEF EmitPrompt, Inject
  <2>2. 1 \in DOMAIN inbox[r] /\ Head(inbox[r]) = inbox[r][1]
    BY <2>1
  <2>3. Head(inbox[r]).role \in {"user", "queued"}
    BY <2>2 DEF InputInv
  <2>4. /\ transcript' = Append(transcript, Head(inbox[r])) /\ pc'[r] = pc[r]
        /\ pc[r] \in {"prompting", "inject"} /\ cancelled' = cancelled
    BY <1>3 DEF EmitPrompt, Inject
  <2>5. PICK x : x = Head(inbox[r])
    OBVIOUS
  <2>6. AllAnswered(r) => AllAnswered(r)'
    BY <2>3, <2>4, <2>5, AppendIdle
  <2>. QED BY <2>4, <2>6 DEF AnswersFor
<1>4. CASE TurnTop(r) \/ Partial(r) \/ StreamBreaks(r) \/ BatchFails(r) \/ StopAfterTurn(r) \/ Close(r)
  BY <1>4, SilentAnswers DEF TurnTop, Partial, StreamBreaks, BatchFails, StopAfterTurn, Close
<1>5. CASE InitialDrain(r) \/ Redrain(r) \/ TakeFollowUp(r) \/ \E more \in BOOLEAN : Decide(r, more)
  <2>1. \E q \in Boxes : \E l \in {"turnTop", "announce", "followUp", "closing"} : DrainInto(r, q, l)
    BY <1>5 DEF InitialDrain, Redrain, TakeFollowUp, Decide, Boxes
  <2>2. /\ UNCHANGED <<transcript, cancelled>>
        /\ pc'[r] \in {"turnTop", "announce", "followUp", "closing", "failing"}
    BY <2>1 DEF DrainInto
  <2>3. pc[r] \in {"prompting", "redrain", "followUp", "decide"}
    BY <1>5 DEF InitialDrain, Redrain, TakeFollowUp, Decide
  <2>. QED BY <2>2, <2>3, SilentAnswers
<1>6. ASSUME NEW s \in Outcomes, NEW n \in 0 .. MaxCalls, Finish(r, s, n) PROVE AnswersFor(r)'
  BY <1>6, FinishAnswers
<1>7. CASE AppendResult(r)
  BY <1>7, ResultAnswers
<1>8. CASE NextCall(r)
  BY <1>8, SilentAnswers DEF NextCall, BatchOver
<1>9. CASE EndTurn(r)
  BY <1>9, SilentAnswers DEF EndTurn
<1>10. CASE OutsideRun(r)
  <2>1. pc'[r] \in {"failing", "dead"}
    BY <1>10 DEF OutsideRun
  <2>. QED BY <2>1 DEF AnswersFor
<1>. QED BY <1>1, <1>2, <1>3, <1>4, <1>5, <1>6, <1>7, <1>8, <1>9, <1>10 DEF LoopStep

(* An assistant message names the run that wrote it. *)
LEMMA LoopBegun ==
  ASSUME TypeOK, HandInv, InputInv, RunsBegun, NEW r \in Runs, LoopStep(r)
  PROVE  RunsBegun'
<1>1. r <= started /\ started' = started
  <2>1. pc[r] # "idle" /\ started' = started
    BY LoopFrame DEF LoopPcs
  <2>2. started \in Nat /\ r \in Nat
    BY RunsAreNat, BoundsAssumption DEF TypeOK
  <2>. QED BY <2>1, <2>2 DEF HandInv
<1>2. CASE transcript' = transcript
  BY <1>1, <1>2 DEF RunsBegun
<1>3. ASSUME NEW x, transcript' = Append(transcript, x), x.role = "assistant" => x.run = r
      PROVE  RunsBegun'
  BY <1>1, <1>3, AppendAnswers DEF RunsBegun
<1>4. CASE EmitPrompt(r) \/ Inject(r)
  <2>1. inbox[r] \in Seq(Message) /\ inbox[r] # <<>>
    BY <1>4 DEF EmitPrompt, Inject, TypeOK
  <2>2. 1 \in DOMAIN inbox[r] /\ Head(inbox[r]) = inbox[r][1]
    BY <2>1
  <2>3. Head(inbox[r]).role \in {"user", "queued"}
    BY <2>2 DEF InputInv
  <2>4. transcript' = Append(transcript, Head(inbox[r]))
    BY <1>4 DEF EmitPrompt, Inject
  <2>. QED BY <1>3, <2>3, <2>4
<1>5. ASSUME NEW s \in Outcomes, NEW n \in 0 .. MaxCalls, Finish(r, s, n) PROVE RunsBegun'
  <2>1. Assistant(r, turn[r], n, s).run = r
    BY DEF Assistant
  <2>. QED BY <1>3, <1>5, <2>1 DEF Finish
<1>6. CASE Fail(r)
  <2>1. Assistant(r, turn[r], 0, "failed").run = r
    BY DEF Assistant
  <2>. QED BY <1>3, <1>6, <2>1 DEF Fail
<1>7. CASE AppendResult(r)
  <2>1. ToolResult(r, turn[r], results[r] + 1).role = "toolResult"
    BY DEF ToolResult
  <2>. QED BY <1>3, <1>7, <2>1 DEF AppendResult
<1>8. \/ EmitPrompt(r) \/ Inject(r) \/ Fail(r) \/ AppendResult(r)
      \/ \E s \in Outcomes, n \in 0 .. MaxCalls : Finish(r, s, n)
      \/ transcript' = transcript
  BY DEF LoopStep, Return, EmitStart, InitialDrain, TurnTop, KeepInbox, Redrain, Announce, Request,
         CallProvider, Partial, StreamBreaks, NextCall, BatchFails, EndTurn, StopAfterTurn, Decide,
         TakeFollowUp, Close, OutsideRun, DrainInto, allButPc, stateVars
<1>. QED BY <1>2, <1>4, <1>5, <1>6, <1>7, <1>8

LEMMA LoopAnswers ==
  ASSUME TypeOK, HandInv, SingleWriter, AnswersInv, NEW r \in Runs, LoopStep(r)
  PROVE  AnswersInv'
<1>1. InputInv' /\ RunsBegun' /\ AnswersFor(r)'
  BY LoopInput, LoopBegun, LoopAnswersFor DEF AnswersInv
<1>2. ASSUME NEW s \in Runs, s # r, pc[r] \in LoopPcs PROVE AnswersFor(s)'
  <2>1. pc'[s] = pc[s] /\ pc[s] \notin LoopPcs
    BY <1>2, LoopFrame DEF SingleWriter
  <2>. QED BY <2>1 DEF AnswersFor, LoopPcs
<1>3. ASSUME NEW s \in Runs, s # r, pc[r] \notin LoopPcs PROVE AnswersFor(s)'
  <2>1. pc[r] = "ended"
    BY <1>3, LoopFrame
  <2>2. Return(r)
    BY <2>1 DEF LoopStep, EmitStart, EmitPrompt, InitialDrain, TurnTop, KeepInbox, Redrain, Announce,
                Inject, Request, CallProvider, Partial, Finish, StreamBreaks, AppendResult, NextCall,
                BatchFails, EndTurn, StopAfterTurn, Decide, TakeFollowUp, Fail, Close, OutsideRun,
                NextStepEmits
  <2>3. active = r /\ pc'[s] = pc[s]
    BY <1>3, <2>2, LoopFrame DEF Return
  <2>4. pc[s] \notin LoopPcs
    BY <1>3, <2>3 DEF SingleWriter
  <2>. QED BY <2>3, <2>4 DEF AnswersFor, LoopPcs
<1>. QED BY <1>1, <1>2, <1>3 DEF AnswersInv

(* A run that starts has called nothing yet, and a call on the Agent touches no batch. *)
LEMMA CallAnswers ==
  ASSUME TypeOK, HandInv, SingleWriter, AnswersInv, CallStep
  PROVE  AnswersInv'
<1> USE DEF stateVars, lifeVars, loopVars, batchVars
<1>0. InputInv'
  BY CallInput DEF AnswersInv
<1>1. CASE UNCHANGED <<pc, transcript, started, turn, batch, results>> /\ \A r \in Runs : cancelled[r] => cancelled'[r]
  <2>1. RunsBegun'
    BY <1>1 DEF AnswersInv, RunsBegun
  <2>2. ASSUME NEW r \in Runs PROVE AnswersFor(r)'
    <3>1. (AllAnswered(r) => AllAnswered(r)') /\ (InTheBatch(r) => InTheBatch(r)')
      BY <1>1 DEF AllAnswered, InTheBatch, Calling, Answered
    <3>2. AnswersFor(r) /\ pc'[r] = pc[r] /\ (cancelled[r] => cancelled'[r])
      BY <1>1 DEF AnswersInv
    <3>. QED BY <3>1, <3>2 DEF AnswersFor
  <2>. QED BY <1>0, <2>1, <2>2 DEF AnswersInv
<1>2. CASE Reset
  <2>1. RunsBegun'
    BY <1>2 DEF Reset, RunsBegun
  <2>2. ASSUME NEW r \in Runs PROVE AnswersFor(r)'
    <3>1. pc'[r] = pc[r] /\ pc[r] \notin LoopPcs
      BY <1>2, RunsAreNat DEF Reset, IsStreaming, SingleWriter
    <3>. QED BY <3>1 DEF AnswersFor, LoopPcs
  <2>. QED BY <1>0, <2>1, <2>2 DEF AnswersInv
<1>3. ASSUME NEW r \in Runs, NEW prompts, StartRun(r, prompts) PROVE AnswersInv'
  <2>1. /\ r = started + 1 /\ started' = r /\ active = 0 /\ transcript' = transcript
        /\ pc'[r] = "starting" /\ \A s \in Runs : s # r => pc'[s] = pc[s]
    BY <1>3, StartFrame
  <2>2. started \in Nat
    BY BoundsAssumption DEF TypeOK
  <2>3. Calling(transcript, r) = {}
    <3>1. ASSUME NEW i \in Calling(transcript, r) PROVE FALSE
      <4>1. i \in DOMAIN transcript /\ transcript[i].role = "assistant" /\ transcript[i].run = r
        BY <3>1 DEF Calling
      <4>2. r <= started
        BY <4>1 DEF AnswersInv, RunsBegun
      <4>. QED BY <2>1, <2>2, <4>2
    <3>. QED BY <3>1
  <2>4. AnswersFor(r)'
    <3>1. AllAnswered(r)'
      BY <2>1, <2>3 DEF AllAnswered
    <3>. QED BY <2>1, <3>1 DEF AnswersFor
  <2>5. ASSUME NEW s \in Runs, s # r PROVE AnswersFor(s)'
    <3>1. pc'[s] = pc[s] /\ pc[s] \notin LoopPcs
      BY <2>1, <2>5, RunsAreNat DEF SingleWriter
    <3>. QED BY <3>1 DEF AnswersFor, LoopPcs
  <2>6. RunsBegun'
    <3>1. \A i \in DOMAIN transcript : transcript[i].role = "assistant" => transcript[i].run \in Nat
      <4>1. \A x \in Message : x.role = "assistant" => x.run \in Runs
        BY DEF Message
      <4>2. \A i \in DOMAIN transcript : transcript[i] \in Message
        BY ElementOfSeq, LenProperties DEF TypeOK
      <4>. QED BY <4>1, <4>2, RunsAreNat
    <3>2. ASSUME NEW i \in DOMAIN transcript, transcript[i].role = "assistant"
          PROVE  transcript[i].run <= started + 1
      <4>1. transcript[i].run <= started /\ transcript[i].run \in Nat
        BY <3>1, <3>2 DEF AnswersInv, RunsBegun
      <4>. QED BY <2>2, <4>1
    <3>. QED BY <2>1, <3>2 DEF RunsBegun
  <2>. QED BY <1>0, <2>4, <2>5, <2>6 DEF AnswersInv
<1>4. CASE Abort
  <2>1. UNCHANGED <<pc, transcript, started, turn, batch, results>>
    BY <1>4 DEF Abort
  <2>2. \A r \in Runs : cancelled[r] => cancelled'[r]
    BY <1>4 DEF Abort, TypeOK
  <2>. QED BY <1>1, <2>1, <2>2
<1>5. \/ UNCHANGED <<pc, transcript, started, turn, batch, results, cancelled>>
      \/ Abort \/ Reset
      \/ \E r \in Runs : PromptCall(r) \/ ContinueCall(r)
  BY DEF CallStep, Push, ClearQueue, SetMode, ContinueRefused, CancelCaller
<1>. QED BY <1>1, <1>2, <1>3, <1>4, <1>5 DEF PromptCall, ContinueCall

(* Where no caller is cancelled, a run never asks the model while a call of one of its turns is
   without its result, or with anything between a call and its results: neither a failed hook
   nor an abort, which may cut a batch short, lets such a transcript through to a request. *)
THEOREM AnsweredBeforeAsking ==
  ASSUME ~ CallerMayCancel
  PROVE  Spec => []NoUnresolvedAtRequest
<1>1. Init => HandInv /\ OnceInv
  BY InitOnce
<1>2. Init => AnswersInv
  BY DEF Init, AnswersInv, InputInv, RunsBegun, AnswersFor
<1>3. TypeOK /\ HandInv /\ OnceInv /\ [Next]_vars => (HandInv /\ OnceInv)'
  BY NextOnce
<1>4. ASSUME TypeOK, HandInv, SingleWriter, AnswersInv, [Next]_vars PROVE AnswersInv'
  <2>1. CASE UNCHANGED vars
    BY <1>4, <2>1 DEF AnswersInv, InputInv, RunsBegun, AnswersFor, AllAnswered, InTheBatch, Calling,
                      Answered, vars, stateVars, lifeVars, loopVars, batchVars
  <2>. QED BY <1>4, <2>1, CallAnswers, LoopAnswers DEF Next
<1>5. AnswersInv => NoUnresolvedAtRequest
  BY DEF AnswersInv, AnswersFor, AllAnswered, NoUnresolvedAtRequest
<1>6. Spec => []SingleWriter
  BY OneWriter, PTL
<1>. QED BY <1>1, <1>2, <1>3, <1>4, <1>5, <1>6, TypeCorrect, PTL DEF Spec

-----------------------------------------------------------------------------
(* The transcript against the messages that a run reported.  Those the transcript does not have
   yet: prompts still to be announced, the partial message. *)
Ahead(r) ==
    IF pc[r] \in {"starting", "prompting"} THEN Len(inbox[r]) ELSE IF pc[r] = "partial" THEN 1 ELSE 0

(* The others follow, one by one, what the transcript held when the run started. *)
SeenFor(r) ==
    \E l \in Nat :
        /\ base[r] + l = Len(transcript)
        /\ Len(news[r]) = l + Ahead(r)
        /\ \A k \in 1 .. l : transcript[base[r] + k] = news[r][k]
        /\ pc[r] \in {"starting", "prompting"} =>
               \A k \in 1 .. Len(inbox[r]) : inbox[r][k] = news[r][l + k]
Reporting == LoopPcs \ {"failing", "closing"}
SeenInv == Undisturbed => \A r \in Runs : pc[r] \in Reporting => SeenFor(r)

(* In an undisturbed state only the active run is under way. *)
LEMMA OnlyOne ==
  ASSUME Undisturbed, NEW r \in Runs, pc[r] \in LoopPcs
  PROVE  active = r
  BY DEF Undisturbed, Abandoned, LoopPcs

LEMMA CountOn ==
  /\ \A a, b \in Nat : a + (b + 1) = (a + b) + 1 /\ a + 1 \in Nat
  /\ \A a \in Nat : a # 0 => \E n \in Nat : n + 1 = a
<1>1. ASSUME NEW a \in Nat, a # 0 PROVE \E n \in Nat : n + 1 = a
  <2>1. a - 1 \in Nat /\ (a - 1) + 1 = a
    BY <1>1
  <2>. QED BY <2>1
<1>. QED BY <1>1

LEMMA SeenSilent ==
  ASSUME TypeOK, NEW r \in Runs, SeenFor(r), Ahead(r) = 0, transcript' = transcript,
         news'[r] = news[r], base'[r] = base[r], pc'[r] \notin {"starting", "prompting", "partial"}
  PROVE  SeenFor(r)'
<1>1. PICK l \in Nat :
        /\ base[r] + l = Len(transcript)
        /\ Len(news[r]) = l + Ahead(r)
        /\ \A k \in 1 .. l : transcript[base[r] + k] = news[r][k]
  BY DEF SeenFor
<1>2. Ahead(r)' = 0
  BY DEF Ahead
<1>. QED BY <1>1, <1>2 DEF SeenFor

(* A message that the loop reports and the Agent stores. *)
LEMMA SeenBoth ==
  ASSUME TypeOK, NEW r \in Runs, SeenFor(r), Ahead(r) = 0, NEW x, NEW ns \in Seq(Message),
         transcript' = Append(transcript, x), news'[r] = Append(ns, x), base'[r] = base[r],
         Len(ns) = Len(news[r]), \A k \in 1 .. Len(ns) : ns[k] = news[r][k],
         pc'[r] \notin {"starting", "prompting", "partial"}
  PROVE  SeenFor(r)'
<1>1. PICK l \in Nat :
        /\ base[r] + l = Len(transcript)
        /\ Len(news[r]) = l + Ahead(r)
        /\ \A k \in 1 .. l : transcript[base[r] + k] = news[r][k]
  BY DEF SeenFor
<1>2. Ahead(r)' = 0
  BY DEF Ahead
<1>3. base[r] \in Nat /\ Len(transcript) \in Nat /\ Len(ns) = l
  BY <1>1, LenProperties DEF TypeOK
<1>4. /\ Len(transcript') = Len(transcript) + 1 /\ transcript'[Len(transcript) + 1] = x
      /\ \A k \in 1 .. Len(transcript) : transcript'[k] = transcript[k]
  BY AppendAnswers
<1>5. /\ Len(Append(ns, x)) = Len(ns) + 1 /\ Append(ns, x)[Len(ns) + 1] = x
      /\ \A k \in 1 .. Len(ns) : Append(ns, x)[k] = ns[k]
  OBVIOUS
<1>6. /\ Len(news'[r]) = l + 1 /\ news'[r][l + 1] = x
      /\ \A k \in 1 .. l : news'[r][k] = news[r][k]
  BY <1>3, <1>5
<1>7. ASSUME NEW k \in 1 .. l + 1 PROVE transcript'[base[r] + k] = news'[r][k]
  <2>1. CASE k = l + 1
    <3>1. base[r] + k = Len(transcript) + 1
      <4>1. base[r] + (l + 1) = (base[r] + l) + 1
        BY <1>3, CountOn
      <4>. QED BY <1>1, <2>1, <4>1, Zenon
    <3>. QED BY <1>4, <1>6, <2>1, <3>1
  <2>2. CASE k # l + 1
    <3>1. k \in 1 .. l /\ base[r] + k \in 1 .. Len(transcript)
      BY <1>1, <1>3, <1>7, <2>2
    <3>. QED BY <1>1, <1>4, <1>6, <3>1
  <2>. QED BY <2>1, <2>2
<1>8. base'[r] + (l + 1) = Len(transcript')
  <2>1. base[r] + (l + 1) = (base[r] + l) + 1
    BY <1>3, CountOn
  <2>. QED BY <1>1, <1>4, <2>1, Zenon
<1>9. Len(news'[r]) = (l + 1) + Ahead(r)'
  BY <1>2, <1>6
<1>10. PICK p \in Nat : p = l + 1
  OBVIOUS
<1>11. /\ base'[r] + p = Len(transcript') /\ Len(news'[r]) = p + Ahead(r)'
       /\ \A k \in 1 .. p : transcript'[base'[r] + k] = news'[r][k]
  BY <1>7, <1>8, <1>9, <1>10
<1>. QED BY <1>11 DEF SeenFor

(* The first prompt that is still to be announced. *)
LEMMA SeenPrompt ==
  ASSUME TypeOK, NEW r \in Runs, SeenFor(r), EmitPrompt(r)
  PROVE  SeenFor(r)'
<1>0. /\ inbox[r] \in Seq(Message) /\ inbox[r] # <<>> /\ pc[r] = "prompting"
      /\ transcript' = Append(transcript, Head(inbox[r])) /\ inbox'[r] = Tail(inbox[r])
      /\ UNCHANGED <<pc, news, base>>
  BY DEF EmitPrompt, TypeOK
<1>1. PICK l \in Nat :
        /\ base[r] + l = Len(transcript)
        /\ Len(news[r]) = l + Ahead(r)
        /\ \A k \in 1 .. l : transcript[base[r] + k] = news[r][k]
        /\ \A k \in 1 .. Len(inbox[r]) : inbox[r][k] = news[r][l + k]
  BY <1>0 DEF SeenFor
<1>2. PICK n \in Nat : n + 1 = Len(inbox[r])
  <2>1. Len(inbox[r]) \in Nat /\ Len(inbox[r]) # 0
    BY <1>0
  <2>. QED BY <2>1, CountOn
<1>3. /\ Len(Tail(inbox[r])) = n /\ \A k \in 1 .. n : Tail(inbox[r])[k] = inbox[r][k + 1]
      /\ Head(inbox[r]) = inbox[r][1]
  BY <1>0, <1>2, HeadTailProperties
<1>4. Ahead(r) = n + 1 /\ Ahead(r)' = n
  BY <1>0, <1>2, <1>3 DEF Ahead
<1>5. base[r] \in Nat /\ Len(transcript) \in Nat
  BY LenProperties DEF TypeOK
<1>6. /\ Len(transcript') = Len(transcript) + 1 /\ transcript'[Len(transcript) + 1] = inbox[r][1]
      /\ \A k \in 1 .. Len(transcript) : transcript'[k] = transcript[k]
  <2>1. PICK x : x = Head(inbox[r])
    OBVIOUS
  <2>. QED BY <1>0, <1>3, <2>1, AppendAnswers
<1>7. ASSUME NEW k \in 1 .. l + 1 PROVE transcript'[base[r] + k] = news'[r][k]
  <2>1. CASE k = l + 1
    <3>1. base[r] + k = Len(transcript) + 1
      <4>1. base[r] + (l + 1) = (base[r] + l) + 1
        BY <1>5, CountOn
      <4>. QED BY <1>1, <2>1, <4>1, Zenon
    <3>2. inbox[r][1] = news[r][l + 1]
      BY <1>1, <1>2
    <3>. QED BY <1>0, <1>6, <2>1, <3>1, <3>2
  <2>2. CASE k # l + 1
    <3>1. k \in 1 .. l /\ base[r] + k \in 1 .. Len(transcript)
      BY <1>1, <1>5, <1>7, <2>2
    <3>. QED BY <1>0, <1>1, <1>6, <3>1
  <2>. QED BY <2>1, <2>2
<1>8. ASSUME NEW k \in 1 .. n PROVE inbox'[r][k] = news'[r][(l + 1) + k]
  <2>1. k + 1 \in 1 .. Len(inbox[r]) /\ l + (k + 1) = (l + 1) + k
    BY <1>2, <1>8
  <2>2. inbox[r][k + 1] = news[r][l + (k + 1)]
    BY <1>1, <2>1
  <2>. QED BY <1>0, <1>3, <2>1, <2>2
<1>9. base'[r] + (l + 1) = Len(transcript')
  <2>1. base[r] + (l + 1) = (base[r] + l) + 1
    BY <1>5, CountOn
  <2>2. base' = base
    BY <1>0
  <2>. QED BY <1>1, <1>6, <2>1, <2>2, Zenon
<1>10. Len(news'[r]) = (l + 1) + Ahead(r)'
  <2>1. Len(news[r]) = l + (n + 1) /\ l + (n + 1) = (l + 1) + n
    BY <1>1, <1>4
  <2>. QED BY <1>0, <1>4, <2>1
<1>11. Len(inbox'[r]) = n
  BY <1>0, <1>3
<1>12. PICK p \in Nat : p = l + 1
  OBVIOUS
<1>13. /\ base'[r] + p = Len(transcript') /\ Len(news'[r]) = p + Ahead(r)'
       /\ \A k \in 1 .. p : transcript'[base'[r] + k] = news'[r][k]
  BY <1>0, <1>7, <1>9, <1>10, <1>12
<1>14. \A k \in 1 .. Len(inbox'[r]) : inbox'[r][k] = news'[r][p + k]
  BY <1>8, <1>11, <1>12
<1>. QED BY <1>13, <1>14 DEF SeenFor

(* The partial message is reported before the transcript gets the final one. *)
LEMMA SeenPartial ==
  ASSUME TypeOK, NEW r \in Runs, SeenFor(r), Partial(r)
  PROVE  SeenFor(r)'
<1>1. PICK l \in Nat :
        /\ base[r] + l = Len(transcript)
        /\ Len(news[r]) = l + Ahead(r)
        /\ \A k \in 1 .. l : transcript[base[r] + k] = news[r][k]
  BY DEF SeenFor
<1>2. Ahead(r) = 0 /\ Ahead(r)' = 1 /\ pc'[r] = "partial"
  BY DEF Ahead, Partial, Goto, TypeOK
<1>3. PICK x : x = Assistant(r, turn[r], 0, "pending")
  OBVIOUS
<1>4. news'[r] = Append(news[r], x) /\ UNCHANGED <<base, transcript>> /\ news[r] \in Seq(Message)
  BY <1>3 DEF Partial, TypeOK
<1>5. Len(news[r]) = l
  BY <1>1, <1>2
<1>6. Len(news'[r]) = l + 1 /\ \A k \in 1 .. l : news'[r][k] = news[r][k]
  BY <1>4, <1>5
<1>7. /\ base'[r] + l = Len(transcript') /\ Len(news'[r]) = l + Ahead(r)'
      /\ \A k \in 1 .. l : transcript'[base'[r] + k] = news'[r][k]
  BY <1>1, <1>2, <1>4, <1>6
<1>. QED BY <1>2, <1>7 DEF SeenFor

(* The final message replaces it. *)
LEMMA SeenFinish ==
  ASSUME TypeOK, NEW r \in Runs, SeenFor(r), NEW s \in Outcomes, NEW n \in 0 .. MaxCalls,
         Finish(r, s, n)
  PROVE  SeenFor(r)'
<1>1. PICK x : x = Assistant(r, turn[r], n, s)
  OBVIOUS
<1>2. /\ transcript' = Append(transcript, x) /\ news'[r] = Append(WithoutPartial(r), x)
      /\ base'[r] = base[r] /\ pc'[r] \in {"closing", "tools", "turnEnd"}
  BY <1>1 DEF Finish, Goto, TypeOK
<1>3. news[r] \in Seq(Message) /\ Len(news[r]) \in Nat
  BY LenProperties DEF TypeOK
<1>4. CASE pc[r] = "streaming"
  BY <1>2, <1>3, <1>4, SeenBoth DEF WithoutPartial, Ahead
<1>5. CASE pc[r] = "partial"
  <2>1. PICK l \in Nat :
          /\ base[r] + l = Len(transcript)
          /\ Len(news[r]) = l + 1
          /\ \A k \in 1 .. l : transcript[base[r] + k] = news[r][k]
    BY <1>5 DEF SeenFor, Ahead
  <2>2. PICK ns : ns = SubSeq(news[r], 1, l)
    OBVIOUS
  <2>3. \A k \in 1 .. l : news[r][k] \in Message
    BY <1>3, <2>1, ElementOfSeq
  <2>4. ns \in Seq(Message) /\ Len(ns) = l /\ \A k \in 1 .. l : ns[k] = news[r][k]
    BY <2>2, <2>3, SubSeqProperties
  <2>5. WithoutPartial(r) = ns
    <3>1. Len(news[r]) - 1 = l
      BY <2>1
    <3>. QED BY <1>5, <2>2, <3>1 DEF WithoutPartial, Front
  <2>6. /\ Len(transcript) \in Nat /\ base[r] \in Nat
        /\ Len(transcript') = Len(transcript) + 1 /\ transcript'[Len(transcript) + 1] = x
        /\ \A k \in 1 .. Len(transcript) : transcript'[k] = transcript[k]
    BY <1>2, AppendAnswers DEF TypeOK
  <2>7. /\ Len(Append(ns, x)) = l + 1 /\ Append(ns, x)[l + 1] = x
        /\ \A k \in 1 .. l : Append(ns, x)[k] = ns[k]
    BY <2>4
  <2>8. /\ Len(news'[r]) = l + 1 /\ news'[r][l + 1] = x
        /\ \A k \in 1 .. l : news'[r][k] = news[r][k]
    BY <1>2, <2>4, <2>5, <2>7
  <2>9. ASSUME NEW k \in 1 .. l + 1 PROVE transcript'[base[r] + k] = news'[r][k]
    <3>1. CASE k = l + 1
      <4>1. base[r] + k = Len(transcript) + 1
        <5>1. base[r] + (l + 1) = (base[r] + l) + 1
          BY <2>6, CountOn
        <5>. QED BY <2>1, <3>1, <5>1, Zenon
      <4>. QED BY <2>6, <2>8, <3>1, <4>1
    <3>2. CASE k # l + 1
      <4>1. k \in 1 .. l /\ base[r] + k \in 1 .. Len(transcript)
        BY <2>1, <2>6, <2>9, <3>2
      <4>. QED BY <2>1, <2>6, <2>8, <4>1
    <3>. QED BY <3>1, <3>2
  <2>10. base'[r] + (l + 1) = Len(transcript')
    <3>1. base[r] + (l + 1) = (base[r] + l) + 1
      BY <2>6, CountOn
    <3>. QED BY <1>2, <2>1, <2>6, <3>1, Zenon
  <2>11. Ahead(r)' = 0
    BY <1>2 DEF Ahead
  <2>12. PICK p \in Nat : p = l + 1
    OBVIOUS
  <2>13. /\ base'[r] + p = Len(transcript') /\ Len(news'[r]) = p + Ahead(r)'
         /\ \A k \in 1 .. p : transcript'[base'[r] + k] = news'[r][k]
    <3>1. base'[r] + p = Len(transcript')
      BY <2>10, <2>12
    <3>2. Len(news'[r]) = p + Ahead(r)'
      BY <2>8, <2>11, <2>12
    <3>3. \A k \in 1 .. p : transcript'[base'[r] + k] = news'[r][k]
      BY <1>2, <2>9, <2>12
    <3>. QED BY <3>1, <3>2, <3>3
  <2>. QED BY <1>2, <2>13 DEF SeenFor
<1>. QED BY <1>4, <1>5 DEF Finish

(* Every step of a loop keeps the two in agreement. *)
LEMMA LoopSeen ==
  ASSUME TypeOK, Undisturbed, NEW r \in Runs, pc[r] \in Reporting => SeenFor(r), LoopStep(r),
         pc'[r] \in Reporting
  PROVE  SeenFor(r)'
<1> USE DEF TypeOK, Goto, LeaveTo, allButPc, stateVars, Reporting, LoopPcs
<1>1. CASE Return(r) \/ StreamBreaks(r) \/ BatchFails(r) \/ StopAfterTurn(r) \/ Fail(r) \/ Close(r)
  BY <1>1 DEF Return, StreamBreaks, BatchFails, StopAfterTurn, Fail, Close
<1>2. CASE EmitStart(r)
  <2>1. /\ pc[r] = "starting" /\ pc'[r] = "prompting" /\ UNCHANGED <<transcript, news, base, inbox>>
    BY <1>2 DEF EmitStart
  <2>2. PICK l \in Nat :
          /\ base[r] + l = Len(transcript)
          /\ Len(news[r]) = l + Ahead(r)
          /\ \A k \in 1 .. l : transcript[base[r] + k] = news[r][k]
          /\ \A k \in 1 .. Len(inbox[r]) : inbox[r][k] = news[r][l + k]
    BY <2>1 DEF SeenFor
  <2>3. Ahead(r)' = Ahead(r)
    BY <2>1 DEF Ahead
  <2>. QED BY <2>1, <2>2, <2>3 DEF SeenFor
<1>3. CASE EmitPrompt(r)
  <2>1. pc[r] = "prompting"
    BY <1>3 DEF EmitPrompt
  <2>. QED BY <1>3, <2>1, SeenPrompt
<1>4. CASE KeepInbox(r) \/ Announce(r) \/ Request(r) \/ CallProvider(r) \/ TurnTop(r) \/ EndTurn(r) \/ NextCall(r)
  <2>1. /\ pc[r] \in {"redrain", "announce", "inject", "requesting", "turnTop", "turnEnd", "toolCheck"}
        /\ pc'[r] \notin {"starting", "prompting", "partial"} /\ UNCHANGED <<transcript, news, base>>
    BY <1>4 DEF KeepInbox, Announce, Request, CallProvider, TurnTop, EndTurn, NextCall
  <2>. QED BY <2>1, SeenSilent DEF Ahead
<1>5. CASE InitialDrain(r) \/ Redrain(r) \/ TakeFollowUp(r) \/ \E more \in BOOLEAN : Decide(r, more)
  <2>1. \E q \in Boxes : \E l \in {"turnTop", "announce", "followUp", "closing"} : DrainInto(r, q, l)
    BY <1>5 DEF InitialDrain, Redrain, TakeFollowUp, Decide, Boxes
  <2>2. /\ UNCHANGED <<transcript, news, base>>
        /\ pc'[r] \in {"turnTop", "announce", "followUp", "closing", "failing"}
    BY <2>1 DEF DrainInto
  <2>3. \/ pc[r] = "prompting" /\ inbox[r] = <<>>
        \/ pc[r] \in {"redrain", "followUp", "decide"}
    BY <1>5 DEF InitialDrain, Redrain, TakeFollowUp, Decide
  <2>4. Ahead(r) = 0
    BY <2>3 DEF Ahead
  <2>. QED BY <2>2, <2>3, <2>4, SeenSilent
<1>6. CASE Inject(r)
  <2>1. PICK x : x = Head(inbox[r])
    OBVIOUS
  <2>2. /\ pc[r] = "inject" /\ pc'[r] = "inject" /\ base'[r] = base[r]
        /\ transcript' = Append(transcript, x) /\ news'[r] = Append(news[r], x)
    BY <1>6, <2>1 DEF Inject
  <2>. QED BY <2>2, SeenBoth DEF Ahead
<1>7. CASE AppendResult(r)
  <2>1. PICK x : x = ToolResult(r, turn[r], results[r] + 1)
    OBVIOUS
  <2>2. /\ pc[r] = "tools" /\ pc'[r] = "toolCheck" /\ base'[r] = base[r]
        /\ transcript' = Append(transcript, x) /\ news'[r] = Append(news[r], x)
    BY <1>7, <2>1 DEF AppendResult
  <2>. QED BY <2>2, SeenBoth DEF Ahead
<1>8. CASE Partial(r)
  <2>1. pc[r] = "streaming"
    BY <1>8 DEF Partial
  <2>. QED BY <1>8, <2>1, SeenPartial
<1>9. ASSUME NEW s \in Outcomes, NEW n \in 0 .. MaxCalls, Finish(r, s, n) PROVE SeenFor(r)'
  <2>1. pc[r] \in {"streaming", "partial"}
    BY <1>9 DEF Finish
  <2>. QED BY <1>9, <2>1, SeenFinish
<1>10. CASE OutsideRun(r)
  BY <1>10 DEF OutsideRun
<1>. QED BY <1>1, <1>2, <1>3, <1>4, <1>5, <1>6, <1>7, <1>8, <1>9, <1>10 DEF LoopStep

LEMMA SeenStart ==
  ASSUME TypeOK, HandInv, NEW r \in Runs, NEW prompts \in Seq(Message), StartRun(r, prompts)
  PROVE  SeenFor(r)'
<1>1. /\ pc'[r] = "starting" /\ inbox'[r] = prompts /\ news'[r] = prompts
      /\ base'[r] = Len(transcript) /\ transcript' = transcript
  BY StartFrame
<1>2. Len(transcript) \in Nat /\ Len(prompts) \in Nat
  BY LenProperties DEF TypeOK
<1>3. Ahead(r)' = Len(prompts)
  BY <1>1 DEF Ahead
<1>4. /\ base'[r] + 0 = Len(transcript') /\ Len(news'[r]) = 0 + Ahead(r)'
      /\ \A k \in 1 .. Len(inbox'[r]) : inbox'[r][k] = news'[r][0 + k]
  <2>1. Len(news'[r]) = 0 + Ahead(r)'
    BY <1>1, <1>2, <1>3
  <2>2. base'[r] + 0 = Len(transcript')
    BY <1>1, <1>2
  <2>3. \A k \in 1 .. Len(prompts) : 0 + k = k
    BY <1>2
  <2>. QED BY <1>1, <2>1, <2>2, <2>3
<1>. QED BY <1>4 DEF SeenFor

LEMMA NextSeen ==
  ASSUME TypeOK, HandInv, SeenInv, [Next]_vars
  PROVE  SeenInv'
<1> SUFFICES ASSUME Undisturbed', NEW r \in Runs, pc'[r] \in Reporting PROVE SeenFor(r)'
  BY DEF SeenInv
<1>0. Undisturbed /\ active' = r /\ (pc[r] \in Reporting => SeenFor(r))
  BY AbandonedStays DEF SeenInv, Undisturbed, Abandoned, Reporting, LoopPcs
<1>1. CASE UNCHANGED <<transcript, news, base, pc, inbox>>
  BY <1>0, <1>1 DEF SeenFor, Ahead
<1>2. ASSUME NEW s \in Runs, NEW prompts \in Seq(Message), StartRun(s, prompts) PROVE SeenFor(r)'
  <2>1. s = r
    BY <1>0, <1>2 DEF StartRun
  <2>. QED BY <1>2, <2>1, SeenStart
<1>3. CASE CallStep
  <2>1. ASSUME NEW s \in Runs, PromptCall(s) PROVE SeenFor(r)'
    <3>1. <<Prompt(s)>> \in Seq(Message)
      BY MessageTypes
    <3>. QED BY <1>2, <2>1, <3>1 DEF PromptCall
  <2>2. ASSUME NEW s \in Runs, ContinueCall(s) PROVE SeenFor(r)'
    <3>1. AsMessages(Drained(ContinueBox)) \in Seq(Message) /\ <<>> \in Seq(Message)
      BY DrainTypes DEF ContinueBox, Boxes
    <3>. QED BY <1>2, <2>2, <3>1 DEF ContinueCall
  <2>3. CASE Reset
    <3>1. active = 0 /\ pc' = pc
      BY <2>3 DEF Reset, IsStreaming, loopVars
    <3>2. pc[r] \in LoopPcs
      BY <3>1 DEF Reporting
    <3>. QED BY <1>0, <3>1, <3>2, OnlyOne, RunsAreNat
  <2>4. \/ UNCHANGED <<transcript, news, base, pc, inbox>>
        \/ Reset \/ \E s \in Runs : PromptCall(s) \/ ContinueCall(s)
    BY <1>3 DEF CallStep, Push, ClearQueue, SetMode, Abort, ContinueRefused, CancelCaller,
                stateVars, lifeVars, loopVars
  <2>. QED BY <1>1, <2>1, <2>2, <2>3, <2>4
<1>4. ASSUME NEW s \in Runs, LoopStep(s) PROVE SeenFor(r)'
  <2>1. CASE s = r
    BY <1>0, <1>4, <2>1, LoopSeen
  <2>2. CASE s # r
    <3>1. pc'[r] = pc[r] /\ pc[r] \in LoopPcs
      BY <1>4, <2>2, LoopFrame DEF Reporting
    <3>2. active = r
      BY <1>0, <3>1, OnlyOne
    <3>3. pc[s] \notin {"idle", "returned"}
      BY <1>4, LoopFrame DEF LoopPcs
    <3>. QED BY <1>0, <2>2, <3>2, <3>3 DEF Undisturbed, Abandoned
  <2>. QED BY <2>1, <2>2
<1>5. CASE UNCHANGED vars
  BY <1>1, <1>5 DEF vars, stateVars, loopVars
<1>. QED BY <1>3, <1>4, <1>5 DEF Next

LEMMA SeenIsAsked == ASSUME TypeOK, SeenInv PROVE RequestSeesTranscript
<1> SUFFICES ASSUME Undisturbed, NEW r \in Runs, pc[r] = "requesting"
             PROVE  /\ Len(transcript) = base[r] + Len(news[r])
                    /\ SubSeq(transcript, base[r] + 1, Len(transcript)) = news[r]
  BY DEF RequestSeesTranscript
<1>1. PICK l \in Nat :
        /\ base[r] + l = Len(transcript)
        /\ Len(news[r]) = l
        /\ \A k \in 1 .. l : transcript[base[r] + k] = news[r][k]
  BY DEF SeenInv, SeenFor, Ahead, Reporting, LoopPcs
<1>2. PICK b \in Nat : b = base[r]
  BY DEF TypeOK
<1>3. news[r] \in Seq(Message) /\ \A i \in 1 .. Len(transcript) : transcript[i] \in Message
  BY LenProperties, ElementOfSeq DEF TypeOK
<1>4. PICK n \in Nat : n = Len(transcript)
  BY LenProperties DEF TypeOK
<1>5. PICK s : s = SubSeq(transcript, b + 1, n)
  OBVIOUS
<1>6. /\ s \in Seq(Message) /\ Len(s) = (IF b + 1 <= n THEN n - (b + 1) + 1 ELSE 0)
      /\ \A i \in 1 .. n - (b + 1) + 1 : s[i] = transcript[(b + 1) + i - 1]
  <2>1. \A i \in b + 1 .. n : transcript[i] \in Message
    BY <1>3, <1>4
  <2>. QED BY <1>5, <2>1, SubSeqProperties
<1>7. b + l = n
  BY <1>1, <1>2, <1>4
<1>8. n - (b + 1) + 1 = l /\ \A i \in 1 .. l : (b + 1) + i - 1 = b + i
  BY <1>7
<1>9. Len(s) = l
  BY <1>6, <1>7, <1>8
<1>10. \A i \in 1 .. l : s[i] = news[r][i]
  BY <1>1, <1>2, <1>6, <1>8
<1>11. s = news[r]
  BY <1>1, <1>3, <1>6, <1>9, <1>10, SeqEqual
<1>. QED BY <1>1, <1>2, <1>4, <1>5, <1>11

(* Whatever is steered, cleared, aborted or fails: as long as no caller abandons a run, the
   model is asked with the history the run started from and exactly the messages the run
   reported, in order.  The Agent's transcript and the loop's own context agree. *)
THEOREM ModelSeesTranscript == Spec => []RequestSeesTranscript
<1>1. Init => HandInv /\ OnceInv /\ SeenInv
  <2>1. Init => SeenInv
    BY DEF Init, SeenInv, Reporting, LoopPcs
  <2>. QED BY <2>1, InitOnce
<1>2. TypeOK /\ HandInv /\ OnceInv /\ [Next]_vars => (HandInv /\ OnceInv)'
  BY NextOnce
<1>3. TypeOK /\ HandInv /\ SeenInv /\ [Next]_vars => SeenInv'
  BY NextSeen
<1>4. TypeOK /\ SeenInv => RequestSeesTranscript
  BY SeenIsAsked
<1>. QED BY <1>1, <1>2, <1>3, <1>4, TypeCorrect, PTL DEF Spec

-----------------------------------------------------------------------------
(* The queued messages of a sequence of messages. *)

LEMMA ByInduction ==
  ASSUME NEW S \in SUBSET Nat, 0 \in S, \A n \in Nat : n \in S => n + 1 \in S
  PROVE  \A n \in Nat : n \in S
<1> DEFINE R == OpToRel(<, Nat)
           T == Nat \ S
<1>1. IsWellFoundedOn(R, Nat)
  BY NatLessThanWellFounded
<1>2. SUFFICES ASSUME T # {} PROVE FALSE
  OBVIOUS
<1> HIDE DEF R
<1>3. PICK n \in T : \A m \in T : ~ (<<m, n>> \in R)
  BY <1>1, <1>2, WFMin
<1>4. n # 0 /\ n \in Nat
  BY <1>3
<1>5. n - 1 \in Nat /\ n - 1 < n /\ (n - 1) + 1 = n
  BY <1>4
<1>6. <<n - 1, n>> \in R
  BY <1>4, <1>5 DEF R, OpToRel
<1>7. n - 1 \notin T
  BY <1>3, <1>6
<1>. QED BY <1>3, <1>5, <1>7

(* How QueuedIn is computed. *)
Filters(s, n, g) ==
    g = [i \in 0 .. n |->
            IF i = 0 THEN <<>>
            ELSE IF s[i].role = "queued" THEN Append(g[i - 1], s[i].msg) ELSE g[i - 1]]

(* One step of the computation. *)
LEMMA FilterStep ==
  ASSUME NEW s, NEW n \in Nat, NEW g, Filters(s, n, g)
  PROVE  /\ g[0] = <<>>
         /\ \A i \in 1 .. n : g[i] = IF s[i].role = "queued" THEN Append(g[i - 1], s[i].msg) ELSE g[i - 1]
<1> DEFINE E(i) == IF i = 0 THEN <<>>
                   ELSE IF s[i].role = "queued" THEN Append(g[i - 1], s[i].msg) ELSE g[i - 1]
           f == [i \in 0 .. n |-> E(i)]
<1>1. g = f
  BY DEF Filters
<1> HIDE DEF E
<1>2. \A i \in 0 .. n : f[i] = E(i)
  OBVIOUS
<1> HIDE DEF f
<1>3. \A i \in 0 .. n : g[i] = E(i)
  BY <1>1, <1>2
<1>4. 0 \in 0 .. n /\ \A i \in 1 .. n : i \in 0 .. n /\ i # 0
  OBVIOUS
<1>. QED BY <1>3, <1>4 DEF E

LEMMA FilterExists ==
  ASSUME NEW s, NEW n \in Nat
  PROVE  \E g : Filters(s, n, g)
<1> DEFINE S == {k \in Nat : \E g : Filters(s, k, g)}
<1>1. 0 \in S
  <2>. DEFINE g == [i \in 0 .. 0 |-> <<>>]
  <2>1. Filters(s, 0, g)
    BY DEF Filters
  <2>. QED BY <2>1
<1>2. ASSUME NEW k \in Nat, k \in S PROVE k + 1 \in S
  <2>1. PICK g : Filters(s, k, g)
    BY <1>2
  <2>. DEFINE Next1(f, i) == IF s[i].role = "queued" THEN Append(f[i - 1], s[i].msg) ELSE f[i - 1]
              h == [i \in 0 .. k + 1 |-> IF i = k + 1 THEN Next1(g, i) ELSE g[i]]
  <2>2. /\ g[0] = <<>> /\ \A i \in 1 .. k : g[i] = Next1(g, i)
    BY <2>1, FilterStep
  <2>3. \A i \in 0 .. k + 1 : i # 0 => i - 1 \in 0 .. k /\ h[i - 1] = g[i - 1]
    OBVIOUS
  <2>4. \A i \in 0 .. k + 1 : h[i] = IF i = 0 THEN <<>> ELSE Next1(h, i)
    <3>1. TAKE i \in 0 .. k + 1
    <3>2. CASE i = k + 1
      BY <2>3, <3>2
    <3>3. CASE i = 0
      BY <2>2, <3>3
    <3>4. CASE i \in 1 .. k
      <4>1. h[i] = g[i] /\ h[i - 1] = g[i - 1]
        BY <2>3, <3>4
      <4>2. g[i] = Next1(g, i)
        BY <2>2, <3>4
      <4>. QED BY <3>4, <4>1, <4>2
    <3>. QED BY <3>2, <3>3, <3>4
  <2>5. h = [i \in 0 .. k + 1 |-> IF i = 0 THEN <<>> ELSE Next1(h, i)]
    <3>. HIDE DEF Next1
    <3>. DEFINE f == [i \in 0 .. k + 1 |-> IF i = 0 THEN <<>> ELSE Next1(h, i)]
    <3>1. DOMAIN h = 0 .. k + 1 /\ DOMAIN f = 0 .. k + 1
      OBVIOUS
    <3>2. \A i \in 0 .. k + 1 : f[i] = h[i]
      BY <2>4
    <3>3. h = [i \in 0 .. k + 1 |-> h[i]] /\ f = [i \in 0 .. k + 1 |-> f[i]]
      OBVIOUS
    <3>. HIDE DEF h, f
    <3>4. h = f
      BY <3>2, <3>3
    <3>. QED BY <3>4 DEF f
  <2>6. Filters(s, k + 1, h)
    BY <2>5 DEF Filters
  <2>7. k + 1 \in Nat
    OBVIOUS
  <2>. HIDE DEF h
  <2>. QED BY <2>6, <2>7
<1>3. S \in SUBSET Nat
  OBVIOUS
<1> HIDE DEF S
<1>4. n \in S
  BY <1>1, <1>2, <1>3, ByInduction
<1>. QED BY <1>4 DEF S

LEMMA FilterDepends ==
  ASSUME NEW s, NEW t, NEW n \in Nat, NEW k \in Nat, n <= k, NEW g, NEW h,
         Filters(s, n, g), Filters(t, k, h), \A i \in 1 .. n : s[i] = t[i]
  PROVE  \A i \in 0 .. n : g[i] = h[i]
<1> DEFINE S == {i \in Nat : i <= n => g[i] = h[i]}
<1>0. /\ g[0] = <<>>
      /\ \A i \in 1 .. n : g[i] = IF s[i].role = "queued" THEN Append(g[i - 1], s[i].msg) ELSE g[i - 1]
  BY FilterStep
<1>1. /\ h[0] = <<>>
      /\ \A i \in 1 .. k : h[i] = IF t[i].role = "queued" THEN Append(h[i - 1], t[i].msg) ELSE h[i - 1]
  BY FilterStep
<1>2. 0 \in S
  BY <1>0, <1>1
<1>3. ASSUME NEW i \in Nat, i \in S PROVE i + 1 \in S
  <2>1. SUFFICES ASSUME i + 1 <= n PROVE g[i + 1] = h[i + 1]
    OBVIOUS
  <2>2. PICK j \in 1 .. n : j = i + 1
    BY <2>1
  <2>3. j \in 1 .. k /\ j - 1 = i /\ g[i] = h[i] /\ s[j] = t[j]
    BY <1>3, <2>1, <2>2
  <2>4. g[j] = h[j]
    BY <1>0, <1>1, <2>3
  <2>. QED BY <2>2, <2>4
<1>4. S \in SUBSET Nat
  OBVIOUS
<1> HIDE DEF S
<1>5. \A i \in Nat : i \in S
  BY <1>2, <1>3, <1>4, ByInduction
<1>. QED BY <1>5 DEF S

LEMMA QueuedInIs ==
  ASSUME NEW s, Len(s) \in Nat
  PROVE  \E g : Filters(s, Len(s), g) /\ QueuedIn(s) = g[Len(s)]
<1>1. \E g : Filters(s, Len(s), g)
  BY FilterExists
<1>2. QueuedIn(s) = (CHOOSE g : Filters(s, Len(s), g))[Len(s)]
  BY DEF QueuedIn, Filters
<1>3. Filters(s, Len(s), CHOOSE g : Filters(s, Len(s), g))
  <2> DEFINE F(g) == Filters(s, Len(s), g)
  <2>1. \E g : F(g)
    BY <1>1
  <2> HIDE DEF F
  <2>2. F(CHOOSE g : F(g))
    BY <2>1
  <2>. QED BY <2>2 DEF F
<1>. QED BY <1>2, <1>3

LEMMA QueuedInEmpty == QueuedIn(<<>>) = <<>>
<1>1. Len(<<>>) = 0
  OBVIOUS
<1>2. PICK g : Filters(<<>>, 0, g) /\ QueuedIn(<<>>) = g[0]
  BY <1>1, QueuedInIs
<1>. QED BY <1>2, FilterStep

LEMMA QueuedInAppend ==
  ASSUME NEW S, NEW t \in Seq(S), NEW x
  PROVE  QueuedIn(Append(t, x)) = IF x.role = "queued" THEN Append(QueuedIn(t), x.msg) ELSE QueuedIn(t)
<1> DEFINE u == Append(t, x)
           n == Len(t)
<1>1. /\ n \in Nat /\ n + 1 \in Nat /\ n <= n + 1 /\ n + 1 \in 1 .. n + 1 /\ n \in 0 .. n /\ (n + 1) - 1 = n
      /\ Len(u) = n + 1 /\ u[n + 1] = x /\ \A i \in 1 .. n : t[i] = u[i]
  <2>1. t \in Seq(S \cup {x})
    BY SeqMonotonic
  <2>. QED BY <2>1, AppendProperties, LenProperties
<1> HIDE DEF u, n
<1>2. PICK g : Filters(t, n, g) /\ QueuedIn(t) = g[n]
  BY <1>1, QueuedInIs DEF n
<1>3. PICK h : Filters(u, n + 1, h) /\ QueuedIn(u) = h[n + 1]
  BY <1>1, QueuedInIs
<1>4. g[n] = h[n]
  BY <1>1, <1>2, <1>3, FilterDepends
<1>5. \A i \in 1 .. n + 1 : h[i] = IF u[i].role = "queued" THEN Append(h[i - 1], u[i].msg) ELSE h[i - 1]
  BY <1>1, <1>3, FilterStep
<1>6. h[n + 1] = IF x.role = "queued" THEN Append(h[n], x.msg) ELSE h[n]
  BY <1>1, <1>5
<1>7. QueuedIn(u) = IF x.role = "queued" THEN Append(QueuedIn(t), x.msg) ELSE QueuedIn(t)
  BY <1>2, <1>3, <1>4, <1>6
<1>. QED BY <1>7 DEF u

LEMMA QueuedInItems ==
  ASSUME NEW s \in Seq(Msgs)
  PROVE  QueuedIn(AsMessages(s)) = s
<1> DEFINE n == Len(s)
           u == AsMessages(s)
<1>1. /\ n \in Nat /\ DOMAIN s = 1 .. n /\ DOMAIN u = 1 .. n /\ Len(u) = n
      /\ \A i \in 1 .. n : u[i].role = "queued" /\ u[i].msg = s[i] /\ s[i] \in Msgs
  BY LenProperties, ElementOfSeq DEF AsMessages, Queued
<1> HIDE DEF u, n
<1>2. PICK g : Filters(u, n, g) /\ QueuedIn(u) = g[n]
  BY <1>1, QueuedInIs
<1>3. g[0] = <<>> /\ \A i \in 1 .. n : g[i] = Append(g[i - 1], s[i])
  <2>1. g[0] = <<>>
        /\ \A i \in 1 .. n : g[i] = IF u[i].role = "queued" THEN Append(g[i - 1], u[i].msg) ELSE g[i - 1]
    BY <1>1, <1>2, FilterStep
  <2>. QED BY <1>1, <2>1
<1> DEFINE Part(k) == /\ g[k] \in Seq(Msgs) /\ Len(g[k]) = k
                      /\ \A i \in 1 .. k : g[k][i] = s[i]
           S == {k \in Nat : k <= n => Part(k)}
<1>4. 0 \in S
  <2>1. g[0] \in Seq(Msgs) /\ Len(g[0]) = 0
    BY <1>3
  <2>2. Part(0)
    BY <2>1
  <2>. QED BY <2>2
<1>5. ASSUME NEW k \in Nat, k \in S PROVE k + 1 \in S
  <2>1. SUFFICES ASSUME k + 1 <= n PROVE Part(k + 1)
    OBVIOUS
  <2>2. Part(k)
    BY <1>1, <1>5, <2>1
  <2>3. PICK j \in 1 .. n : j = k + 1
    BY <1>1, <2>1
  <2>4. g[j] = Append(g[k], s[j]) /\ s[j] \in Msgs
    <3>1. j - 1 = k
      BY <2>3
    <3>. QED BY <1>1, <1>3, <3>1
  <2>5. PICK a : a = g[k]
    OBVIOUS
  <2>6. /\ Append(a, s[j]) \in Seq(Msgs) /\ Len(Append(a, s[j])) = k + 1
        /\ Append(a, s[j])[k + 1] = s[j] /\ \A i \in 1 .. k : Append(a, s[j])[i] = s[i]
    BY <2>2, <2>4, <2>5, AppendProperties
  <2>. QED BY <2>3, <2>4, <2>5, <2>6
<1>6. S \in SUBSET Nat
  OBVIOUS
<1> HIDE DEF S
<1>7. n \in S
  BY <1>1, <1>4, <1>5, <1>6, ByInduction
<1>8. Part(n)
  BY <1>1, <1>7 DEF S
<1>9. g[n] = s
  <2>1. g[n] \in Seq(Msgs) /\ Len(g[n]) = Len(s) /\ \A i \in 1 .. Len(s) : g[n][i] = s[i]
    BY <1>8 DEF n
  <2>2. PICK a : a = g[n]
    OBVIOUS
  <2>. QED BY <2>1, <2>2, SeqEqual
<1>. QED BY <1>2, <1>9 DEF u

LEMMA QueuedInElems ==
  ASSUME NEW t \in Seq(Message)
  PROVE  /\ QueuedIn(t) \in Seq(Msgs)
         /\ \A m \in Msgs : m \in Elems(QueuedIn(t)) <=> Queued(m) \in Elems(t)
<1> DEFINE n == Len(t)
<1>1. n \in Nat /\ DOMAIN t = 1 .. n
  BY LenProperties
<1>2. ASSUME NEW i \in 1 .. n, t[i].role = "queued" PROVE t[i].msg \in Msgs /\ t[i] = Queued(t[i].msg)
  <2>1. t[i] \in Message
    BY <1>1, ElementOfSeq
  <2>. QED BY <1>2, <2>1 DEF Message, Queued
<1> HIDE DEF n
<1>3. PICK g : Filters(t, n, g) /\ QueuedIn(t) = g[n]
  BY <1>1, QueuedInIs DEF n
<1>4. g[0] = <<>>
      /\ \A i \in 1 .. n : g[i] = IF t[i].role = "queued" THEN Append(g[i - 1], t[i].msg) ELSE g[i - 1]
  BY <1>1, <1>3, FilterStep
<1> DEFINE Part(k) == /\ g[k] \in Seq(Msgs)
                      /\ \A m \in Msgs : m \in Elems(g[k]) <=> \E i \in 1 .. k : t[i] = Queued(m)
           S == {k \in Nat : k <= n => Part(k)}
<1>5. 0 \in S
  <2>1. Elems(<<>>) = {} /\ <<>> \in Seq(Msgs)
    BY DEF Elems
  <2>2. Part(0)
    BY <1>4, <2>1
  <2>. QED BY <2>2
<1>6. ASSUME NEW k \in Nat, k \in S PROVE k + 1 \in S
  <2>1. SUFFICES ASSUME k + 1 <= n PROVE Part(k + 1)
    OBVIOUS
  <2>2. Part(k)
    BY <1>1, <1>6, <2>1
  <2>3. PICK j \in 1 .. n : j = k + 1
    BY <1>1, <2>1
  <2>4. PICK a : a = g[k]
    OBVIOUS
  <2>5. g[j] = IF t[j].role = "queued" THEN Append(a, t[j].msg) ELSE a
    <3>1. j - 1 = k
      BY <2>3
    <3>. QED BY <1>4, <2>4, <3>1
  <2>6. \A i : i \in 1 .. k + 1 <=> i \in 1 .. k \/ i = j
    BY <2>3
  <2>7. CASE t[j].role = "queued"
    <3>1. t[j].msg \in Msgs /\ t[j] = Queued(t[j].msg)
      BY <1>2, <2>7
    <3>2. PICK x \in Msgs : x = t[j].msg
      BY <3>1
    <3>3. Append(a, x) \in Seq(Msgs) /\ Elems(Append(a, x)) = Elems(a) \cup {x}
      <4>1. /\ a \in Seq(Msgs) /\ Append(a, x) \in Seq(Msgs) /\ Len(a) \in Nat
            /\ DOMAIN Append(a, x) = 1 .. Len(a) + 1 /\ DOMAIN a = 1 .. Len(a)
            /\ Append(a, x)[Len(a) + 1] = x /\ \A i \in 1 .. Len(a) : Append(a, x)[i] = a[i]
        BY <2>2, <2>4, AppendProperties, LenProperties
      <4>2. Elems(Append(a, x)) \subseteq Elems(a) \cup {x}
        BY <4>1 DEF Elems
      <4>3. Elems(a) \cup {x} \subseteq Elems(Append(a, x))
        BY <4>1 DEF Elems
      <4>. QED BY <4>1, <4>2, <4>3
    <3>4. \A m \in Msgs : t[j] = Queued(m) <=> m = x
      BY <3>1, <3>2, QueuedIsNot
    <3>5. g[j] = Append(a, x)
      BY <2>5, <2>7, <3>2
    <3>6. \A m \in Msgs : m \in Elems(a) <=> \E i \in 1 .. k : t[i] = Queued(m)
      BY <2>2, <2>4
    <3>7. ASSUME NEW m \in Msgs PROVE m \in Elems(g[j]) <=> \E i \in 1 .. k + 1 : t[i] = Queued(m)
      <4>1. m \in Elems(g[j]) <=> m \in Elems(a) \/ m = x
        BY <3>3, <3>5
      <4>2. (\E i \in 1 .. k + 1 : t[i] = Queued(m)) <=> (\E i \in 1 .. k : t[i] = Queued(m)) \/ t[j] = Queued(m)
        BY <2>6
      <4>. QED BY <3>4, <3>6, <4>1, <4>2
    <3>. QED BY <2>3, <3>3, <3>5, <3>7
  <2>8. CASE t[j].role # "queued"
    <3>1. \A m \in Msgs : t[j] # Queued(m)
      BY <2>8, QueuedIsNot
    <3>2. \A m \in Msgs : m \in Elems(a) <=> \E i \in 1 .. k : t[i] = Queued(m)
      BY <2>2, <2>4
    <3>3. a \in Seq(Msgs) /\ g[j] = a
      BY <2>2, <2>4, <2>5, <2>8
    <3>4. ASSUME NEW m \in Msgs PROVE m \in Elems(g[j]) <=> \E i \in 1 .. k + 1 : t[i] = Queued(m)
      <4>1. (\E i \in 1 .. k + 1 : t[i] = Queued(m)) <=> (\E i \in 1 .. k : t[i] = Queued(m)) \/ t[j] = Queued(m)
        BY <2>6
      <4>. QED BY <3>1, <3>2, <3>3, <4>1
    <3>. QED BY <2>3, <3>3, <3>4
  <2>. QED BY <2>7, <2>8
<1>7. S \in SUBSET Nat
  OBVIOUS
<1> HIDE DEF S
<1>8. n \in S
  BY <1>1, <1>5, <1>6, <1>7, ByInduction
<1>9. Part(n)
  BY <1>1, <1>8 DEF S
<1>10. \A m \in Msgs : Queued(m) \in Elems(t) <=> \E i \in 1 .. n : t[i] = Queued(m)
  BY <1>1 DEF Elems
<1>. QED BY <1>3, <1>9, <1>10

-----------------------------------------------------------------------------
(* The Agent as a MessageDelivery.  A loop that holds messages holds its prompt or queued
   messages alone, and no other loop holds any. *)
HoldInv ==
    \A r \in Runs :
        \/ inbox[r] = <<Prompt(r)>>
        \/ \E s \in Seq(Msgs) : inbox[r] = AsMessages(s)

OneHand == \A s \in Runs : s # active => inbox[s] = <<>>

(* A message is waiting, in the hand or delivered. *)
Within(w, h, d, m) == (\E q \in Boxes : m \in Elems(w[q])) \/ m \in Elems(h) \/ m \in Elems(d)

LEMMA InTheHand ==
  ASSUME NEW held \in [Runs -> Seq(Message)], NEW a \in 0 .. MaxRuns,
         \A s \in Runs : s # a => held[s] = <<>>
  PROVE  \A m \in Msgs : (\E r \in Runs : Queued(m) \in Elems(held[r]))
                            <=> m \in Elems(IF a = 0 THEN <<>> ELSE QueuedIn(held[a]))
<1>1. Elems(<<>>) = {}
  BY DEF Elems
<1>2. a = 0 \/ a \in Runs
  BY BoundsAssumption DEF Runs
<1>3. \A r \in Runs : r # a => Elems(held[r]) = {}
  BY <1>1
<1>4. CASE a = 0
  <2>1. \A r \in Runs : r # a
    BY <1>4, RunsAreNat
  <2>. QED BY <1>1, <1>3, <1>4, <2>1
<1>5. CASE a \in Runs
  <2>1. a # 0 /\ held[a] \in Seq(Message)
    BY <1>5, RunsAreNat
  <2>2. \A m \in Msgs : m \in Elems(QueuedIn(held[a])) <=> Queued(m) \in Elems(held[a])
    BY <2>1, QueuedInElems
  <2>. QED BY <1>3, <1>5, <2>1, <2>2
<1>. QED BY <1>2, <1>4, <1>5

LEMMA HeldIsWithin ==
  ASSUME TypeOK, OneHand
  PROVE  /\ \A m \in Msgs : (\E r \in Runs : Queued(m) \in Elems(inbox[r])) <=> m \in Elems(Hand)
         /\ \A m \in Msgs : Kept(m) <=> Within(queue, Hand, QueuedIn(transcript), m)
<1>1. inbox \in [Runs -> Seq(Message)] /\ active \in 0 .. MaxRuns /\ transcript \in Seq(Message)
  BY BoundsAssumption DEF TypeOK
<1>2. \A m \in Msgs : (\E r \in Runs : Queued(m) \in Elems(inbox[r])) <=> m \in Elems(Hand)
  BY <1>1, InTheHand DEF OneHand, Hand
<1>3. \A m \in Msgs : Queued(m) \in Elems(transcript) <=> m \in Elems(QueuedIn(transcript))
  BY <1>1, QueuedInElems
<1>. QED BY <1>2, <1>3 DEF Kept, Within

LEMMA HeldIsWithinNext ==
  ASSUME TypeOK', OneHand'
  PROVE  \A m \in Msgs : Kept(m)' <=> Within(queue', Hand', QueuedIn(transcript'), m)
<1>1. inbox' \in [Runs -> Seq(Message)] /\ active' \in 0 .. MaxRuns /\ transcript' \in Seq(Message)
  BY BoundsAssumption DEF TypeOK
<1>2. \A m \in Msgs : (\E r \in Runs : Queued(m) \in Elems(inbox'[r])) <=> m \in Elems(Hand')
  BY <1>1, InTheHand DEF OneHand, Hand
<1>3. \A m \in Msgs : Queued(m) \in Elems(transcript') <=> m \in Elems(QueuedIn(transcript'))
  BY <1>1, QueuedInElems
<1>. QED BY <1>2, <1>3 DEF Kept, Within

(* What is gone after a step that accepts nothing: what was, and what left the path. *)
LEMMA GoneNext ==
  ASSUME TypeOK, TypeOK', OneHand, OneHand', pushed' = pushed, NEW L,
         \A m \in Sent : Within(queue', Hand', QueuedIn(transcript'), m)
                            <=> Within(queue, Hand, QueuedIn(transcript), m) /\ m \notin L
  PROVE  Gone' = Gone \cup (L \cap Sent)
<1>1. Sent' = Sent /\ Sent \subseteq Msgs
  BY SentStays, SentAreMsgs
<1>2. \A m \in Sent : Kept(m)' <=> Kept(m) /\ m \notin L
  BY <1>1, HeldIsWithin, HeldIsWithinNext
<1>. QED BY <1>1, <1>2 DEF Gone

LEMMA NothingHappens ==
  ASSUME TypeOK, TypeOK', OneHand, OneHand', pushed' = pushed, queue' = queue, Hand' = Hand,
         QueuedIn(transcript') = QueuedIn(transcript)
  PROVE  UNCHANGED Mailbox!vars
<1>1. Gone' = Gone \cup ({} \cap Sent)
  BY GoneNext
<1>2. Gone' = Gone
  BY <1>1
<1>. QED BY <1>2 DEF Mailbox!vars

(* A message has one place, and it is one that was accepted. *)
LEMMA Distinct ==
  ASSUME TypeOK, OneHand, OnceInv
  PROVE  /\ \A q \in Boxes, b \in Boxes, m \in Msgs : m \in Elems(queue[q]) /\ m \in Elems(queue[b]) => q = b
         /\ \A q \in Boxes, m \in Msgs : m \in Elems(queue[q]) =>
                m \in Sent /\ m \notin Elems(Hand) /\ m \notin Elems(QueuedIn(transcript))
         /\ \A m \in Msgs : m \in Elems(Hand) => m \in Sent /\ m \notin Elems(QueuedIn(transcript))
         /\ \A m \in Msgs : m \in Elems(QueuedIn(transcript)) => m \in Sent
<1>1. /\ \A q \in Boxes : DOMAIN queue[q] \subseteq Nat
      /\ \A r \in Runs : DOMAIN inbox[r] \subseteq Nat
      /\ DOMAIN transcript \subseteq Nat
  BY LenProperties DEF TypeOK
<1>2. \A q \in Boxes, m \in Msgs : m \in Elems(queue[q]) <=> \E i \in Nat : InQueue(q, i, m)
  BY <1>1 DEF Elems, InQueue
<1>3. \A m \in Msgs : m \in Elems(Hand) <=> \E r \in Runs, i \in Nat : InHand(r, i, m)
  <2>1. \A m \in Msgs : (\E r \in Runs : Queued(m) \in Elems(inbox[r])) <=> \E r \in Runs, i \in Nat : InHand(r, i, m)
    BY <1>1 DEF Elems, InHand
  <2>. QED BY <2>1, HeldIsWithin
<1>4. \A m \in Msgs : m \in Elems(QueuedIn(transcript)) <=> \E i \in Nat : InTranscript(i, m)
  <2>1. \A m \in Msgs : Queued(m) \in Elems(transcript) <=> \E i \in Nat : InTranscript(i, m)
    BY <1>1 DEF Elems, InTranscript
  <2>2. transcript \in Seq(Message)
    BY DEF TypeOK
  <2>. QED BY <2>1, <2>2, QueuedInElems
<1>5. \A q \in Boxes, b \in Boxes, m \in Msgs : m \in Elems(queue[q]) /\ m \in Elems(queue[b]) => q = b
  BY <1>2 DEF OnceInv
<1>6. \A q \in Boxes, m \in Msgs : m \in Elems(queue[q]) =>
        m \in Sent /\ m \notin Elems(Hand) /\ m \notin Elems(QueuedIn(transcript))
  BY <1>2, <1>3, <1>4 DEF OnceInv
<1>7. \A m \in Msgs : m \in Elems(Hand) => m \in Sent /\ m \notin Elems(QueuedIn(transcript))
  BY <1>3, <1>4 DEF OnceInv
<1>8. \A m \in Msgs : m \in Elems(QueuedIn(transcript)) => m \in Sent
  BY <1>4 DEF OnceInv
<1>. QED BY <1>5, <1>6, <1>7, <1>8

(* A drain takes a portion from the front of its queue. *)
LEMMA DrainIsPortion ==
  ASSUME TypeOK, NEW q \in Boxes, queue[q] # <<>>
  PROVE  \E k \in Mailbox!Portions(q) :
            /\ Drained(q) = Mailbox!Take(queue[q], k)
            /\ Remaining(q) = Mailbox!Drop(queue[q], k)
<1>1. PICK s \in Seq(Msgs) : s = queue[q]
  BY DEF TypeOK
<1>2. s # <<>> /\ Len(s) \in Nat /\ Len(s) >= 1
  BY <1>1, EmptySeq, LenProperties
<1>3. CASE mode[q] = "all"
  <2>1. Drained(q) = s /\ Remaining(q) = <<>>
    BY <1>1, <1>3 DEF Drained, Remaining
  <2>2. SubSeq(s, 1, Len(s)) = s /\ SubSeq(s, Len(s) + 1, Len(s)) = <<>>
    BY <1>2
  <2>. QED BY <1>1, <2>1, <2>2 DEF Mailbox!Portions, Mailbox!Take, Mailbox!Drop
<1>4. CASE mode[q] # "all"
  <2>1. Drained(q) = <<Head(s)>> /\ Remaining(q) = Tail(s)
    BY <1>1, <1>2, <1>4 DEF Drained, Remaining
  <2>2. SubSeq(s, 1, 1) = <<Head(s)>>
    <3>1. Head(s) = s[1] /\ s[1] \in Msgs
      BY <1>2, HeadTailProperties, ElementOfSeq
    <3>2. PICK a : a = SubSeq(s, 1, 1)
      OBVIOUS
    <3>3. a \in Seq(Msgs) /\ Len(a) = 1 /\ a[1] = s[1]
      <4>1. \A i \in 1 .. 1 : s[i] \in Msgs
        BY <3>1
      <4>2. /\ SubSeq(s, 1, 1) \in Seq(Msgs) /\ Len(SubSeq(s, 1, 1)) = 1 - 1 + 1
            /\ \A i \in 1 .. 1 - 1 + 1 : SubSeq(s, 1, 1)[i] = s[1 + i - 1]
        BY <4>1, SubSeqProperties
      <4>. QED BY <3>2, <4>2
    <3>4. a = <<s[1]>>
      BY <3>1, <3>3
    <3>. QED BY <3>1, <3>2, <3>4
  <2>3. SubSeq(s, 2, Len(s)) = Tail(s)
    BY <1>2, TailIsSubSeq
  <2>. QED BY <1>1, <2>1, <2>2, <2>3 DEF Mailbox!Portions, Mailbox!Take, Mailbox!Drop
<1>. QED BY <1>3, <1>4

LEMMA DrainSplits ==
  ASSUME TypeOK, OnceInv, NEW q \in Boxes
  PROVE  /\ \A m : m \in Elems(queue[q]) <=> m \in Elems(Drained(q)) \/ m \in Elems(Remaining(q))
         /\ \A m : m \in Elems(Drained(q)) => m \in Msgs /\ m \notin Elems(Remaining(q))
<1>1. PICK k \in Nat :
            /\ k <= Len(queue[q])
            /\ DOMAIN Drained(q) = 1 .. k /\ \A i \in 1 .. k : Drained(q)[i] = queue[q][i]
            /\ DOMAIN Remaining(q) = 1 .. Len(queue[q]) - k
            /\ \A i \in 1 .. Len(queue[q]) - k : Remaining(q)[i] = queue[q][i + k]
  BY DrainItems
<1>2. PICK s \in Seq(Msgs) : s = queue[q]
  BY DEF TypeOK
<1>3. PICK n \in Nat : n = Len(s) /\ DOMAIN s = 1 .. n /\ \A i \in 1 .. n : s[i] \in Msgs
  BY LenProperties, ElementOfSeq
<1>4. \A i, j \in 1 .. n : s[i] = s[j] => i = j
  BY <1>2, <1>3 DEF OnceInv, InQueue
<1>5. PICK d, e : d = Drained(q) /\ e = Remaining(q)
  OBVIOUS
<1>6. /\ k <= n /\ DOMAIN d = 1 .. k /\ \A i \in 1 .. k : d[i] = s[i]
      /\ DOMAIN e = 1 .. n - k /\ \A i \in 1 .. n - k : e[i] = s[i + k]
  BY <1>1, <1>2, <1>3, <1>5
<1>7. ASSUME NEW m, m \in Elems(s) PROVE m \in Elems(d) \/ m \in Elems(e)
  <2>1. PICK i \in 1 .. n : s[i] = m
    BY <1>3, <1>7 DEF Elems
  <2>2. CASE i <= k
    <3>1. i \in DOMAIN d /\ d[i] = m
      BY <1>6, <2>1, <2>2
    <3>. QED BY <3>1 DEF Elems
  <2>3. CASE ~ i <= k
    <3>1. i - k \in 1 .. n - k /\ (i - k) + k = i
      BY <2>1, <2>3
    <3>2. i - k \in DOMAIN e /\ e[i - k] = m
      BY <1>6, <2>1, <3>1
    <3>. QED BY <3>2 DEF Elems
  <2>. QED BY <2>2, <2>3
<1>8. ASSUME NEW m, m \in Elems(d) PROVE m \in Elems(s) /\ m \in Msgs /\ \E i \in 1 .. k : s[i] = m
  <2>1. PICK i \in 1 .. k : s[i] = m
    BY <1>6, <1>8 DEF Elems
  <2>2. i \in 1 .. n
    BY <1>6, <2>1
  <2>. QED BY <1>3, <2>1, <2>2 DEF Elems
<1>9. ASSUME NEW m, m \in Elems(e) PROVE m \in Elems(s) /\ \E i \in 1 .. n : i > k /\ s[i] = m
  <2>1. PICK i \in 1 .. n - k : s[i + k] = m
    BY <1>6, <1>9 DEF Elems
  <2>2. PICK j \in 1 .. n : j = i + k /\ j > k
    BY <1>6, <2>1
  <2>. QED BY <1>3, <2>1, <2>2 DEF Elems
<1>10. ASSUME NEW m, m \in Elems(d), m \in Elems(e) PROVE FALSE
  <2>1. PICK i \in 1 .. k : s[i] = m
    BY <1>8, <1>10
  <2>2. PICK j \in 1 .. n : j > k /\ s[j] = m
    BY <1>9, <1>10
  <2>3. i \in 1 .. n /\ i # j
    BY <1>6, <2>1, <2>2
  <2>. QED BY <1>4, <2>1, <2>2, <2>3
<1>. QED BY <1>2, <1>5, <1>7, <1>8, <1>9, <1>10

-----------------------------------------------------------------------------
(* The steps of the Agent as steps of the mailbox. *)

Delivered == QueuedIn(transcript)

LEMMA GrabStep ==
  ASSUME TypeOK, TypeOK', OneHand, OneHand', OnceInv, NEW q \in Boxes,
         queue' = [queue EXCEPT ![q] = Remaining(q)], Hand = <<>>, Hand' = Drained(q),
         Delivered' = Delivered, pushed' = pushed
  PROVE  [Mailbox!Next]_(Mailbox!vars)
<1>1. CASE queue[q] = <<>>
  <2>1. Drained(q) = <<>> /\ Remaining(q) = <<>>
    BY <1>1 DEF Drained, Remaining
  <2>2. queue' = queue /\ Hand' = Hand
    BY <1>1, <2>1 DEF TypeOK
  <2>. QED BY <2>2, NothingHappens DEF Delivered
<1>2. CASE queue[q] # <<>>
  <2>1. PICK k \in Mailbox!Portions(q) :
            Drained(q) = Mailbox!Take(queue[q], k) /\ Remaining(q) = Mailbox!Drop(queue[q], k)
    BY <1>2, DrainIsPortion
  <2>2. \A m \in Sent : Within(queue', Hand', QueuedIn(transcript'), m)
                            <=> Within(queue, Hand, QueuedIn(transcript), m) /\ m \notin {}
    <3>1. \A b \in Boxes : queue'[b] = IF b = q THEN Remaining(q) ELSE queue[b]
      BY DEF TypeOK
    <3>2. \A m : m \in Elems(queue[q]) <=> m \in Elems(Drained(q)) \/ m \in Elems(Remaining(q))
      BY DrainSplits
    <3>3. Elems(Hand) = {} /\ Elems(Hand') = Elems(Drained(q)) /\ QueuedIn(transcript') = QueuedIn(transcript)
      BY DEF Elems, Delivered
    <3>4. ASSUME NEW m PROVE (\E b \in Boxes : m \in Elems(queue'[b])) \/ m \in Elems(Drained(q))
                                <=> \E b \in Boxes : m \in Elems(queue[b])
      BY <3>1, <3>2
    <3>. QED BY <3>3, <3>4 DEF Within
  <2>3. Gone' = Gone \cup ({} \cap Sent)
    BY <2>2, GoneNext
  <2>4. Gone' = Gone
    BY <2>3
  <2>5. Mailbox!Grab(q, k)
    BY <1>2, <2>1, <2>4 DEF Mailbox!Grab, Delivered
  <2>. QED BY <2>1, <2>5 DEF Mailbox!Next
<1>. QED BY <1>1, <1>2

LEMMA LoseStep ==
  ASSUME TypeOK, TypeOK', OneHand, OneHand', OnceInv, NEW q \in Boxes,
         queue' = [queue EXCEPT ![q] = Remaining(q)], Hand' = Hand,
         Delivered' = Delivered, pushed' = pushed
  PROVE  [Mailbox!Next]_(Mailbox!vars)
<1>1. CASE queue[q] = <<>>
  <2>1. Remaining(q) = <<>>
    BY <1>1 DEF Remaining
  <2>2. queue' = queue
    BY <1>1, <2>1 DEF TypeOK
  <2>. QED BY <2>2, NothingHappens DEF Delivered
<1>2. CASE queue[q] # <<>>
  <2>1. PICK k \in Mailbox!Portions(q) :
            Drained(q) = Mailbox!Take(queue[q], k) /\ Remaining(q) = Mailbox!Drop(queue[q], k)
    BY <1>2, DrainIsPortion
  <2>2. PICK L : L = Elems(Drained(q))
    OBVIOUS
  <2>3. \A m : m \in Elems(queue[q]) <=> m \in L \/ m \in Elems(Remaining(q))
    BY <2>2, DrainSplits
  <2>4. \A m : m \in L => m \in Msgs /\ m \notin Elems(Remaining(q)) /\ m \in Elems(queue[q])
    BY <2>2, <2>3, DrainSplits
  <2>5. \A m \in L : /\ m \in Sent /\ m \notin Elems(Hand) /\ m \notin Elems(QueuedIn(transcript))
                     /\ \A b \in Boxes : b # q => m \notin Elems(queue[b])
    BY <2>4, Distinct
  <2>6. \A m \in Sent : Within(queue', Hand', QueuedIn(transcript'), m)
                            <=> Within(queue, Hand, QueuedIn(transcript), m) /\ m \notin L
    <3>1. \A b \in Boxes : queue'[b] = IF b = q THEN Remaining(q) ELSE queue[b]
      BY DEF TypeOK
    <3>2. Hand' = Hand /\ QueuedIn(transcript') = QueuedIn(transcript)
      BY DEF Delivered
    <3>3. ASSUME NEW m PROVE (\E b \in Boxes : m \in Elems(queue'[b]))
                                <=> (\E b \in Boxes : m \in Elems(queue[b])) /\ m \notin L
      <4>1. CASE m \in L
        BY <2>4, <2>5, <3>1, <4>1
      <4>2. CASE m \notin L
        BY <2>3, <3>1, <4>2
      <4>. QED BY <4>1, <4>2
    <3>. QED BY <2>5, <3>2, <3>3 DEF Within
  <2>7. Gone' = Gone \cup (L \cap Sent)
    BY <2>6, GoneNext
  <2>8. Gone' = Gone \cup Mailbox!Elems(Mailbox!Take(queue[q], k))
    <3>1. L \cap Sent = L /\ L = Mailbox!Elems(Drained(q))
      BY <2>2, <2>5 DEF Elems, Mailbox!Elems
    <3>. QED BY <2>1, <2>7, <3>1
  <2>9. Mailbox!LoseFront(q, k)
    BY <1>2, <2>1, <2>8 DEF Mailbox!LoseFront, Delivered
  <2>. QED BY <2>1, <2>9 DEF Mailbox!Next
<1>. QED BY <1>1, <1>2

LEMMA ClearStep ==
  ASSUME TypeOK, TypeOK', OneHand, OneHand', OnceInv, NEW q \in Boxes, queue[q] # <<>>,
         queue' = [queue EXCEPT ![q] = <<>>], Hand' = Hand, Delivered' = Delivered, pushed' = pushed
  PROVE  Mailbox!Next
<1>1. PICK L : L = Elems(queue[q])
  OBVIOUS
<1>2. L \subseteq Msgs
  <2>1. queue[q] \in Seq(Msgs)
    BY DEF TypeOK
  <2>. QED BY <1>1, <2>1, LenProperties, ElementOfSeq DEF Elems
<1>3. \A m \in L : /\ m \in Sent /\ m \notin Elems(Hand) /\ m \notin Elems(QueuedIn(transcript))
                   /\ \A b \in Boxes : b # q => m \notin Elems(queue[b])
  BY <1>1, <1>2, Distinct
<1>4. \A m \in Sent : Within(queue', Hand', QueuedIn(transcript'), m)
                        <=> Within(queue, Hand, QueuedIn(transcript), m) /\ m \notin L
  <2>1. \A b \in Boxes : queue'[b] = IF b = q THEN <<>> ELSE queue[b]
    BY DEF TypeOK
  <2>2. Elems(<<>>) = {} /\ Hand' = Hand /\ QueuedIn(transcript') = QueuedIn(transcript)
    BY DEF Elems, Delivered
  <2>3. ASSUME NEW m PROVE (\E b \in Boxes : m \in Elems(queue'[b]))
                              <=> (\E b \in Boxes : m \in Elems(queue[b])) /\ m \notin L
    <3>1. CASE m \in L
      BY <1>3, <2>1, <2>2, <3>1
    <3>2. CASE m \notin L
      BY <1>1, <2>1, <2>2, <3>2
    <3>. QED BY <3>1, <3>2
  <2>. QED BY <1>3, <2>2, <2>3 DEF Within
<1>5. Gone' = Gone \cup (L \cap Sent)
  BY <1>4, GoneNext
<1>6. Gone' = Gone \cup Mailbox!Elems(queue[q])
  <2>1. L \cap Sent = L /\ L = Mailbox!Elems(queue[q])
    BY <1>1, <1>3 DEF Elems, Mailbox!Elems
  <2>. QED BY <1>5, <2>1
<1>7. Mailbox!Clear(q)
  BY <1>6 DEF Mailbox!Clear, Delivered
<1>. QED BY <1>7 DEF Mailbox!Next

LEMMA DeliverStep ==
  ASSUME TypeOK, TypeOK', OneHand, OneHand', Hand \in Seq(Msgs), Hand # <<>>, Hand' = Tail(Hand),
         Delivered \in Seq(Msgs), Delivered' = Append(Delivered, Head(Hand)),
         queue' = queue, pushed' = pushed
  PROVE  Mailbox!Next
<1>1. PICK h \in Seq(Msgs), d \in Seq(Msgs) : h = Hand /\ d = Delivered
  OBVIOUS
<1>2. /\ Len(h) \in Nat /\ Len(h) >= 1 /\ DOMAIN h = 1 .. Len(h) /\ Head(h) = h[1] /\ h[1] \in Msgs
      /\ DOMAIN Tail(h) = 1 .. Len(h) - 1 /\ \A i \in 1 .. Len(h) - 1 : Tail(h)[i] = h[i + 1]
  BY <1>1, HeadTailProperties, LenProperties, EmptySeq, ElementOfSeq
<1>3. /\ DOMAIN Append(d, h[1]) = 1 .. Len(d) + 1 /\ DOMAIN d = 1 .. Len(d) /\ Len(d) \in Nat
      /\ Append(d, h[1])[Len(d) + 1] = h[1] /\ \A i \in 1 .. Len(d) : Append(d, h[1])[i] = d[i]
  BY <1>2, AppendProperties, LenProperties
<1>4. PICK t, e : t = Tail(h) /\ e = Append(d, h[1])
  OBVIOUS
<1>5. \A m : m \in Elems(h) <=> m = h[1] \/ m \in Elems(t)
  <2>1. \A m : m \in Elems(t) => m \in Elems(h)
    BY <1>2, <1>4 DEF Elems
  <2>2. h[1] \in Elems(h)
    <3>1. 1 \in DOMAIN h
      BY <1>2
    <3>. QED BY <3>1 DEF Elems
  <2>3. ASSUME NEW m, m \in Elems(h), m # h[1] PROVE m \in Elems(t)
    <3>1. PICK i \in 1 .. Len(h) : h[i] = m
      BY <1>2, <2>3 DEF Elems
    <3>2. PICK j \in 1 .. Len(h) - 1 : i = j + 1
      <4>1. i - 1 \in 1 .. Len(h) - 1 /\ i = (i - 1) + 1
        BY <1>2, <2>3, <3>1
      <4>. QED BY <4>1
    <3>3. j \in DOMAIN t /\ t[j] = m
      BY <1>2, <1>4, <3>1, <3>2
    <3>. QED BY <3>3 DEF Elems
  <2>. QED BY <2>1, <2>2, <2>3
<1>6. \A m : m \in Elems(e) <=> m = h[1] \/ m \in Elems(d)
  <2>1. ASSUME NEW m, m \in Elems(d) PROVE m \in Elems(e)
    BY <1>3, <1>4, <2>1 DEF Elems
  <2>2. h[1] \in Elems(e)
    <3>1. Len(d) + 1 \in DOMAIN e /\ e[Len(d) + 1] = h[1]
      BY <1>3, <1>4
    <3>. QED BY <3>1 DEF Elems
  <2>3. ASSUME NEW m, m \in Elems(e), m # h[1] PROVE m \in Elems(d)
    <3>1. PICK i \in 1 .. Len(d) + 1 : e[i] = m
      BY <1>3, <1>4, <2>3 DEF Elems
    <3>2. i \in 1 .. Len(d)
      BY <1>3, <1>4, <2>3, <3>1
    <3>3. i \in DOMAIN d /\ d[i] = m
      BY <1>3, <1>4, <3>1, <3>2
    <3>. QED BY <3>3 DEF Elems
  <2>. QED BY <2>1, <2>2, <2>3
<1>7. \A m \in Sent : Within(queue', Hand', QueuedIn(transcript'), m)
                        <=> Within(queue, Hand, QueuedIn(transcript), m) /\ m \notin {}
  <2>1. Hand = h /\ Hand' = t /\ QueuedIn(transcript) = d /\ QueuedIn(transcript') = e
    BY <1>1, <1>2, <1>4 DEF Delivered
  <2>. QED BY <1>5, <1>6, <2>1 DEF Within
<1>8. Gone' = Gone \cup ({} \cap Sent)
  BY <1>7, GoneNext
<1>9. Gone' = Gone
  BY <1>8
<1>10. Mailbox!Deliver
  BY <1>9 DEF Mailbox!Deliver, Delivered
<1>. QED BY <1>10 DEF Mailbox!Next

LEMMA LoseHandStep ==
  ASSUME TypeOK, TypeOK', OneHand, OneHand', OnceInv, Hand \in Seq(Msgs), Hand' = <<>>,
         Delivered' = Delivered, queue' = queue, pushed' = pushed
  PROVE  [Mailbox!Next]_(Mailbox!vars)
<1>1. CASE Hand = <<>>
  BY <1>1, NothingHappens DEF Delivered
<1>2. CASE Hand # <<>>
  <2>1. PICK L : L = Elems(Hand)
    OBVIOUS
  <2>2. L \subseteq Msgs
    BY <2>1, LenProperties, ElementOfSeq DEF Elems
  <2>3. \A m \in L : /\ m \in Sent /\ m \notin Elems(QueuedIn(transcript))
                     /\ \A b \in Boxes : m \notin Elems(queue[b])
    BY <2>1, <2>2, Distinct
  <2>4. \A m \in Sent : Within(queue', Hand', QueuedIn(transcript'), m)
                            <=> Within(queue, Hand, QueuedIn(transcript), m) /\ m \notin L
    <3>1. Elems(<<>>) = {} /\ QueuedIn(transcript') = QueuedIn(transcript)
      BY DEF Elems, Delivered
    <3>. QED BY <2>1, <2>3, <3>1 DEF Within
  <2>5. Gone' = Gone \cup (L \cap Sent)
    BY <2>4, GoneNext
  <2>6. Gone' = Gone \cup Mailbox!Elems(Hand)
    <3>1. L \cap Sent = L /\ L = Mailbox!Elems(Hand)
      BY <2>1, <2>3 DEF Elems, Mailbox!Elems
    <3>. QED BY <2>5, <3>1
  <2>7. Mailbox!LoseHand
    BY <1>2, <2>6 DEF Mailbox!LoseHand, Delivered
  <2>. QED BY <2>7 DEF Mailbox!Next
<1>. QED BY <1>1, <1>2

LEMMA PushStep ==
  ASSUME TypeOK, TypeOK', OneHand, OneHand', NEW q \in Boxes, NEW n \in Msgs, Push(q, n)
  PROVE  Mailbox!Next
<1>1. /\ n \notin Sent
      /\ queue' = [queue EXCEPT ![q] = Append(@, n)] /\ pushed' = [pushed EXCEPT ![q] = Append(@, n)]
      /\ UNCHANGED <<active, inbox, transcript>>
  BY DEF Push, stateVars, lifeVars, loopVars
<1>2. Hand' = Hand /\ QueuedIn(transcript') = QueuedIn(transcript)
  BY <1>1 DEF Hand
<1>3. ASSUME NEW s \in Seq(Msgs) PROVE \A m : m \in Elems(Append(s, n)) <=> m = n \/ m \in Elems(s)
  <2>1. PICK e : e = Append(s, n)
    OBVIOUS
  <2>2. /\ DOMAIN e = 1 .. Len(s) + 1 /\ DOMAIN s = 1 .. Len(s) /\ Len(s) \in Nat
        /\ e[Len(s) + 1] = n /\ \A i \in 1 .. Len(s) : e[i] = s[i]
    BY <2>1, AppendProperties, LenProperties
  <2>3. n \in Elems(e)
    <3>1. Len(s) + 1 \in DOMAIN e
      BY <2>2
    <3>. QED BY <2>2, <3>1 DEF Elems
  <2>4. ASSUME NEW m, m \in Elems(s) PROVE m \in Elems(e)
    BY <2>2, <2>4 DEF Elems
  <2>5. ASSUME NEW m, m \in Elems(e), m # n PROVE m \in Elems(s)
    <3>1. PICK i \in 1 .. Len(s) + 1 : e[i] = m
      BY <2>2, <2>5 DEF Elems
    <3>2. i \in DOMAIN s /\ s[i] = m
      BY <2>2, <2>5, <3>1
    <3>. QED BY <3>2 DEF Elems
  <2>. QED BY <2>1, <2>3, <2>4, <2>5
<1>4. /\ queue'[q] = Append(queue[q], n) /\ pushed'[q] = Append(pushed[q], n)
      /\ queue[q] \in Seq(Msgs) /\ pushed[q] \in Seq(Msgs)
      /\ \A b \in Boxes : b # q => queue'[b] = queue[b] /\ pushed'[b] = pushed[b]
  BY <1>1 DEF TypeOK
<1>5. ASSUME NEW m PROVE (\E b \in Boxes : m \in Elems(queue'[b])) <=> m = n \/ \E b \in Boxes : m \in Elems(queue[b])
  BY <1>3, <1>4
<1>6. ASSUME NEW m PROVE (\E b \in Boxes : m \in Elems(pushed'[b])) <=> m = n \/ \E b \in Boxes : m \in Elems(pushed[b])
  BY <1>3, <1>4
<1>7. /\ \A m : m \in Sent <=> \E b \in Boxes : m \in Elems(pushed[b])
      /\ \A m : m \in Sent' <=> \E b \in Boxes : m \in Elems(pushed'[b])
  BY DEF Sent, Boxes
<1>8. \A m : m \in Sent' <=> m = n \/ m \in Sent
  BY <1>6, <1>7
<1>9. \A m \in Msgs : Kept(m)' <=> m = n \/ Kept(m)
  BY <1>2, <1>5, HeldIsWithin, HeldIsWithinNext DEF Within
<1>10. Sent \subseteq Msgs
  BY SentAreMsgs
<1>11. Gone' = Gone
  <2>1. \A m : m \in Gone' <=> m \in Gone
    BY <1>1, <1>8, <1>9, <1>10 DEF Gone
  <2>2. PICK g, h : g = Gone /\ h = Gone'
    OBVIOUS
  <2>3. \A m : m \in h <=> m \in g
    BY <2>1, <2>2
  <2>. QED BY <2>2, <2>3
<1>12. \A b \in Boxes : n \notin Mailbox!Elems(pushed[b])
  BY <1>1, <1>7 DEF Elems, Mailbox!Elems
<1>13. Mailbox!Accept(q, n)
  BY <1>1, <1>2, <1>11, <1>12 DEF Mailbox!Accept
<1>. QED BY <1>13 DEF Mailbox!Next

LEMMA ResetStep ==
  ASSUME TypeOK, TypeOK', OneHand, OneHand', OnceInv, Reset
  PROVE  Mailbox!Next
<1>1. /\ active = 0 /\ active' = 0 /\ transcript' = <<>> /\ queue' = [q \in Boxes |-> <<>>] /\ pushed' = pushed
  BY DEF Reset, IsStreaming, lifeVars
<1>2. Hand = <<>> /\ Hand' = <<>> /\ QueuedIn(transcript') = <<>> /\ Elems(<<>>) = {}
  BY <1>1, QueuedInEmpty DEF Hand, Elems
<1>3. PICK L : L = Elems(QueuedIn(transcript)) \cup UNION {Elems(queue[q]) : q \in Boxes}
  OBVIOUS
<1>4. \A m : Within(queue, Hand, QueuedIn(transcript), m) <=> m \in L
  BY <1>2, <1>3 DEF Within
<1>5. \A m : ~ Within(queue', Hand', QueuedIn(transcript'), m)
  BY <1>1, <1>2 DEF Within
<1>6. Gone' = Gone \cup (L \cap Sent)
  BY <1>1, <1>4, <1>5, GoneNext
<1>7. L \subseteq Sent
  <2>1. Elems(QueuedIn(transcript)) \subseteq Msgs
    <3>1. QueuedIn(transcript) \in Seq(Msgs)
      BY QueuedInElems DEF TypeOK
    <3>. QED BY <3>1, LenProperties, ElementOfSeq DEF Elems
  <2>2. \A q \in Boxes : Elems(queue[q]) \subseteq Msgs
    <3>1. \A q \in Boxes : queue[q] \in Seq(Msgs)
      BY DEF TypeOK
    <3>. QED BY <3>1, LenProperties, ElementOfSeq DEF Elems
  <2>. QED BY <1>3, <2>1, <2>2, Distinct
<1>8. Gone' = Gone \cup Mailbox!Elems(QueuedIn(transcript)) \cup UNION {Mailbox!Elems(queue[q]) : q \in Boxes}
  <2>1. Gone' = Gone \cup L
    BY <1>6, <1>7
  <2>. QED BY <1>3, <2>1 DEF Elems, Mailbox!Elems
<1>9. Mailbox!Reset
  BY <1>1, <1>2, <1>8 DEF Mailbox!Reset
<1>. QED BY <1>9 DEF Mailbox!Next

-----------------------------------------------------------------------------
LEMMA Items ==
  ASSUME NEW s \in Seq(Msgs)
  PROVE  /\ AsMessages(s) \in Seq(Message) /\ Len(AsMessages(s)) = Len(s) /\ Len(s) \in Nat
         /\ \A i \in 1 .. Len(s) : AsMessages(s)[i] = Queued(s[i])
<1>1. DOMAIN AsMessages(s) = DOMAIN s /\ DOMAIN s = 1 .. Len(s) /\ Len(s) \in Nat
  BY LenProperties DEF AsMessages
<1>2. \A i \in 1 .. Len(s) : Queued(s[i]) \in Message /\ AsMessages(s)[i] = Queued(s[i])
  BY <1>1, ElementOfSeq DEF Message, Queued, AsMessages
<1>3. AsMessages(s) \in [1 .. Len(s) -> Message]
  BY <1>1, <1>2 DEF AsMessages
<1>4. AsMessages(s) \in Seq(Message)
  BY <1>1, <1>3, SeqDef
<1>. QED BY <1>1, <1>2, <1>4, LenProperties

LEMMA ItemsTail ==
  ASSUME NEW s \in Seq(Msgs), AsMessages(s) # <<>>
  PROVE  /\ s # <<>> /\ Head(s) \in Msgs /\ Tail(s) \in Seq(Msgs)
         /\ Head(AsMessages(s)) = Queued(Head(s)) /\ Tail(AsMessages(s)) = AsMessages(Tail(s))
<1>1. PICK t : t = AsMessages(s)
  OBVIOUS
<1>2. /\ t \in Seq(Message) /\ t # <<>> /\ Len(t) = Len(s) /\ Len(s) \in Nat
      /\ \A i \in 1 .. Len(s) : t[i] = Queued(s[i])
  BY <1>1, Items
<1>3. s # <<>>
  BY <1>2
<1>4. PICK u \in Seq(Msgs) : u = Tail(s)
  BY <1>3, HeadTailProperties
<1>5. /\ Len(s) >= 1 /\ Head(s) = s[1] /\ Head(s) \in Msgs /\ Len(u) = Len(s) - 1
      /\ \A i \in 1 .. Len(s) - 1 : u[i] = s[i + 1]
  BY <1>2, <1>3, <1>4, HeadTailProperties
<1>6. Head(t) = Queued(Head(s))
  BY <1>2, <1>5
<1>7. PICK v \in Seq(Message) : v = Tail(t)
  BY <1>2, HeadTailProperties
<1>8. Len(v) = Len(s) - 1 /\ \A i \in 1 .. Len(s) - 1 : v[i] = t[i + 1]
  BY <1>2, <1>7, HeadTailProperties
<1>9. PICK w \in Seq(Message) : w = AsMessages(u)
  BY Items
<1>10. Len(w) = Len(s) - 1 /\ \A i \in 1 .. Len(s) - 1 : w[i] = Queued(u[i])
  BY <1>5, <1>9, Items
<1>11. \A i \in 1 .. Len(s) - 1 : v[i] = w[i]
  <2>1. TAKE i \in 1 .. Len(s) - 1
  <2>2. i + 1 \in 1 .. Len(s)
    BY <1>2
  <2>. QED BY <1>2, <1>5, <1>8, <1>10, <2>2
<1>12. v = w
  BY <1>8, <1>10, <1>11, SeqEqual
<1>. QED BY <1>1, <1>3, <1>4, <1>5, <1>6, <1>7, <1>9, <1>12

LEMMA NoItems ==
  /\ <<>> \in Seq(Msgs) /\ AsMessages(<<>>) = <<>>
  /\ \A r \in Runs : QueuedIn(<<Prompt(r)>>) = <<>> /\ Tail(<<Prompt(r)>>) = <<>>
                        /\ Head(<<Prompt(r)>>) = Prompt(r)
<1>1. AsMessages(<<>>) = <<>>
  BY DEF AsMessages
<1>2. ASSUME NEW r \in Runs PROVE QueuedIn(<<Prompt(r)>>) = <<>>
  <2>1. Prompt(r).role # "queued"
    BY DEF Prompt
  <2>2. <<>> \in Seq(Message) /\ Append(<<>>, Prompt(r)) = <<Prompt(r)>>
    OBVIOUS
  <2>. QED BY <2>1, <2>2, QueuedInAppend, QueuedInEmpty
<1>. QED BY <1>1, <1>2

LEMMA WritersHold ==
  /\ TypeOK /\ SingleWriter /\ HandInv => OneHand
  /\ (TypeOK /\ SingleWriter /\ HandInv => OneHand)'
  BY DEF TypeOK, SingleWriter, HandInv, OneHand, Holding, LoopPcs

(* A loop step belongs to the active run and leaves it active, or returns with empty hands. *)
LEMMA LoopActive ==
  ASSUME TypeOK, HandInv, SingleWriter, NEW r \in Runs, LoopStep(r)
  PROVE  /\ active = r
         /\ \/ active' = active
            \/ active' = 0 /\ inbox[r] = <<>> /\ UNCHANGED <<queue, inbox, transcript>>
<1>1. CASE Return(r)
  BY <1>1 DEF Return, boxVars, HandInv, Holding
<1>2. CASE ~ Return(r)
  <2>1. pc[r] # "ended" /\ active' = active
    <3> USE DEF lifeVars, allButPc
    <3>1. CASE EmitStart(r) \/ KeepInbox(r) \/ Announce(r) \/ Request(r) \/ CallProvider(r)
      BY <3>1 DEF EmitStart, KeepInbox, Announce, Request, CallProvider
    <3>2. CASE EmitPrompt(r) \/ TurnTop(r) \/ Inject(r) \/ Partial(r)
      BY <3>2 DEF EmitPrompt, TurnTop, Inject, Partial
    <3>3. CASE InitialDrain(r) \/ Redrain(r) \/ TakeFollowUp(r) \/ \E more \in BOOLEAN : Decide(r, more)
      BY <3>3 DEF InitialDrain, Redrain, TakeFollowUp, Decide, DrainInto
    <3>4. CASE \E s \in Outcomes, n \in 0 .. MaxCalls : Finish(r, s, n)
      BY <3>4 DEF Finish
    <3>5. CASE StreamBreaks(r) \/ BatchFails(r) \/ StopAfterTurn(r) \/ Close(r)
      BY <3>5 DEF StreamBreaks, BatchFails, StopAfterTurn, Close
    <3>6. CASE AppendResult(r) \/ NextCall(r) \/ EndTurn(r)
      BY <3>6 DEF AppendResult, NextCall, EndTurn
    <3>7. CASE Fail(r) \/ OutsideRun(r)
      BY <3>7 DEF Fail, OutsideRun, NextStepEmits
    <3>. QED BY <1>2, <3>1, <3>2, <3>3, <3>4, <3>5, <3>6, <3>7 DEF LoopStep
  <2>2. pc[r] \in LoopPcs
    BY <2>1, LoopFrame
  <2>. QED BY <2>1, <2>2 DEF SingleWriter
<1>. QED BY <1>1, <1>2

LEMMA LoopHold ==
  ASSUME TypeOK, HandInv, HoldInv, NEW r \in Runs, LoopStep(r)
  PROVE  HoldInv'
<1>1. inbox \in [Runs -> Seq(Message)] /\ \A s \in Runs : s # r => inbox'[s] = inbox[s]
  BY LoopFrame DEF TypeOK
<1>2. inbox'[r] = <<Prompt(r)>> \/ \E s \in Seq(Msgs) : inbox'[r] = AsMessages(s)
  <2>1. CASE Quiet(r)
    <3>1. inbox'[r] = inbox[r] \/ inbox'[r] = <<>>
      BY <1>1, <2>1 DEF Quiet
    <3>. QED BY <3>1, NoItems DEF HoldInv
  <2>2. CASE Delivers(r)
    <3>1. inbox'[r] = Tail(inbox[r]) /\ inbox[r] # <<>>
      BY <1>1, <2>2 DEF Delivers
    <3>2. CASE inbox[r] = <<Prompt(r)>>
      BY <3>1, <3>2, NoItems
    <3>3. ASSUME NEW s \in Seq(Msgs), inbox[r] = AsMessages(s) PROVE \E t \in Seq(Msgs) : inbox'[r] = AsMessages(t)
      BY <3>1, <3>3, ItemsTail
    <3>. QED BY <3>2, <3>3 DEF HoldInv
  <2>3. ASSUME NEW q \in Boxes, Takes(r, q) PROVE \E s \in Seq(Msgs) : inbox'[r] = AsMessages(s)
    <3>1. inbox'[r] = AsMessages(Drained(q)) \/ inbox'[r] = <<>>
      BY <1>1, <2>3 DEF Takes
    <3>. QED BY <3>1, DrainTypes, NoItems
  <2>. QED BY <2>1, <2>2, <2>3, LoopEffects
<1>. QED BY <1>1, <1>2 DEF HoldInv

LEMMA CallHold ==
  ASSUME TypeOK, HandInv, HoldInv, CallStep
  PROVE  HoldInv'
<1>1. inbox \in [Runs -> Seq(Message)]
  BY DEF TypeOK
<1>2. CASE inbox' = inbox
  BY <1>2 DEF HoldInv
<1>3. ASSUME NEW r \in Runs, Starts(r) PROVE HoldInv'
  <2>1. \A s \in Runs : s # r => inbox'[s] = inbox[s]
    BY <1>1, <1>3 DEF Starts
  <2>2. inbox'[r] = <<Prompt(r)>> \/ inbox'[r] = <<>>
    BY <1>1, <1>3 DEF Starts
  <2>. QED BY <2>1, <2>2, NoItems DEF HoldInv
<1>4. ASSUME NEW r \in Runs, NEW q \in Boxes, Takes(r, q) PROVE HoldInv'
  <2>1. \A s \in Runs : s # r => inbox'[s] = inbox[s]
    BY <1>1, <1>4 DEF Takes
  <2>2. inbox'[r] = AsMessages(Drained(q)) \/ inbox'[r] = <<>>
    BY <1>1, <1>4 DEF Takes
  <2>. QED BY <2>1, <2>2, DrainTypes, NoItems DEF HoldInv
<1>5. \A q \in Boxes, n \in Msgs : Push(q, n) => inbox' = inbox
  BY DEF Push, loopVars
<1>6. Reset => inbox' = inbox
  BY DEF Reset, loopVars
<1>. QED BY <1>2, <1>3, <1>4, <1>5, <1>6, CallEffects DEF CallEffect, Clears, Refuses

(* Each step of a loop is a step of the mailbox or of no concern to it. *)
LEMMA LoopMail ==
  ASSUME TypeOK, TypeOK', HandInv, OnceInv, HoldInv, SingleWriter, OneHand, OneHand',
         NEW r \in Runs, LoopStep(r)
  PROVE  [Mailbox!Next]_(Mailbox!vars)
<1>1. pushed' = pushed /\ active = r /\ r # 0
  BY LoopFrame, LoopActive, RunsAreNat
<1>2. Hand = QueuedIn(inbox[r])
  BY <1>1 DEF Hand
<1>3. transcript \in Seq(Message) /\ inbox \in [Runs -> Seq(Message)] /\ inbox[r] \in Seq(Message)
  BY DEF TypeOK
<1>4. CASE active' = 0 /\ inbox[r] = <<>> /\ UNCHANGED <<queue, inbox, transcript>>
  <2>1. Hand = <<>> /\ Hand' = <<>>
    BY <1>2, <1>4, QueuedInEmpty DEF Hand
  <2>. QED BY <1>1, <1>4, <2>1, NothingHappens
<1>5. CASE active' = active
  <2>1. Hand' = QueuedIn(inbox'[r])
    BY <1>1, <1>5 DEF Hand
  <2>2. CASE Quiet(r)
    <3>1. Delivered' = Delivered
      <4>1. ASSUME NEW x, x.role \in {"assistant", "toolResult"}, transcript' = Append(transcript, x)
            PROVE  QueuedIn(transcript') = QueuedIn(transcript)
        <5>1. x.role # "queued"
          BY <4>1
        <5>. QED BY <1>3, <4>1, <5>1, QueuedInAppend
      <4>. QED BY <2>2, <4>1 DEF Quiet, Delivered
    <3>2. queue' = queue /\ (inbox'[r] = inbox[r] \/ inbox'[r] = <<>>)
      BY <1>3, <2>2 DEF Quiet
    <3>3. CASE inbox'[r] = inbox[r]
      BY <1>1, <1>2, <2>1, <3>1, <3>2, <3>3, NothingHappens DEF Delivered
    <3>4. CASE inbox'[r] = <<>>
      <4>1. Hand' = <<>> /\ Hand \in Seq(Msgs)
        BY <1>2, <1>3, <2>1, <3>4, QueuedInEmpty, QueuedInElems
      <4>. QED BY <1>1, <3>1, <3>2, <4>1, LoseHandStep
    <3>. QED BY <3>2, <3>3, <3>4
  <2>3. CASE Delivers(r)
    <3>1. /\ inbox[r] # <<>> /\ queue' = queue /\ inbox'[r] = Tail(inbox[r])
          /\ transcript' = Append(transcript, Head(inbox[r]))
      BY <1>3, <2>3 DEF Delivers
    <3>2. CASE inbox[r] = <<Prompt(r)>>
      <4>1. Head(inbox[r]).role # "queued" /\ inbox'[r] = <<>>
        BY <3>1, <3>2, NoItems DEF Prompt
      <4>2. QueuedIn(transcript') = QueuedIn(transcript)
        BY <1>3, <3>1, <4>1, QueuedInAppend
      <4>3. Hand = <<>> /\ Hand' = <<>>
        BY <1>2, <2>1, <3>2, <4>1, NoItems, QueuedInEmpty
      <4>. QED BY <1>1, <3>1, <4>2, <4>3, NothingHappens
    <3>3. ASSUME NEW s \in Seq(Msgs), inbox[r] = AsMessages(s) PROVE Mailbox!Next
      <4>1. /\ s # <<>> /\ Head(s) \in Msgs /\ Tail(s) \in Seq(Msgs)
            /\ Head(inbox[r]) = Queued(Head(s)) /\ inbox'[r] = AsMessages(Tail(s))
        BY <3>1, <3>3, ItemsTail
      <4>2. Hand = s /\ Hand' = Tail(s)
        BY <1>2, <2>1, <3>3, <4>1, QueuedInItems
      <4>3. Queued(Head(s)).role = "queued" /\ Queued(Head(s)).msg = Head(s)
        BY DEF Queued
      <4>4. Delivered' = Append(Delivered, Head(Hand)) /\ Delivered \in Seq(Msgs)
        BY <1>3, <3>1, <4>1, <4>2, <4>3, QueuedInAppend, QueuedInElems DEF Delivered
      <4>. QED BY <1>1, <3>1, <4>1, <4>2, <4>4, DeliverStep
    <3>. QED BY <3>2, <3>3 DEF HoldInv
  <2>4. ASSUME NEW q \in Boxes, Takes(r, q) PROVE [Mailbox!Next]_(Mailbox!vars)
    <3>1. /\ queue' = [queue EXCEPT ![q] = Remaining(q)] /\ Delivered' = Delivered
          /\ Hand = <<>> /\ (inbox'[r] = AsMessages(Drained(q)) \/ inbox'[r] = <<>>)
      BY <1>2, <1>3, <2>4, QueuedInEmpty DEF Takes, Delivered
    <3>2. CASE inbox'[r] = AsMessages(Drained(q))
      <4>1. Hand' = Drained(q)
        BY <2>1, <3>2, DrainTypes, QueuedInItems
      <4>. QED BY <1>1, <3>1, <4>1, GrabStep
    <3>3. CASE inbox'[r] = <<>>
      <4>1. Hand' = Hand
        BY <2>1, <3>1, <3>3, QueuedInEmpty
      <4>. QED BY <1>1, <3>1, <4>1, LoseStep
    <3>. QED BY <3>1, <3>2, <3>3
  <2>. QED BY <2>2, <2>3, <2>4, LoopEffects
<1>. QED BY <1>4, <1>5, LoopActive

(* So is each call, if it does not cancel a caller. *)
LEMMA CallMail ==
  ASSUME TypeOK, TypeOK', HandInv, OnceInv, OneHand, OneHand', ~ CallerMayCancel, CallStep
  PROVE  [Mailbox!Next]_(Mailbox!vars)
<1> USE DEF stateVars, lifeVars, loopVars, historyVars, boxVars
<1>1. ASSUME NEW q \in Boxes, NEW m \in Msgs, Push(q, m) PROVE Mailbox!Next
  BY <1>1, PushStep
<1>2. ASSUME NEW q \in Boxes, ClearQueue(q) PROVE Mailbox!Next
  <2>1. /\ queue[q] # <<>> /\ queue' = [queue EXCEPT ![q] = <<>>] /\ pushed' = pushed
        /\ UNCHANGED <<active, inbox, transcript>>
    BY <1>2 DEF ClearQueue
  <2>2. Hand' = Hand /\ Delivered' = Delivered
    BY <2>1 DEF Hand, Delivered
  <2>. QED BY <2>1, <2>2, ClearStep
<1>3. ASSUME UNCHANGED <<queue, active, inbox, transcript, pushed>> PROVE UNCHANGED Mailbox!vars
  <2>1. Hand' = Hand
    BY <1>3 DEF Hand
  <2>. QED BY <1>3, <2>1, NothingHappens
<1>4. CASE Abort \/ \E q \in Boxes : SetMode(q)
  BY <1>3, <1>4 DEF Abort, SetMode
<1>5. CASE Reset
  BY <1>5, ResetStep
<1>6. ASSUME NEW r \in Runs, NEW prompts, StartRun(r, prompts)
      PROVE  Hand = <<>> /\ Hand' = QueuedIn(prompts) /\ Delivered' = Delivered /\ pushed' = pushed
  <2>1. active = 0 /\ active' = r /\ r # 0 /\ inbox'[r] = prompts /\ UNCHANGED <<transcript, pushed>>
    BY <1>6, StartFrame, RunsAreNat
  <2>. QED BY <2>1 DEF Hand, Delivered
<1>7. ASSUME NEW r \in Runs, PromptCall(r) PROVE [Mailbox!Next]_(Mailbox!vars)
  <2>1. StartRun(r, <<Prompt(r)>>) /\ queue' = queue
    BY <1>7 DEF PromptCall
  <2>2. Hand = <<>> /\ Hand' = <<>> /\ Delivered' = Delivered /\ pushed' = pushed
    BY <1>6, <2>1, NoItems
  <2>. QED BY <2>1, <2>2, NothingHappens DEF Delivered
<1>8. PICK q \in Boxes : q = ContinueBox
  BY DEF ContinueBox, Boxes
<1>9. ASSUME NEW r \in Runs, ContinueCall(r) PROVE [Mailbox!Next]_(Mailbox!vars)
  <2>1. CASE StartRun(r, <<>>) /\ queue' = queue
    <3>1. Hand = <<>> /\ Hand' = <<>> /\ Delivered' = Delivered /\ pushed' = pushed
      BY <1>6, <2>1, QueuedInEmpty
    <3>. QED BY <2>1, <3>1, NothingHappens DEF Delivered
  <2>2. CASE StartRun(r, AsMessages(Drained(q))) /\ queue' = [queue EXCEPT ![q] = Remaining(q)]
    <3>1. /\ Hand = <<>> /\ Hand' = QueuedIn(AsMessages(Drained(q))) /\ Delivered' = Delivered
          /\ pushed' = pushed
      BY <1>6, <2>2
    <3>2. Hand' = Drained(q)
      BY <3>1, DrainTypes, QueuedInItems
    <3>. QED BY <2>2, <3>1, <3>2, GrabStep
  <2>. QED BY <1>8, <1>9, <2>1, <2>2 DEF ContinueCall
<1>10. CASE ContinueRefused
  <2>1. /\ queue' = [queue EXCEPT ![q] = Remaining(q)] /\ pushed' = pushed
        /\ UNCHANGED <<active, inbox, transcript>>
    BY <1>8, <1>10 DEF ContinueRefused
  <2>2. Hand' = Hand /\ Delivered' = Delivered
    BY <2>1 DEF Hand, Delivered
  <2>. QED BY <2>1, <2>2, LoseStep
<1>11. ~ CancelCaller
  BY DEF CancelCaller
<1>. QED BY <1>1, <1>2, <1>4, <1>5, <1>7, <1>9, <1>10, <1>11 DEF CallStep

(* Where no caller is cancelled the Agent is a MessageDelivery: whatever hooks, external queues
   and providers do, however calls and loop interleave, a message leaves its queue from the
   front, by one task at a time, reaches the transcript in the order in which it was taken, and
   is gone only if it was cleared, if its run failed with it or if a drain or a refused
   continue_run() dropped it (agent.py's queues, the drains and injections of agent_loop.py). *)
THEOREM DeliversLikeMailbox ==
  ASSUME ~ CallerMayCancel
  PROVE  Spec => ImplementsMailbox
<1> DEFINE Inv == TypeOK /\ HandInv /\ OnceInv /\ HoldInv
<1>1. Init => HandInv /\ OnceInv /\ HoldInv
  <2>1. Init => HoldInv
    BY NoItems DEF Init, HoldInv
  <2>. QED BY <2>1, InitOnce
<1>2. TypeOK /\ HandInv /\ OnceInv /\ HoldInv /\ [Next]_vars => (HandInv /\ OnceInv /\ HoldInv)'
  <2> SUFFICES ASSUME TypeOK, HandInv, OnceInv, HoldInv, [Next]_vars PROVE HandInv' /\ OnceInv' /\ HoldInv'
    OBVIOUS
  <2>1. HoldInv'
    <3>1. CASE UNCHANGED vars
      BY <3>1 DEF vars, loopVars, HoldInv
    <3>. QED BY <3>1, CallHold, LoopHold DEF Next
  <2>. QED BY <2>1, NextOnce
<1>3. Init => Mailbox!Init
  <2> SUFFICES ASSUME Init PROVE Mailbox!Init
    OBVIOUS
  <2>1. Hand = <<>> /\ QueuedIn(transcript) = <<>>
    BY QueuedInEmpty DEF Init, Hand
  <2>2. Sent = {}
    <3>1. pushed["steering"] = <<>> /\ pushed["followUp"] = <<>> /\ Elems(<<>>) = {}
      BY DEF Init, Boxes, Elems
    <3>. QED BY <3>1 DEF Sent
  <2>3. Gone = {}
    BY <2>2 DEF Gone
  <2>. QED BY <2>1, <2>3 DEF Init, Mailbox!Init
<1>4. TypeOK /\ TypeOK' /\ HandInv /\ HandInv' /\ OnceInv /\ HoldInv /\ SingleWriter /\ SingleWriter'
        /\ [Next]_vars => [Mailbox!Next]_(Mailbox!vars)
  <2> SUFFICES ASSUME TypeOK, TypeOK', HandInv, HandInv', OnceInv, HoldInv, SingleWriter, SingleWriter',
                      [Next]_vars
               PROVE  [Mailbox!Next]_(Mailbox!vars)
    OBVIOUS
  <2>1. OneHand /\ OneHand'
    BY WritersHold
  <2>2. CASE UNCHANGED vars
    <3>1. UNCHANGED <<queue, active, inbox, transcript, pushed>>
      BY <2>2 DEF vars, boxVars, stateVars, lifeVars, loopVars, historyVars
    <3>2. Hand' = Hand
      BY <3>1 DEF Hand
    <3>. QED BY <2>1, <3>1, <3>2, NothingHappens
  <2>. QED BY <2>1, <2>2, CallMail, LoopMail DEF Next
<1>5. Spec => []SingleWriter
  BY OneWriter, PTL
<1>. QED BY <1>1, <1>2, <1>3, <1>4, <1>5, TypeCorrect, PTL DEF Spec, ImplementsMailbox, Mailbox!Spec
=============================================================================
