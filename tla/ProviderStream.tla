--------------------------- MODULE ProviderStream ---------------------------
(***************************************************************************)
(* One request to an OpenAI-compatible provider: the task                  *)
(* OpenAICompatibleProvider._run with its attempts (_run_once), the delay  *)
(* between them (ai/retry.py) and the classification of errors             *)
(* (ai/errors.py).  The HTTP service and the user's hooks are the choices  *)
(* of the actions.                                                         *)
(*                                                                         *)
(* Every event that the code pushes is a step of its own.  A choice of the *)
(* response with several deltas is as many chunks.                         *)
(***************************************************************************)
EXTENDS Naturals, Sequences

CONSTANTS
    MaxRetries,     \* options.max_retries
    Base, Maximum,  \* options.retry_base_delay, options.max_retry_delay
    Delays,         \* what servers may ask for in retry-after
    ToolIndices,    \* provider indices of the tool calls of a response
    MaxChunks       \* bound: deltas of one response

ASSUME RetriesAssumption == MaxRetries \in Nat /\ MaxChunks \in Nat
ASSUME DelaysAssumption == Base \in Nat /\ Maximum \in Nat /\ Delays \subseteq Nat
ASSUME IndicesAssumption == ToolIndices \subseteq Nat

VARIABLES
    pc, attempt, cancelled, \* control, attempt, the signal
    started, blocks,        \* _run_once: started, partial.content
    chunks, finish,         \* _run_once: deltas so far, finish_reason
    error,                  \* the exception that unwinds or is handled
    delay,                  \* of the sleep before the next attempt
    terminal,               \* the terminal event pushed
    starts                  \* history: start events pushed

localVars == <<started, blocks, chunks, finish>>
vars == <<pc, attempt, cancelled, localVars, error, delay, terminal, starts>>

(* The kinds of blocks, in the order in which they are ended. *)
Text == 0
Thinking == 1
Tool(i) == 2 + i
Tools == {Tool(i) : i \in ToolIndices}
Kinds == {Text, Thinking} \cup Tools

NoDelay == [requested |-> FALSE, seconds |-> 0]
RetryAfter(d) == [requested |-> TRUE, seconds |-> d]
Requests == {NoDelay} \cup {RetryAfter(d) : d \in Delays}

NoError == [kind |-> "none", retryable |-> FALSE, after |-> NoDelay, started |-> FALSE]
Failure(r, a) == [kind |-> "error", retryable |-> r, after |-> a, started |-> started]
Aborted == [kind |-> "aborted", retryable |-> FALSE, after |-> NoDelay, started |-> FALSE]

Block(k, open) == [kind |-> k, open |-> open]
HasBlock(k) == \E i \in DOMAIN blocks : blocks[i].kind = k
Open == {i \in DOMAIN blocks : blocks[i].open}

Goto(l) == pc' = l

Init ==
    /\ pc = "attempt" /\ attempt = 0 /\ cancelled = FALSE
    /\ started = FALSE /\ blocks = <<>> /\ chunks = 0 /\ finish = "none"
    /\ error = NoError /\ delay = 0 /\ terminal = "none" /\ starts = 0

-----------------------------------------------------------------------------
Cancel ==
    /\ ~ cancelled /\ pc # "ended"
    /\ cancelled' = TRUE
    /\ UNCHANGED <<pc, attempt, localVars, error, delay, terminal, starts>>

(* _run_once is left by an exception; its finally clause closes the iterator first. *)
Raise(e) ==
    /\ error' = e
    /\ Goto("unwinding")

(* The top of _run_once. *)
Begin ==
    /\ pc = "attempt"
    /\ IF cancelled THEN Raise(Aborted) ELSE Goto("building") /\ UNCHANGED error
    /\ started' = FALSE /\ blocks' = <<>> /\ chunks' = 0 /\ finish' = "none"
    /\ UNCHANGED <<attempt, cancelled, delay, terminal, starts>>

(* _build_request: the base URL may be missing, on_payload may raise. *)
Build ==
    /\ pc = "building"
    /\ \/ Goto("opening") /\ UNCHANGED error
       \/ Raise(Failure(FALSE, NoDelay))
    /\ UNCHANGED <<attempt, cancelled, localVars, delay, terminal, starts>>

(* _open: an HTTP status with or without a retry-after header, or no connection; on_response
   may raise, and the first line may be late. *)
OpenFails ==
    /\ pc = "opening"
    /\ \E r \in BOOLEAN, a \in Requests : Raise(Failure(r, a))
    /\ UNCHANGED <<attempt, cancelled, localVars, delay, terminal, starts>>

(* _next_line returns a line with a payload. *)
Read ==
    /\ pc \in {"opening", "reading"} /\ ~ cancelled
    /\ chunks < MaxChunks
    /\ chunks' = chunks + 1
    /\ Goto(IF started THEN "chunk" ELSE "start")
    /\ UNCHANGED <<attempt, cancelled, started, blocks, finish, error, delay, terminal, starts>>

(* The line is [DONE], or there are no more, which is not told apart. *)
ReadEnd ==
    /\ pc \in {"opening", "reading"}
    /\ Goto(IF started THEN "finishing" ELSE "lateStart")
    /\ UNCHANGED <<attempt, cancelled, localVars, error, delay, terminal, starts>>

(* The connection breaks, the stream is idle too long, the payload is an error or no JSON. *)
ReadFails ==
    /\ pc = "reading" \/ pc = "chunk"
    /\ \E r \in BOOLEAN : Raise(Failure(r, NoDelay))
    /\ UNCHANGED <<attempt, cancelled, localVars, delay, terminal, starts>>

(* The cancellation is noticed by _next_line, or by the test after it. *)
ReadCancelled ==
    /\ pc \in {"opening", "reading"} /\ cancelled
    /\ Raise(Aborted)
    /\ UNCHANGED <<attempt, cancelled, localVars, delay, terminal, starts>>

-----------------------------------------------------------------------------
(* Events. *)

PushStart ==
    /\ pc \in {"start", "lateStart"}
    /\ started' = TRUE
    /\ starts' = starts + 1
    /\ Goto(IF pc = "start" THEN "chunk" ELSE "finishing")
    /\ UNCHANGED <<attempt, cancelled, blocks, chunks, finish, error, delay, terminal>>

(* The chunk has no delta, or a finish reason. *)
SkipChunk ==
    /\ pc = "chunk"
    /\ \E f \in {finish, "stop", "toolUse", "length"} : finish' = f
    /\ Goto("reading")
    /\ UNCHANGED <<attempt, cancelled, started, blocks, chunks, error, delay, terminal, starts>>

(* The first delta of a kind starts a block at the end of the content, and every further
   one extends that block, wherever it is. *)
StartBlock(k) ==
    /\ pc = "chunk" /\ ~ HasBlock(k)
    /\ blocks' = Append(blocks, Block(k, TRUE))
    /\ Goto("reading")
    /\ UNCHANGED <<attempt, cancelled, started, chunks, finish, error, delay, terminal, starts>>

Delta(k) ==
    /\ pc = "chunk" /\ HasBlock(k)
    /\ Goto("reading")
    /\ UNCHANGED <<attempt, cancelled, localVars, error, delay, terminal, starts>>

(* End events: the text, the thinking, then the tool calls by provider index. *)
NextToEnd == CHOOSE i \in Open : \A j \in Open : blocks[i].kind <= blocks[j].kind

EndBlock ==
    /\ pc = "finishing" /\ Open # {}
    /\ blocks' = [blocks EXCEPT ![NextToEnd].open = FALSE]
    /\ UNCHANGED <<pc, attempt, cancelled, started, chunks, finish, error, delay, terminal, starts>>

(* The arguments of a tool call are not an object. *)
EndBlockFails ==
    /\ pc = "finishing" /\ Open # {}
    /\ blocks[NextToEnd].kind \in Tools
    /\ Raise(Failure(FALSE, NoDelay))
    /\ UNCHANGED <<attempt, cancelled, localVars, delay, terminal, starts>>

(* _map_finish_reason *)
StopReason ==
    IF finish # "none" THEN finish
    ELSE IF \E k \in Tools : HasBlock(k) THEN "toolUse" ELSE "stop"

(* Variants with a mistake in them.  No specification uses them: the checks put each one in
   the place of the definition it resembles, to see that a property notices. *)

(* The delay is cut to the maximum, whatever the server asked for. *)
NeverExcessive(e) == FALSE

(* The task ends without a word when it is cancelled. *)
LeaveSilently ==
    /\ pc = "handling" /\ error.kind = "aborted"
    /\ Goto("ended")
    /\ UNCHANGED <<attempt, cancelled, localVars, error, delay, terminal, starts>>

PushDone ==
    /\ pc = "finishing" /\ Open = {}
    /\ IF cancelled
       THEN Raise(Aborted) /\ UNCHANGED terminal
       ELSE terminal' = StopReason /\ Goto("unwinding") /\ UNCHANGED error
    /\ UNCHANGED <<attempt, cancelled, localVars, delay, starts>>

-----------------------------------------------------------------------------
(* The finally clause of _run_once.  If closing the iterator raises, that exception takes the
   place of the other one. *)
CloseFailure == [Failure(FALSE, NoDelay) EXCEPT !.started = FALSE]

Unwind ==
    /\ pc = "unwinding"
    /\ \/ /\ Goto(IF error = NoError THEN "ended" ELSE "handling")
          /\ UNCHANGED error
       \/ /\ error' = CloseFailure
          /\ Goto("handling")
    /\ UNCHANGED <<attempt, cancelled, localVars, delay, terminal, starts>>

(* push() of a terminal event: ignored when there has been one. *)
PushTerminal(t) ==
    /\ terminal' = IF terminal = "none" THEN t ELSE terminal
    /\ Goto("ended")

HandleAborted ==
    /\ pc = "handling" /\ error.kind = "aborted"
    /\ PushTerminal("aborted")
    /\ UNCHANGED <<attempt, cancelled, localVars, error, delay, starts>>

MayRetry(e) == e.retryable /\ ~ e.started /\ attempt < MaxRetries

(* retry_delay raises when the server asks for more than the maximum; 0 is no maximum. *)
Excessive(e) == e.after.requested /\ Maximum > 0 /\ e.after.seconds > Maximum

Backoff == IF Maximum > 0 /\ Base * 2 ^ attempt > Maximum THEN Maximum ELSE Base * 2 ^ attempt

GiveUp ==
    /\ pc = "handling" /\ error.kind = "error"
    /\ ~ MayRetry(error) \/ Excessive(error)
    /\ PushTerminal("error")
    /\ UNCHANGED <<attempt, cancelled, localVars, error, delay, starts>>

Retry ==
    /\ pc = "handling" /\ error.kind = "error"
    /\ MayRetry(error) /\ ~ Excessive(error)
    /\ delay' = IF error.after.requested THEN error.after.seconds ELSE Backoff
    /\ Goto("sleeping")
    /\ UNCHANGED <<attempt, cancelled, localVars, error, terminal, starts>>

(* sleep_with_cancellation *)
Wake ==
    /\ pc = "sleeping"
    /\ attempt' = attempt + 1
    /\ error' = NoError
    /\ Goto("attempt")
    /\ UNCHANGED <<cancelled, localVars, delay, terminal, starts>>

SleepCancelled ==
    /\ pc = "sleeping" /\ cancelled
    /\ error' = Aborted
    /\ Goto("handling")
    /\ UNCHANGED <<attempt, cancelled, localVars, delay, terminal, starts>>

-----------------------------------------------------------------------------
Step ==
    \/ Begin \/ Build \/ OpenFails \/ Read \/ ReadEnd \/ ReadFails \/ ReadCancelled
    \/ PushStart \/ SkipChunk \/ \E k \in Kinds : StartBlock(k) \/ Delta(k)
    \/ EndBlock \/ EndBlockFails \/ PushDone
    \/ Unwind \/ HandleAborted \/ GiveUp \/ Retry \/ Wake \/ SleepCancelled

Next == Cancel \/ Step

Spec == Init /\ [][Next]_vars

(* The task is never left waiting: lines arrive, end or are timed out, sleeps end. *)
FairSpec == Spec /\ WF_vars(Step)

-----------------------------------------------------------------------------
(* Properties *)

(* "A Provider failure after streaming begins must not be retried and duplicated"
   (docs/audit/phase-8-12-evidence.md:73), and no retry outruns what the server asks for or
   what the user allows: whenever the task sleeps, nothing has been pushed, an attempt is
   left and the delay is within both limits. *)
RetryDiscipline ==
    pc = "sleeping" =>
        /\ starts = 0 /\ blocks = <<>> /\ terminal = "none"
        /\ attempt < MaxRetries
        /\ Maximum > 0 => delay <= Maximum
        /\ error.after.requested => delay = error.after.seconds

Protocol == INSTANCE StreamProtocol WITH
    MaxBlocks <- 2 + MaxChunks,
    phase <- IF terminal = "none" THEN IF starts = 0 THEN "empty" ELSE "started"
             ELSE IF terminal \in {"error", "aborted"} THEN terminal ELSE "done"

(* Across all its attempts the provider pushes one well-formed message, and ends it: it never
   throws, whatever hooks, transport, parsing and closing do
   (test_openai_compatible.py:216). *)
KeepsProtocol == Protocol!Spec
=============================================================================
