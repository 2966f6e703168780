--------------------------- MODULE SessionCompaction ---------------------------
(***************************************************************************)
(* Compaction of a session: compact_session and compact (compaction.py),   *)
(* CompactionController (controller.py), AgentSession.compact and the call *)
(* from _prepare_next_turn, over the active path of the session, which     *)
(* reconstruct_context (session/context.py) turns into the context of the  *)
(* next request.                                                           *)
(*                                                                         *)
(* A task that compacts is a controller, called by a run between two turns *)
(* and serialised by the controller's lock, or manual, the caller of       *)
(* AgentSession.compact, which takes no lock.                              *)
(***************************************************************************)
EXTENDS Compaction

CONSTANTS
    Controllers, Manuals,   \* the tasks
    None,                   \* nobody holds the lock
    Sizes, SummaryTokens,   \* tokens of messages and of summaries
    Keep, Threshold,        \* settings.keep_recent_tokens, settings.threshold
    MaxAttempts,            \* settings.max_attempts
    MaxEntries,             \* bound: the path grows and compactions start below this length
    Overlap,                \* prompt() may be called while a manual compaction is under way
    Branches                \* the path may hold branch summaries

Workers == Controllers \cup Manuals

ASSUME TasksAssumption == Controllers \cap Manuals = {} /\ None \notin Workers
ASSUME SettingsAssumption ==
    /\ Sizes \subseteq Nat /\ SummaryTokens \in Nat /\ MaxEntries \in Nat
    /\ Keep \in Nat \ {0} /\ Threshold \in Nat \ {0} /\ MaxAttempts \in Nat \ {0}
    /\ Overlap \in BOOLEAN /\ Branches \in BOOLEAN

VARIABLES
    path,                   \* the entries of the active path
    phase, batch,           \* of the run: what it does next, its unanswered calls
    stage, work,            \* per task: control, locals of compact_session and compact
    lock                    \* CompactionController._lock

runVars == <<phase, batch>>
taskVars == <<stage, work, lock>>
compactionVars == <<path, runVars, taskVars>>

(* Entries.  covered is history: the entries whose content went to the summarizer, and with
   them those that the previous summary, which went there too, stood for. *)
PathEntry(type, message) ==
    [type |-> type, message |-> message, kept |-> 0, text |-> "none", covered |-> {}]
Summary(kept, text, covered) ==
    [type |-> "compaction", message |-> User(SummaryTokens),
     kept |-> kept, text |-> text, covered |-> covered]

Positions(p, type) == {i \in DOMAIN p : p[i].type = type}
(* A finite set of positions as a sequence. *)
InOrder(S) ==
    [k \in 1 .. Cardinality(S) |-> CHOOSE i \in S : Cardinality({j \in S : j <= i}) = k]

MessagePositions(p) == InOrder(Positions(p, "message"))
MessagesOf(p) == [i \in DOMAIN MessagePositions(p) |-> p[MessagePositions(p)[i]].message]

(* reconstruct_context: the latest summary and what is on the path from the first entry kept,
   or after the compaction entry if none was kept. *)
LatestCompaction(p) ==
    IF Positions(p, "compaction") = {} THEN 0 ELSE Max(Positions(p, "compaction"))

(* The context starts after the first entry kept. *)
ContextStartsLate(p) ==
    LET latest == LatestCompaction(p)
    IN  IF latest = 0 THEN 1 ELSE IF p[latest].kept = 0 THEN latest + 1 ELSE p[latest].kept + 1

ContextStart(p) ==
    LET latest == LatestCompaction(p)
    IN  IF latest = 0 THEN 1 ELSE IF p[latest].kept = 0 THEN latest + 1 ELSE p[latest].kept

ContextPositions(p) ==
    {i \in ContextStart(p) .. Len(p) : p[i].type \in {"message", "branch"}}

Context(p) ==
    LET recent == SelectSeq(SubSeq(p, ContextStart(p), Len(p)),
                            LAMBDA e : e.type \in {"message", "branch"})
    IN  (IF LatestCompaction(p) = 0 THEN <<>> ELSE <<User(SummaryTokens)>>)
            \o [i \in DOMAIN recent |-> recent[i].message]

ShouldCompact(messages) == ContextTokens(messages) >= Threshold

(* The length of the path that was read, the cut, response and attempts of compact(). *)
NoWork == [seen |-> 0, cut |-> 0, reply |-> "none", attempts |-> 0]

CompactionInit ==
    /\ path = <<>> /\ phase = "idle" /\ batch = {}
    /\ stage = [w \in Workers |-> "idle"]
    /\ work = [w \in Workers |-> NoWork]
    /\ lock = None

-----------------------------------------------------------------------------
(* The run, as far as it writes to the session. *)

Room == Len(path) < MaxEntries
AllIdle(tasks) == \A w \in tasks : stage[w] = "idle"

Add(type, message) == path' = Append(path, PathEntry(type, message))

(* prompt() tests that the agent is not streaming, and not that it is compacting. *)
Prompt ==
    /\ phase = "idle" /\ Room
    /\ Overlap \/ AllIdle(Manuals)
    /\ \E s \in Sizes : Add("message", User(s))
    /\ phase' = "request"
    /\ UNCHANGED <<batch, taskVars>>

(* A provider that reports usage counts the context and its answer. *)
Usage(tokens) == Tokens(Context(path), 0) + tokens
CallIds(n) == {2 * Len(path) + k : k \in 1 .. n}

(* After an answer without calls the run ends, or goes on if messages are queued. *)
Reply ==
    /\ phase = "request" /\ Room
    /\ \E n \in 0 .. 2, s \in Sizes, reported \in BOOLEAN :
        /\ Add("message", Assistant(CallIds(n), s, IF reported THEN Usage(s) ELSE 0))
        /\ batch' = CallIds(n)
        /\ phase' \in IF n = 0 THEN {"idle", "boundary"} ELSE {"tools"}
    /\ UNCHANGED taskVars

Result ==
    /\ phase = "tools" /\ Room
    /\ \E s \in Sizes : Add("message", ToolResult(Min(batch), s))
    /\ batch' = batch \ {Min(batch)}
    /\ phase' = IF Cardinality(batch) = 1 THEN "boundary" ELSE "tools"
    /\ UNCHANGED taskVars

(* The message with which a run that failed or was aborted ends. *)
Report == Room /\ \E s \in Sizes : Add("message", Assistant({}, s, 0))

(* An abort leaves calls of a sequential batch without results. *)
AbortBatch ==
    /\ phase = "tools" /\ Report
    /\ batch' = {} /\ phase' = "idle"
    /\ UNCHANGED taskVars

(* Between two turns, when every call of the controller has returned. *)
Continue ==
    /\ phase = "boundary" /\ \A w \in Controllers : stage[w] = "done"
    /\ stage' = [w \in Workers |-> IF w \in Controllers THEN "idle" ELSE stage[w]]
    /\ phase' = "request"
    /\ \/ UNCHANGED path
       \/ Room /\ \E s \in Sizes : Add("message", User(s))
    /\ UNCHANGED <<batch, work, lock>>

(* What prepare_next_turn raises ends the run. *)
RunFails ==
    /\ phase = "boundary"
    /\ \A w \in Controllers : stage[w] \in {"done", "failed"}
    /\ \E w \in Controllers : stage[w] = "failed"
    /\ stage' = [w \in Workers |-> IF w \in Controllers THEN "idle" ELSE stage[w]]
    /\ phase' = "idle" /\ Report
    /\ UNCHANGED <<batch, work, lock>>

(* navigate_tree back to an entry of the path, with a summary of what is left there or
   without.  Other branches are paths that began the same way. *)
NavigateTree ==
    /\ phase = "idle" /\ AllIdle(Manuals)
    /\ \E leaf \in 0 .. Len(path) - 1 :
        \/ path' = SubSeq(path, 1, leaf)
        \/ /\ Branches /\ leaf > 0
           /\ \E s \in Sizes :
                path' = Append(SubSeq(path, 1, leaf), PathEntry("branch", User(s)))
    /\ UNCHANGED <<runVars, taskVars>>

-----------------------------------------------------------------------------
(* The tasks that compact. *)

Outcome(w, result) == IF w \in Controllers THEN result ELSE "idle"
Release(w) == lock' = IF lock = w THEN None ELSE lock

Abandon(w) ==
    /\ stage' = [stage EXCEPT ![w] = Outcome(w, "failed")]
    /\ work' = [work EXCEPT ![w] = NoWork]
    /\ Release(w)

(* compact_session up to the first await: the messages of the path and their cut.  All of
   them, those before an earlier compaction included. *)
Prepare(w, force) ==
    LET messages == MessagesOf(path)
        c == CutPoint(messages, Keep)
    IN  IF c > 0 /\ (force \/ ShouldCompact(messages))
        THEN /\ stage' = [stage EXCEPT ![w] = "summarising"]
             /\ work' = [work EXCEPT ![w] =
                    [seen |-> Len(path), cut |-> c, reply |-> "none", attempts |-> 1]]
             /\ lock' = IF w \in Controllers THEN w ELSE lock
        ELSE Abandon(w)

(* prepare_next_provider_context *)
Call(w) ==
    /\ w \in Controllers /\ phase = "boundary" /\ stage[w] = "idle"
    /\ stage' = [stage EXCEPT ![w] = IF Room /\ ShouldCompact(Context(path)) THEN "waiting" ELSE "done"]
    /\ UNCHANGED <<path, runVars, work, lock>>

Acquire(w) ==
    /\ w \in Controllers /\ stage[w] = "waiting" /\ lock = None
    /\ IF ShouldCompact(Context(path))
       THEN Prepare(w, FALSE)
       ELSE stage' = [stage EXCEPT ![w] = "done"] /\ UNCHANGED <<work, lock>>
    /\ UNCHANGED <<path, runVars>>

(* AgentSession.compact; it emits an event before compact_session reads the path. *)
CallManual(w) ==
    /\ w \in Manuals /\ phase = "idle" /\ stage[w] = "idle" /\ Room
    /\ \/ stage' = [stage EXCEPT ![w] = "forced"]
       \/ ShouldCompact(Context(path)) /\ stage' = [stage EXCEPT ![w] = "unforced"]
    /\ UNCHANGED <<path, runVars, work, lock>>

StartManual(w) ==
    /\ stage[w] \in {"forced", "unforced"}
    /\ Prepare(w, stage[w] = "forced")
    /\ UNCHANGED <<path, runVars>>

(* The summarizer answers with a text. *)
Summarise(w) ==
    /\ stage[w] = "summarising"
    /\ work' = [work EXCEPT ![w].reply = "text"]
    /\ stage' = [stage EXCEPT ![w] = "finishing"]
    /\ UNCHANGED <<path, runVars, lock>>

(* It raises, or what it returns is blank, which raises as well: but by then the response has
   been set, and stays so for the attempts that follow. *)
Disappoint(w) ==
    /\ stage[w] = "summarising"
    /\ \E r \in {"empty", work[w].reply} :
        IF work[w].attempts < MaxAttempts
        THEN /\ work' = [work EXCEPT ![w].reply = r, ![w].attempts = @ + 1]
             /\ UNCHANGED <<stage, lock>>
        ELSE IF r = "none" THEN Abandon(w)
        ELSE /\ work' = [work EXCEPT ![w].reply = r]
             /\ stage' = [stage EXCEPT ![w] = "finishing"]
             /\ UNCHANGED lock
    /\ UNCHANGED <<path, runVars>>

(* A hook cancels or raises, a listener raises, or the task is cancelled. *)
Interrupt(w) ==
    /\ stage[w] \in {"waiting", "forced", "unforced", "summarising", "finishing"}
    /\ Abandon(w)
    /\ UNCHANGED <<path, runVars>>

Read(w) == MessagePositions(SubSeq(path, 1, work[w].seen))
Given(w) == {Read(w)[i] : i \in 1 .. work[w].cut}

(* The summary before this one, which the summarizer was given as well. *)
Previous(w) == LatestCompaction(SubSeq(path, 1, work[w].seen))

(* first_kept is the entry after the one that should be kept. *)
FirstKeptLate(w) == IF work[w].cut + 1 < Len(Read(w)) THEN Read(w)[work[w].cut + 2] ELSE 0

FirstKept(w) == IF work[w].cut < Len(Read(w)) THEN Read(w)[work[w].cut + 1] ELSE 0

(* append_compaction appends at the leaf, wherever that is by now. *)
Finish(w) ==
    /\ stage[w] = "finishing"
    /\ path' = Append(path,
            Summary(FirstKept(w), work[w].reply,
                    Given(w) \cup IF Previous(w) = 0 THEN {} ELSE path[Previous(w)].covered))
    /\ stage' = [stage EXCEPT ![w] = Outcome(w, "done")]
    /\ work' = [work EXCEPT ![w] = NoWork]
    /\ Release(w)
    /\ UNCHANGED runVars

Step(w) ==
    \/ Call(w) \/ Acquire(w) \/ StartManual(w)
    \/ Summarise(w) \/ Disappoint(w) \/ Finish(w)

Run == Prompt \/ Reply \/ Result \/ AbortBatch \/ Continue \/ RunFails \/ NavigateTree

CompactionNext == Run \/ \E w \in Workers : Step(w) \/ CallManual(w) \/ Interrupt(w)

CompactionSpec == CompactionInit /\ [][CompactionNext]_compactionVars

-----------------------------------------------------------------------------
(* Properties *)

(* The conversation as compact_session sees it, and every budget it may be compacted with. *)
Conversation == MessagesOf(path)
Budgets == 1 .. Keep + 2
Kept(c) == SubSeq(Conversation, c + 1, Len(Conversation))

(* For every budget, no call is separated from its answer. *)
CutKeepsPairs ==
    \A keep \in Budgets :
        LET c == CutPoint(Conversation, keep)
        IN  /\ Made(Conversation, c) \cap Answered(Kept(c), Len(Conversation) - c) = {}
            /\ c < Len(Conversation) => Conversation[c + 1].role # "toolResult"

(* The context that a resumed session starts from has no tool result without its call, for
   all that compaction leaves out, and the next compaction will not make one: "A cut cannot
   occur while a ToolCall batch still has unresolved ToolResults"
   (docs/architecture/phase-13-16.md:42), nor does what is kept begin with a tool result
   (docs/upstream/compaction.md:29). *)
ContextWellFormed ==
    LET answers == {path[i].message.answers : i \in ContextPositions(path)} \ {NoCall}
    IN  /\ answers \subseteq UNION {path[i].message.calls : i \in ContextPositions(path)}
        /\ CutKeepsPairs

(* "compaction replaces older active context with a summary"
   (docs/upstream/compaction.md:8): every message of the path is in the context, or its
   content has gone into the summary that is. *)
NothingForgotten ==
    LET latest == LatestCompaction(path)
    IN  latest > 0 =>
            Positions(path, "message") \subseteq ContextPositions(path) \cup path[latest].covered
=============================================================================
