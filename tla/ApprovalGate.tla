---------------------------- MODULE ApprovalGate ----------------------------
(***************************************************************************)
(* The two authorization adapters of the SDK.  ApprovalGate, the hook      *)
(* before a tool call (coding_agent/approval.py), keeps the fingerprints   *)
(* approved for the session and writes its audit records in a thread;      *)
(* ApprovalManager, which wraps tools (security/approval.py), keeps        *)
(* grants, patterns among them, looks at them before its policy, and       *)
(* records without giving way.  Both ask one question at a time, under a   *)
(* lock.  A request stands for all calls with its arguments.               *)
(***************************************************************************)
EXTENDS WaitingLine

CONSTANTS
    Callers,        \* calls under way: parallel tools, or agents with one gate
    Requests,       \* what a call asks for: its fingerprint
    MaxMishaps      \* bound: audit records that fail, prompts that raise, cancelled calls

ASSUME ApprovalAssumption == MaxMishaps \in Nat

VARIABLES
    manager,        \* ApprovalManager, not ApprovalGate
    policy,         \* per request "allow", "prompt" or "deny"
    asks,           \* a prompt is configured
    pc, request,    \* per call: where it is, what it is for
    verdict,        \* per call: what its audit record says, "runs" or "blocked"
    atLock,         \* the calls at the lock, its holder first
    grants,         \* requests approved for the session
    answers,        \* history: per call what the prompt said
    granted,        \* history: requests that were ever in grants
    recorded,       \* history: calls with an audit record
    mishaps         \* for the bound

gateVars ==
    <<manager, policy, asks, pc, request, verdict, atLock, grants, answers, granted, recorded, mishaps>>

GateInit ==
    /\ manager \in BOOLEAN /\ asks \in BOOLEAN /\ (manager => asks)
    /\ policy \in [Requests -> {"allow", "prompt", "deny"}]
    /\ pc = [c \in Callers |-> "new"] /\ request \in [Callers -> Requests]
    /\ verdict = [c \in Callers |-> "none"] /\ atLock = <<>>
    /\ grants = {} /\ answers = [c \in Callers |-> "none"] /\ granted = {} /\ recorded = {}
    /\ mishaps = 0

Finish(c, outcome) == pc' = [pc EXCEPT ![c] = outcome] /\ atLock' = Without(atLock, c)
Covered(c) == request[c] \in grants
Fails(failed) == mishaps' = mishaps + (IF failed THEN 1 ELSE 0) /\ mishaps' <= MaxMishaps

(* _audit and _record: the gate waits for a thread, the manager is through at once, with its
   own record kept even where the sink raises. *)
Decide(c, outcome) ==
    IF manager
    THEN \E failed \in BOOLEAN :
            /\ Fails(failed) /\ Finish(c, IF failed THEN "raised" ELSE outcome)
            /\ recorded' = recorded \cup {c} /\ UNCHANGED verdict
    ELSE /\ pc' = [pc EXCEPT ![c] = "audit"] /\ verdict' = [verdict EXCEPT ![c] = outcome]
         /\ UNCHANGED <<atLock, recorded, mishaps>>

-----------------------------------------------------------------------------
(* Variants with a mistake in them.  No specification uses them: the checks put each one in
   the place of the definition it resembles, to see that a property notices. *)

(* What was granted while the call waited for the lock is not looked at. *)
ProceedAsks(c) ==
    /\ pc[c] = "queued" /\ Head(atLock) = c
    /\ pc' = [pc EXCEPT ![c] = "prompting"]
    /\ UNCHANGED <<manager, policy, asks, request, verdict, atLock, grants, answers, granted, recorded, mishaps>>

-----------------------------------------------------------------------------
(* before_tool_call and authorize up to the lock *)
Check(c) ==
    /\ pc[c] = "new"
    /\ \/ /\ policy[request[c]] = "allow" \/ Covered(c)
          /\ Decide(c, "runs")
       \/ /\ policy[request[c]] = "deny" /\ ~Covered(c)
          /\ Decide(c, "blocked")
       \/ /\ policy[request[c]] = "prompt" /\ ~Covered(c) /\ ~asks
          /\ Decide(c, "blocked")
       \/ /\ policy[request[c]] = "prompt" /\ ~Covered(c) /\ asks
          /\ pc' = [pc EXCEPT ![c] = "queued"] /\ atLock' = Append(atLock, c)
          /\ UNCHANGED <<verdict, recorded, mishaps>>
    /\ UNCHANGED <<manager, policy, asks, request, grants, answers, granted>>

(* Another call may have been granted the request in the meantime.  The gate lets this one
   run without a record. *)
Proceed(c) ==
    /\ pc[c] = "queued" /\ Head(atLock) = c
    /\ IF ~Covered(c)
       THEN pc' = [pc EXCEPT ![c] = "prompting"] /\ UNCHANGED <<atLock, verdict, recorded, mishaps>>
       ELSE IF manager THEN Decide(c, "runs")
       ELSE Finish(c, "runs") /\ UNCHANGED <<verdict, recorded, mishaps>>
    /\ UNCHANGED <<manager, policy, asks, request, grants, answers, granted>>

(* What the user says: once, for the session, no, or, to the manager, a pattern, which need
   not match the request it is the answer to. *)
Answer(c) ==
    /\ pc[c] = "prompting"
    /\ \E answer \in {"once", "session", "deny"} \cup (IF manager THEN {"pattern"} ELSE {}),
          matches \in SUBSET Requests :
        /\ answer # "pattern" => matches = (IF answer = "session" THEN {request[c]} ELSE {})
        /\ answers' = [answers EXCEPT ![c] = answer]
        /\ grants' = grants \cup matches /\ granted' = granted \cup matches
        /\ Decide(c, IF answer = "deny" THEN "blocked" ELSE "runs")
    /\ UNCHANGED <<manager, policy, asks, request>>

(* The gate takes a prompt that raises, or answers with something else, for a no. *)
PromptFails(c) ==
    /\ pc[c] = "prompting" /\ mishaps < MaxMishaps
    /\ IF manager THEN Finish(c, "raised") /\ mishaps' = mishaps + 1 /\ UNCHANGED <<verdict, recorded>>
       ELSE Decide(c, "blocked")
    /\ UNCHANGED <<manager, policy, asks, request, grants, answers, granted>>

Audited(c) ==
    /\ pc[c] = "audit"
    /\ Finish(c, verdict[c]) /\ recorded' = recorded \cup {c}
    /\ UNCHANGED <<manager, policy, asks, request, verdict, grants, answers, granted, mishaps>>

(* Without a record only what the policy allows by itself goes on. *)
AuditFails(c) ==
    /\ pc[c] = "audit" /\ Fails(TRUE)
    /\ Finish(c, IF policy[request[c]] = "allow" THEN verdict[c] ELSE "raised")
    /\ UNCHANGED <<manager, policy, asks, request, verdict, grants, answers, granted, recorded>>

(* The task of the call, or, before it has looked at anything, its signal. *)
CancelCall(c) ==
    /\ pc[c] \in {"new", "audit", "queued", "prompting"} /\ Fails(TRUE)
    /\ Finish(c, "raised")
    /\ UNCHANGED <<manager, policy, asks, request, verdict, grants, answers, granted, recorded>>

(* clear_session_approvals and clear_grants *)
Clear ==
    /\ grants # {} /\ grants' = {}
    /\ UNCHANGED <<manager, policy, asks, pc, request, verdict, atLock, answers, granted, recorded, mishaps>>

GateNext ==
    \/ Clear
    \/ \E c \in Callers :
        Check(c) \/ Proceed(c) \/ Answer(c) \/ PromptFails(c) \/ Audited(c) \/ AuditFails(c) \/ CancelCall(c)

GateSpec == GateInit /\ [][GateNext]_gateVars

-----------------------------------------------------------------------------
(* Nobody is asked for what is granted: of the calls that wait for one answer, all the others
   see it (approval.py:257, security/approval.py:145).  And a tool runs because the policy
   lets it, or its own answer or a grant does; and then with a record, or past a call that
   had one for the same request, never because something failed. *)
GateSound ==
    /\ \A c \in Callers : pc[c] = "prompting" => ~Covered(c)
    /\ \A c \in Callers : pc[c] = "runs" /\ policy[request[c]] # "allow" =>
        /\ answers[c] \in {"once", "session", "pattern"} \/ request[c] \in granted
        /\ c \in recorded \/ (answers[c] = "none" /\ request[c] \in granted)
=============================================================================
