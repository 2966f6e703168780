------------------------------ MODULE Compaction ------------------------------
(***************************************************************************)
(* Where a conversation may be cut (harness/compaction/compaction.py) and  *)
(* how large it is (token_estimator.py), as operators on sequences of      *)
(* messages.                                                               *)
(*                                                                         *)
(* A message has a role, the ids of the calls it makes (assistant) or of   *)
(* the one it answers (tool result), its estimated tokens and the usage    *)
(* that was reported with it, 0 if none.  A cut is the number of messages  *)
(* before it, as it is the index of the first message kept in the code.    *)
(***************************************************************************)
EXTENDS Integers, Sequences, FiniteSets, FiniteSetsExt

NoCall == 0

User(tokens) ==
    [role |-> "user", calls |-> {}, answers |-> NoCall, tokens |-> tokens, usage |-> 0]
Assistant(calls, tokens, usage) ==
    [role |-> "assistant", calls |-> calls, answers |-> NoCall, tokens |-> tokens, usage |-> usage]
ToolResult(call, tokens) ==
    [role |-> "toolResult", calls |-> {}, answers |-> call, tokens |-> tokens, usage |-> 0]

Messages ==
    [role : {"user", "assistant", "toolResult"}, calls : SUBSET Nat, answers : Nat,
     tokens : Nat, usage : Nat]

(* estimate_context_tokens(messages[c:]) *)
Tokens(messages, c) ==
    LET from[i \in Nat] == IF i > Len(messages) THEN 0 ELSE messages[i].tokens + from[i + 1]
    IN  from[c + 1]

(* calculate_context_tokens: the usage reported last stands for all up to that message. *)
ContextTokens(messages) ==
    LET reported == {i \in DOMAIN messages : messages[i].usage > 0}
    IN  IF reported = {} THEN Tokens(messages, 0)
        ELSE messages[Max(reported)].usage + Tokens(messages, Max(reported))

-----------------------------------------------------------------------------
(* Calls made before the cut and not answered before it. *)
Made(messages, c) == UNION {messages[i].calls : i \in 1 .. c}
Answered(messages, c) == {messages[i].answers : i \in 1 .. c}
Pending(messages, c) == Made(messages, c) \ Answered(messages, c)

(* safe_cut_indices *)
SafeCuts(messages) == {0} \cup {c \in 1 .. Len(messages) : Pending(messages, c) = {}}

Candidates(messages) == SafeCuts(messages) \ {0, Len(messages)}

(* find_turn_start_index *)
TurnStart(messages, c) ==
    LET users == {i \in 0 .. c : i < Len(messages) /\ messages[i + 1].role = "user"}
    IN  IF users = {} THEN 0 ELSE Max(users)

(* The positions from which the budget is used up.  The loop of find_cut_point walks back
   and stops at the last of them. *)
Crossing(messages, keep) == {i \in 0 .. Len(messages) - 1 : Tokens(messages, i) >= keep}

SafeFrom(messages, i) == {c \in Candidates(messages) : c >= i}

(* The first safe cut at or after the crossing; everything, if there is none. *)
FirstSafe(messages, keep) ==
    LET after == SafeFrom(messages, Max(Crossing(messages, keep)))
    IN  IF Crossing(messages, keep) = {} THEN Min(Candidates(messages))
        ELSE IF after = {} THEN Len(messages) ELSE Min(after)

(* The turn in which the cut falls is kept whole if it fits. *)
KeepsTurn(messages, keep, c) ==
    LET t == TurnStart(messages, c)
    IN  /\ c < Len(messages)
        /\ t \in Candidates(messages)
        /\ Tokens(messages, t) <= keep

(* find_cut_point; 0 if there is no place to cut. *)
CutPoint(messages, keep) ==
    IF Candidates(messages) = {} THEN 0
    ELSE LET c == FirstSafe(messages, keep)
         IN  IF KeepsTurn(messages, keep, c) THEN TurnStart(messages, c) ELSE c
=============================================================================
