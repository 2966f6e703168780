------------------------------- MODULE MCTools -------------------------------
(***************************************************************************)
(* ExtensionHost, ToolPolicies, ApprovalGate, FileMutations, ShellCommand  *)
(* and OutputLimits for TLC, side by side in one run: which tools there    *)
(* are, what the policy makes of a call and whether it may run, what it    *)
(* then does to a file or a process, and how much of what it found it      *)
(* answers.  They share no variable: an initial state picks the one that   *)
(* moves, and the others stay where they begin.                            *)
(***************************************************************************)
EXTENDS FileMutations, ApprovalGate, ShellCommand, ExtensionHost

CONSTANTS MaxLength, LineLimits, ByteLimits, PageSizes, MaxReads, MaxSaid

VARIABLES
    moves,          \* "gate", "policies", "files", "shell", "limits" or "host"
    byManager, default, switches, rules, approved, told,
    text, maxLines, maxBytes, page, answer, hint, gathered, following, reads

limitVars == <<text, maxLines, maxBytes, page, answer, hint, gathered, following, reads>>
policyVars == <<byManager, default, switches, rules, approved, told>>
toolVars == <<vars, policyVars, gateVars, shellVars, limitVars, hostVars>>

(* One text is a star, one is a path out of the roots and a destructive command. *)
MCTexts == {<<"a">>, <<"*">>, <<"a", "a">>}
MCRules ==
    {[effect |-> e, tool |-> "bash", pattern |-> <<"*">>, exact |-> x] :
        e \in {"allow", "deny"}, x \in BOOLEAN}
    \cup {[effect |-> "prompt", tool |-> "*", pattern |-> Absent, exact |-> FALSE]}
P == INSTANCE ToolPolicies WITH
        Texts <- MCTexts, Outside <- {<<"a", "a">>}, Destructive <- {<<"a", "a">>}, Rules <- MCRules,
        NoText <- Absent, manager <- byManager, grants <- approved

(* Characters of one and two bytes. *)
MCLines == {<<>>, <<1>>, <<2>>, <<1, 2, 1>>}
O == INSTANCE OutputLimits WITH
        Lines <- MCLines, MaxCalls <- MaxReads, None <- Absent,
        file <- text, seen <- gathered, calls <- reads

MCExts == <<"first", "second">>

ASSUME P!PoliciesAssumption /\ O!LimitsAssumption

(* One initial state is enough for a part that does not move. *)
MCInit ==
    /\ moves \in {"gate", "policies", "files", "shell", "limits", "host"}
    /\ Init /\ GateInit /\ ShellInit /\ HostInit /\ P!PoliciesInit
    /\ moves # "policies" => byManager /\ default = "deny"
    /\ moves # "gate" =>
        /\ ~manager /\ ~asks /\ policy = [r \in Requests |-> "deny"]
        /\ request = [c \in Callers |-> CHOOSE r \in Requests : TRUE]
    /\ moves # "files" => file = {}
    /\ moves # "shell" => stubborn = {} /\ early
    /\ O!LimitsInit
    /\ moves # "limits" =>
        text = O!Nothing /\ <<maxLines, maxBytes, page>> = CHOOSE t \in LineLimits \X ByteLimits \X PageSizes : TRUE
MCNext ==
    \/ moves = "gate" /\ GateNext /\ UNCHANGED <<moves, vars, policyVars, shellVars, limitVars, hostVars>>
    \/ moves = "policies" /\ P!PoliciesNext /\ UNCHANGED <<moves, vars, gateVars, shellVars, limitVars, hostVars>>
    \/ moves = "files" /\ Next /\ UNCHANGED <<moves, gateVars, policyVars, shellVars, limitVars, hostVars>>
    \/ moves = "shell" /\ ShellNext /\ UNCHANGED <<moves, vars, policyVars, gateVars, limitVars, hostVars>>
    \/ moves = "limits" /\ O!LimitsNext /\ UNCHANGED <<moves, vars, policyVars, gateVars, shellVars, hostVars>>
    \/ moves = "host" /\ HostNext /\ UNCHANGED <<moves, vars, policyVars, gateVars, shellVars, limitVars>>

(* The fairness of ShellCommand, when it is the one that moves. *)
MCSpec ==
    /\ MCInit /\ [][MCNext]_<<toolVars, moves>>
    /\ WF_shellVars(moves = "shell" /\ Ready)
    /\ \A p \in Processes : WF_shellVars(moves = "shell" /\ p \in doomed /\ Exit(p))

(* What surrounds a call keeps to its measure: a rule or an answer says no more than what it
   was given for (ToolPolicies), and a tool shows no more than its limits allow, and all of it
   to one who goes on reading (OutputLimits). *)
MeasuresKept == (moves = "policies" => P!PoliciesSound) /\ O!LimitsHeld
=============================================================================
