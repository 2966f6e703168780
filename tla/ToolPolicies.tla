---------------------------- MODULE ToolPolicies ----------------------------
(***************************************************************************)
(* What ApprovalGate leaves to a choice: what a policy makes of a call,    *)
(* and which later calls an answer covers.  ApprovalPolicy                 *)
(* (coding_agent/approval.py) has rules before its built-in table;         *)
(* ToolPolicy (security/policy.py) has rules, exact ones and patterns,     *)
(* that may be added at any time, before a default.                        *)
(*                                                                         *)
(* A call is its tool and one argument, a path or a command; a text is a   *)
(* sequence of letters in which "*" may occur.                             *)
(***************************************************************************)
EXTENDS Naturals, Sequences, FiniteSets

CONSTANTS
    Texts,              \* arguments, and patterns for them
    Outside,            \* those that are paths out of the allowed roots
    Destructive,        \* those that are commands nobody should run
    Rules,              \* the rules there may be
    MaxSaid,            \* bound: rules and answers together
    NoText              \* no argument, no pattern

ToolNames == {"read", "write", "bash", "other"}
AnyTool == "*"
Effects == {"allow", "prompt", "deny"}
ToolRequests == [tool : ToolNames, text : Texts \cup {NoText}]
RuleSpace == [effect : Effects, tool : ToolNames \cup {AnyTool}, pattern : Texts \cup {NoText}, exact : BOOLEAN]

(* Assumed where this module is instantiated. *)
PoliciesAssumption ==
    /\ Texts \subseteq Seq({"a", "n", "*"}) /\ NoText \notin Texts
    /\ Outside \cup Destructive \subseteq Texts /\ Rules \subseteq RuleSpace /\ MaxSaid \in Nat

VARIABLES
    manager,            \* ApprovalManager with a ToolPolicy, not ApprovalGate with an ApprovalPolicy
    default,            \* default_effect of the first
    switches,           \* of the second: the checks that are on
    rules,
    grants,             \* [tool, text, exact]: the calls, and the patterns, approved for the session
    told                \* history: [request, pattern], the answers that were to be kept

policyVars == <<manager, default, switches, rules, grants, told>>

Switches == {"reads", "writes", "shell", "roots"}

PoliciesInit ==
    /\ manager \in BOOLEAN /\ default \in Effects /\ switches \in SUBSET Switches
    /\ IF manager THEN rules = <<>> /\ switches = {}
       ELSE default = "prompt" /\ rules \in UNION {[1 .. n -> Rules] : n \in 0 .. MaxSaid}
    /\ \A i \in DOMAIN rules : ~rules[i].exact
    /\ grants = {} /\ told = {}

-----------------------------------------------------------------------------
(* fnmatch: a star stands for anything. *)
Glob(pattern, text) ==
    LET fits[i \in 0 .. Len(pattern), j \in 0 .. Len(text)] ==
            IF i = 0 THEN j = 0
            ELSE IF pattern[i] = "*" THEN \E k \in 0 .. j : fits[i - 1, k]
            ELSE j > 0 /\ pattern[i] = text[j] /\ fits[i - 1, j - 1]
    IN  fits[Len(pattern), Len(text)]

(* A manager's pattern sees "null" for an argument that is missing, the gate's does not match. *)
Shown(text) == IF text = NoText THEN <<"n">> ELSE text

Matches(rule, r) ==
    /\ rule.tool = r.tool \/ (rule.tool = AnyTool /\ ~rule.exact)
    /\ rule.pattern = NoText \/ (IF rule.exact THEN r.text = rule.pattern
                               ELSE (manager \/ r.text # NoText) /\ Glob(rule.pattern, Shown(r.text)))

(* ApprovalPolicy.evaluate after its rules: what the path is comes before what the tool is. *)
Builtin(r) ==
    LET on(switch) == switch \in switches IN
    IF on("roots") /\ r.tool # "bash" /\ r.text \in Outside THEN "deny"
    ELSE CASE r.tool = "read" -> IF on("reads") THEN "allow" ELSE "prompt"
           [] r.tool = "write" -> IF on("writes") THEN "prompt" ELSE "allow"
           [] r.tool = "bash" /\ r.text \in Destructive -> "deny"
           [] r.tool = "bash" /\ r.text \notin Destructive -> IF on("shell") THEN "prompt" ELSE "allow"
           [] r.tool = "other" -> "prompt"

Hits(r) == {i \in DOMAIN rules : Matches(rules[i], r)}
Evaluate(r) ==
    IF Hits(r) # {} THEN rules[CHOOSE i \in Hits(r) : \A j \in Hits(r) : i <= j].effect
    ELSE IF manager THEN default ELSE Builtin(r)

(* _matching_grant, or the fingerprint. *)
Covered(r) ==
    \E g \in grants : /\ g.tool = r.tool
                      /\ IF g.exact THEN g.text = r.text ELSE Glob(g.text, Shown(r.text))

-----------------------------------------------------------------------------
(* _remember: a call is kept as it is, stars and all. *)
GrantOf(r, pattern) ==
    [tool |-> r.tool, text |-> IF pattern = NoText THEN r.text ELSE pattern, exact |-> pattern = NoText]

Said == (IF manager THEN Len(rules) ELSE 0) + Cardinality(told)

(* add_exact, add_pattern *)
AddRule(rule) ==
    /\ manager /\ Said < MaxSaid
    /\ rules' = Append(rules, rule)
    /\ UNCHANGED <<manager, default, switches, grants, told>>

(* authorize and before_tool_call, where they change something: a prompt is answered for the
   session, with a pattern or without, which only the manager takes. *)
Authorize(r, pattern) ==
    /\ Said < MaxSaid
    /\ ~Covered(r) /\ Evaluate(r) = "prompt" /\ (pattern # NoText => manager)
    /\ grants' = grants \cup {GrantOf(r, pattern)}
    /\ told' = told \cup {[request |-> r, pattern |-> pattern]}
    /\ UNCHANGED <<manager, default, switches, rules>>

ClearGrants ==
    /\ grants # {} /\ grants' = {} /\ told' = {}
    /\ UNCHANGED <<manager, default, switches, rules>>

PoliciesNext ==
    \/ ClearGrants
    \/ \E rule \in Rules : AddRule(rule)
    \/ \E r \in ToolRequests, p \in Texts \cup {NoText} : Authorize(r, p)

PoliciesSpec == PoliciesInit /\ [][PoliciesNext]_policyVars

-----------------------------------------------------------------------------
(* An approval for the session is for exactly that call, whatever characters its argument
   has: a call that no pattern was given for is covered only if it has been approved itself
   (security/approval.py:78).  What an earlier rule says is not changed by a later one; and a
   destructive command, or a path out of the roots, runs unasked only if a rule says so
   (coding_agent/approval.py:97). *)
PoliciesSound ==
    /\ \A r \in ToolRequests : Covered(r) =>
        \/ \E t \in told : t.pattern = NoText /\ t.request = r
        \/ \E t \in told : t.pattern # NoText /\ t.request.tool = r.tool /\ Glob(t.pattern, Shown(r.text))
    /\ \A r \in ToolRequests, i, j \in DOMAIN rules :
        i < j /\ Matches(rules[i], r) /\ Evaluate(r) = rules[j].effect =>
            \E k \in 1 .. i : Matches(rules[k], r) /\ rules[k].effect = rules[j].effect
    /\ \A r \in ToolRequests :
        ~manager /\ Evaluate(r) # "deny" /\ Hits(r) = {} =>
            IF r.tool = "bash" THEN r.text \notin Destructive
            ELSE "roots" \in switches => r.text \notin Outside
=============================================================================
