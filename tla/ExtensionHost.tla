---------------------------- MODULE ExtensionHost ----------------------------
(***************************************************************************)
(* ExtensionHost (coding_agent/extensions/host.py), used by several tasks: *)
(* activate and activate_many, reload, deactivate and close, one extension *)
(* at a time under the host's lock.                                        *)
(*                                                                         *)
(* A copy of an extension is what one staging made of it.  Tools stand for *)
(* tools, commands and services, and all disposers of a copy for one that  *)
(* takes a while.  What its code does, and whether the policy and the file *)
(* system let it run, is a choice.                                         *)
(***************************************************************************)
EXTENDS Naturals, Sequences, SequencesExt, WaitingLine

CONSTANTS
    Users,          \* tasks that use the host
    Exts,           \* the extensions, by priority
    Tools, Base,    \* names they may register; names of base_services
    MaxCopies,      \* bound: copies made
    MaxOperations,  \* bound: operations
    MaxTrouble,     \* bound: errors and cancellations
    Nobody

ASSUME HostAssumption ==
    /\ Exts \in Seq(Range(Exts)) /\ IsInjective(Exts) /\ Base \subseteq Tools
    /\ Nobody \notin Nat
    /\ MaxCopies \in Nat /\ MaxOperations \in Nat /\ MaxTrouble \in Nat

VARIABLES
    handles,        \* per extension the copy in use, or Nobody
    copies,         \* per copy: its extension, the tools it registered, whether it is "staging",
                    \* "ready", "disposed" or "half" disposed, how often its disposers began
    line,           \* the tasks at the lock, its holder first
    user,           \* per task: its operation, where it is, the extensions to come, what it
                    \* activated, the names taken when its staging began, its copy
    operations, trouble,
    dropped,        \* history: copies that a cancelled task let go of
    twice,          \* history: copies that a cancelled reload had begun to dispose of
    failed          \* history: copies of an activation that failed as a whole

hostVars == <<handles, copies, line, user, operations, trouble, dropped, twice, failed>>

All == ToSet(Exts)
NoCall == [op |-> "none", pc |-> "idle", todo |-> <<>>, strict |-> FALSE, mine |-> <<>>,
           taken |-> {}, copy |-> 0]

HostInit ==
    /\ handles = [e \in All |-> Nobody] /\ copies = <<>> /\ line = <<>>
    /\ user = [t \in Users |-> NoCall] /\ operations = 0 /\ trouble = 0
    /\ dropped = {} /\ twice = {} /\ failed = {}

Active(e) == handles[e] # Nobody
InUse == {handles[e] : e \in {x \in All : Active(x)}}

(* The names in use, but those of an extension that is reloaded. *)
Reserved(ignore) ==
    Base \cup UNION {copies[handles[e]].tools : e \in {x \in All \ ignore : Active(x)}}

UserAt(t, pc) == user[t].pc = pc
Todo(t) == Head(user[t].todo)
Gets(t, op) == line # <<>> /\ Head(line) = t /\ UserAt(t, "wait") /\ user[t].op \in op
Trouble(yes) == trouble' = trouble + (IF yes THEN 1 ELSE 0) /\ trouble' <= MaxTrouble

(* The next extension of the operation, for which it asks for the lock again, or its end. *)
GoOn(t, u) ==
    /\ user' = [user EXCEPT ![t] = IF u.todo = <<>> THEN NoCall ELSE [u EXCEPT !.pc = "wait", !.copy = 0]]
    /\ line' = IF u.todo = <<>> THEN Tail(line) ELSE Append(Tail(line), t)
Done(t) == [user[t] EXCEPT !.todo = Tail(@)]

-----------------------------------------------------------------------------
(* Those in use, the last by priority first. *)
LastFirst ==
    {s \in UNION {[1 .. n -> All] : n \in 0 .. Len(Exts)} :
        /\ ToSet(s) = {e \in All : Active(e)}
        /\ \A i, j \in DOMAIN s : i < j =>
            \E k, m \in DOMAIN Exts : m < k /\ Exts[k] = s[i] /\ Exts[m] = s[j]}

(* activate_many takes the extensions by priority, close those in use the other way. *)
Asks(t, op, todo, strict) ==
    /\ UserAt(t, "idle") /\ operations < MaxOperations /\ operations' = operations + 1 /\ todo # <<>>
    /\ user' = [user EXCEPT ![t] =
                    [NoCall EXCEPT !.op = op, !.pc = "wait", !.todo = todo, !.strict = strict]]
    /\ line' = Append(line, t)
    /\ UNCHANGED <<handles, copies, trouble, dropped, twice, failed>>

Call(t) ==
    \/ \E op \in {"activate", "reload", "deactivate"}, e \in All : Asks(t, op, <<e>>, FALSE)
    \/ \E strict \in BOOLEAN : Asks(t, "activate", Exts, strict)
    \/ \E handed \in LastFirst : Asks(t, "deactivate", handed, FALSE)

(* Variants with a mistake in them.  No specification uses them: the checks put each one in
   the place of the definition it resembles, to see that a property notices. *)

(* The first of those that were activated is kept. *)
FailsKeepingOne(t) ==
    LET mine == Reverse(user[t].mine) IN
    IF user[t].strict /\ mine # <<>>
    THEN /\ GoOn(t, [user[t] EXCEPT !.op = "undo", !.todo = [i \in 1 .. Len(mine) - 1 |-> copies[mine[i]].ext]])
         /\ failed' = failed \cup ToSet(mine)
    ELSE GoOn(t, IF user[t].strict THEN [user[t] EXCEPT !.todo = <<>>] ELSE Done(t)) /\ UNCHANGED failed

(* An activation failed.  A strict activate_many deactivates, by name, what it activated. *)
ActivationFails(t) ==
    LET mine == Reverse(user[t].mine) IN
    IF user[t].strict /\ mine # <<>>
    THEN /\ GoOn(t, [user[t] EXCEPT !.op = "undo", !.todo = [i \in DOMAIN mine |-> copies[mine[i]].ext]])
         /\ failed' = failed \cup ToSet(mine)
    ELSE GoOn(t, IF user[t].strict THEN [user[t] EXCEPT !.todo = <<>>] ELSE Done(t)) /\ UNCHANGED failed

(* The extension is active already, or not at all, or _validate_descriptor refuses it. *)
Refused(t) ==
    /\ Gets(t, {"activate", "reload"}) /\ ActivationFails(t)
    /\ Trouble(Active(Todo(t)) <=> user[t].op = "reload")
    /\ UNCHANGED <<handles, copies, operations, dropped, twice>>

(* _stage begins: it looks at the names in use once, and the code of the extension runs. *)
Stage(t) ==
    LET reload == user[t].op = "reload" IN
    /\ Gets(t, {"activate", "reload"}) /\ (Active(Todo(t)) <=> reload)
    /\ Len(copies) < MaxCopies
    /\ copies' = Append(copies, [ext |-> Todo(t), tools |-> {}, stage |-> "staging", times |-> 0])
    /\ user' = [user EXCEPT ![t].pc = "staging", ![t].copy = Len(copies) + 1,
                            ![t].taken = Reserved(IF reload THEN {Todo(t)} ELSE {})]
    /\ UNCHANGED <<handles, line, operations, trouble, dropped, twice, failed>>

(* It has run.  reload turns to the disposers of the copy that is still in use. *)
Staged(t) ==
    LET i == user[t].copy IN
    /\ UserAt(t, "staging")
    /\ \E tools \in SUBSET (Tools \ user[t].taken) :
        LET ready == [copies EXCEPT ![i].tools = tools, ![i].stage = "ready"] IN
        IF user[t].op = "reload"
        THEN /\ copies' = [ready EXCEPT ![handles[Todo(t)]].times = @ + 1]
             /\ user' = [user EXCEPT ![t].pc = "exchanging"]
             /\ UNCHANGED <<handles, line>>
        ELSE /\ copies' = ready
             /\ handles' = [handles EXCEPT ![Todo(t)] = i]
             /\ GoOn(t, [Done(t) EXCEPT !.mine = Append(@, i)])
    /\ UNCHANGED <<operations, trouble, dropped, twice, failed>>

(* It raised, or asked for a name that is taken: what it has registered is disposed of. *)
Raised(t) ==
    /\ UserAt(t, "staging")
    /\ Trouble(user[t].taken = {})
    /\ copies' = [copies EXCEPT ![user[t].copy].times = 1]
    /\ user' = [user EXCEPT ![t].pc = "cleaning"]
    /\ UNCHANGED <<handles, line, operations, dropped, twice, failed>>

Disposed(i) == [copies EXCEPT ![i].stage = "disposed"]

Cleaned(t) ==
    /\ UserAt(t, "cleaning") /\ copies' = Disposed(user[t].copy) /\ ActivationFails(t)
    /\ UNCHANGED <<handles, operations, trouble, dropped, twice>>

(* The disposers have run, whatever they raised, and the new copy takes the place of the old. *)
Exchanged(t) ==
    /\ UserAt(t, "exchanging")
    /\ copies' = Disposed(handles[Todo(t)])
    /\ handles' = [handles EXCEPT ![Todo(t)] = user[t].copy]
    /\ GoOn(t, Done(t))
    /\ UNCHANGED <<operations, trouble, dropped, twice, failed>>

(* deactivate: the copy is out of use before its disposers run. *)
Deactivate(t) ==
    /\ Gets(t, {"deactivate", "undo"})
    /\ IF ~Active(Todo(t)) THEN GoOn(t, Done(t)) /\ UNCHANGED <<handles, copies>>
       ELSE /\ handles' = [handles EXCEPT ![Todo(t)] = Nobody]
            /\ copies' = [copies EXCEPT ![handles[Todo(t)]].times = @ + 1]
            /\ user' = [user EXCEPT ![t].pc = "disposing", ![t].copy = handles[Todo(t)]]
            /\ UNCHANGED line
    /\ UNCHANGED <<operations, trouble, dropped, twice, failed>>

Deactivated(t) ==
    /\ UserAt(t, "disposing") /\ copies' = Disposed(user[t].copy) /\ GoOn(t, Done(t))
    /\ UNCHANGED <<handles, operations, trouble, dropped, twice, failed>>

(* The task is cancelled.  No handler catches that: what was staged is neither kept nor
   disposed of, disposers that are left do not run, an activation as a whole is not undone,
   and the copy that was to be reloaded stays in use. *)
CancelUser(t) ==
    LET u == user[t]
        half == IF u.pc = "exchanging" THEN handles[Todo(t)] ELSE u.copy
    IN
    /\ u.pc # "idle" /\ Trouble(TRUE)
    /\ user' = [user EXCEPT ![t] = NoCall]
    /\ line' = Without(line, t)
    /\ copies' = IF u.pc \in {"cleaning", "disposing", "exchanging"}
                 THEN [copies EXCEPT ![half].stage = "half"] ELSE copies
    /\ dropped' = IF u.copy = 0 THEN dropped ELSE dropped \cup {u.copy}
    /\ twice' = IF u.pc = "exchanging" THEN twice \cup {half} ELSE twice
    /\ failed' = failed \ ToSet(u.mine)
    /\ UNCHANGED <<handles, operations>>

HostNext ==
    \E t \in Users :
        \/ Call(t) \/ Refused(t) \/ Stage(t) \/ Staged(t) \/ Raised(t) \/ Cleaned(t)
        \/ Exchanged(t) \/ Deactivate(t) \/ Deactivated(t) \/ CancelUser(t)

HostSpec == HostInit /\ [][HostNext]_hostVars

-----------------------------------------------------------------------------
(* No name is registered by two extensions in use or hides a service of the program, whatever
   was reloaded meanwhile, so that the merged registry loses none.  The copies in use are
   ready and every other copy is disposed of when no operation is under way, its disposers
   begun once: only a cancelled task loses one, or leaves one in use that was begun to be
   disposed of.  And of an activation that failed as a whole nothing is in use when it ends. *)
ContributionsSound ==
    /\ \A e, f \in All :
        e # f /\ Active(e) /\ Active(f) => copies[handles[e]].tools \cap copies[handles[f]].tools = {}
    /\ \A i \in InUse : copies[i].tools \cap Base = {}
    /\ \A i \in InUse \ twice : copies[i].stage = "ready"
    /\ line = <<>> =>
        \A i \in DOMAIN copies : i \in InUse \cup dropped \cup twice \/ copies[i].stage = "disposed"
    /\ \A i \in DOMAIN copies \ twice : copies[i].times <= 1
    /\ (\A t \in Users : user[t].op # "undo") => failed \cap InUse = {}
=============================================================================
