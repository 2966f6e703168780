--------------------------- MODULE SessionMetadata ---------------------------
(***************************************************************************)
(* The model, the thinking level and the name of a session: what           *)
(* create_agent_session (coding_agent/sdk.py) makes of the options, the    *)
(* settings and the session, what AgentSession (agent_session.py) changes, *)
(* in the agent first and then in the session, and what it takes from the  *)
(* session again when it moves.  Processes follow one another, each with   *)
(* the models its registry has; the session is idle during the operations. *)
(***************************************************************************)
EXTENDS Naturals, Sequences, FiniteSetsExt, SequencesExt

CONSTANTS
    Models,         \* all models, as ModelRegistry.list has them: a sequence
    Reasoning,      \* those with thinking levels
    Registries,     \* the sets of models a process may have
    Levels,         \* thinking levels, "off" first
    DefaultModel, DefaultLevel,     \* of the settings
    Names,
    MaxNotes, MaxSessions, MaxOpens,        \* bounds, the first for all sessions together
    Unset                                   \* no model, level or name

ASSUME MetadataAssumption ==
    /\ Models \in Seq(ToSet(Models)) /\ Levels \in Seq(ToSet(Levels))
    /\ IsInjective(Models) /\ Reasoning \subseteq ToSet(Models)
    /\ Registries \subseteq SUBSET ToSet(Models) /\ {} \notin Registries
    /\ Levels # <<>> /\ Head(Levels) = "off" /\ DefaultLevel \in ToSet(Levels)
    /\ DefaultModel \in ToSet(Models) /\ Unset \notin ToSet(Models) \cup ToSet(Levels) \cup Names
    /\ MaxNotes \in Nat /\ MaxSessions \in Nat /\ MaxOpens \in Nat

VARIABLES
    sessions,       \* per session its entries, its leaf (0: the root) and name in the header
    cur,            \* the session in use, 0 before the first
    registry,       \* models of this process, or {} when none runs
    model, level,   \* of the agent
    opens,          \* for the bound
    given,          \* history: the model was an option of this process and not changed since
    bare,           \* history: sessions in which one went back to before their level
    torn,           \* history: an append failed, and neither moved nor started anew since
    named           \* history: per session the name it was given last

metaVars == <<sessions, cur, registry, model, level, opens, given, bare, torn, named>>

TreeEntry(kind, value, parent) == [kind |-> kind, value |-> value, parent |-> parent]

MetadataInit ==
    /\ sessions = <<>> /\ cur = 0 /\ registry = {} /\ model = Unset /\ level = "off"
    /\ opens = 0 /\ given = FALSE /\ bare = {} /\ torn = FALSE /\ named = <<>>

(* active_path: the entries from the root to the leaf. *)
BranchTo(s, leaf) ==
    LET on[e \in 0 .. leaf] == IF e = 0 THEN <<>> ELSE Append(on[s.entries[e].parent], e) IN on[leaf]
Path(s) == BranchTo(s, s.leaf)

(* reconstruct_context: the last of its kind on the path, or Unset. *)
OnPath(s, kind) ==
    LET at == {e \in ToSet(Path(s)) : s.entries[e].kind = kind}
    IN  IF at = {} THEN Unset ELSE s.entries[Max(at)].value

(* labels(): of the whole tree, in the order of the file. *)
NameOf(s) ==
    LET at == {e \in DOMAIN s.entries : s.entries[e].kind = "label"}
    IN  IF at = {} THEN s.name ELSE s.entries[Max(at)].value

WithEntry(s, kind, value) ==
    [s EXCEPT !.entries = Append(@, TreeEntry(kind, value, s.leaf)), !.leaf = Len(s.entries) + 1]

Available(m) == IF m \in Reasoning THEN ToSet(Levels) ELSE {"off"}
Listed == SelectSeq(Models, LAMBDA m : m \in registry)
Running == registry # {}
RoomFor(n) == FoldLeft(LAMBDA k, s : k + Len(s.entries), n, sessions) <= MaxNotes

-----------------------------------------------------------------------------
(* _resolve_model: the option, the session's if the registry has it, the settings'. *)
Resolved(option, s, models) ==
    IF option # Unset THEN option
    ELSE IF OnPath(s, "model") \in models THEN OnPath(s, "model") ELSE DefaultModel
(* _resolve_thinking_level. *)
LevelFor(s, m) ==
    LET raw == IF OnPath(s, "level") = Unset THEN DefaultLevel ELSE OnPath(s, "level")
    IN  IF m \in Reasoning THEN raw ELSE "off"

(* Variants with a mistake in them.  No specification uses them: the checks put each one in
   the place of the definition it resembles, to see that a property notices. *)

(* The level is left out. *)
SeededModelOnly(s, m, l) == IF Path(s) = <<>> THEN WithEntry(s, "model", m) ELSE s

(* _seed_new_session: a path without entries gets the model and the level. *)
Seeded(s, m, l) == IF Path(s) = <<>> THEN WithEntry(WithEntry(s, "model", m), "level", l) ELSE s

(* A process starts, on a new session or one there is.  A model of the settings that the
   registry does not have is an error. *)
StartProcess(i, option, models) ==
    LET fresh == i > Len(sessions)
        s == IF fresh THEN [entries |-> <<>>, leaf |-> 0, name |-> Unset] ELSE sessions[i]
        m == Resolved(option, s, models)
    IN
    /\ ~Running /\ opens < MaxOpens /\ opens' = opens + 1 /\ RoomFor(2)
    /\ option = Unset => m \in models
    /\ registry' = models /\ cur' = i /\ model' = m /\ level' = LevelFor(s, m)
    /\ sessions' = IF fresh THEN Append(sessions, Seeded(s, m, LevelFor(s, m)))
                   ELSE [sessions EXCEPT ![i] = Seeded(s, m, LevelFor(s, m))]
    /\ named' = IF fresh THEN Append(named, Unset) ELSE named
    /\ given' = (option # Unset) /\ torn' = FALSE
    /\ UNCHANGED bare

EndProcess ==
    /\ Running /\ registry' = {}
    /\ UNCHANGED <<sessions, cur, model, level, opens, given, bare, torn, named>>

Note(kind, value) == sessions' = [sessions EXCEPT ![cur] = WithEntry(@, kind, value)]
(* The entry may not reach the file; what was changed in the agent stays changed. *)
Noted(kind, value) ==
    \/ Note(kind, value) /\ UNCHANGED torn
    \/ torn' = TRUE /\ UNCHANGED sessions

SetModel(m) ==
    /\ Running /\ RoomFor(1) /\ m \in registry
    /\ model' = m /\ Noted("model", m) /\ given' = FALSE
    /\ UNCHANGED <<cur, registry, level, opens, bare, named>>

(* The one after or before, around the end. *)
Cycled(list, at, forward) ==
    list[((at + (IF forward THEN 0 ELSE Len(list) - 2)) % Len(list)) + 1]

(* From a model that is not listed it goes to the first or the last. *)
CycleModel(forward) ==
    LET at == SelectInSeq(Listed, LAMBDA m : m = model)
    IN  Running /\ SetModel(Cycled(Listed, IF at = 0 /\ ~forward THEN 1 ELSE at, forward))

SetLevel(l) ==
    /\ Running /\ RoomFor(1) /\ l \in Available(model)
    /\ level' = l /\ Noted("level", l)
    /\ UNCHANGED <<cur, registry, model, opens, given, bare, named>>

(* A level the model does not have counts as "off". *)
CycleLevel(forward) ==
    LET levels == SelectSeq(Levels, LAMBDA l : l \in Available(model))
        at == SelectInSeq(levels, LAMBDA l : l = level)
    IN  SetLevel(Cycled(levels, IF at = 0 THEN 1 ELSE at, forward))

(* The name goes into the tree as well: like a message, it makes the branch longer. *)
Rename(name) ==
    /\ Running /\ RoomFor(1) /\ Note("label", name) /\ named' = [named EXCEPT ![cur] = name]
    /\ UNCHANGED <<cur, registry, model, level, opens, given, bare, torn>>

NewSession(name) ==
    LET s == [entries |-> <<>>, leaf |-> 0, name |-> name] IN
    /\ Running /\ Len(sessions) < MaxSessions /\ RoomFor(2)
    /\ sessions' = Append(sessions, WithEntry(WithEntry(s, "model", model), "level", level))
    /\ cur' = Len(sessions) + 1 /\ named' = Append(named, name)
    /\ given' = FALSE /\ torn' = FALSE
    /\ UNCHANGED <<registry, model, level, opens, bare>>

(* _restore_branch_runtime. *)
Restore(s) ==
    LET found == OnPath(s, "model") \in registry IN
    /\ model' = IF found THEN OnPath(s, "model") ELSE model
    /\ level' = IF OnPath(s, "level") \in Available(model') THEN OnPath(s, "level") ELSE "off"
    /\ given' = (given /\ ~found) /\ torn' = (torn /\ ~found)

SwitchSession(i) ==
    /\ Running /\ i # cur /\ cur' = i /\ Restore(sessions[i])
    /\ UNCHANGED <<sessions, registry, opens, bare, named>>

(* fork and navigate_tree: an entry, or the root. *)
NavigateTo(e) ==
    LET s == [sessions[cur] EXCEPT !.leaf = e] IN
    /\ Running /\ e # sessions[cur].leaf
    /\ sessions' = [sessions EXCEPT ![cur] = s] /\ Restore(s)
    /\ bare' = IF OnPath(s, "level") = Unset THEN bare \cup {cur} ELSE bare
    /\ UNCHANGED <<cur, registry, opens, named>>

MetadataNext ==
    \/ \E i \in 1 .. Len(sessions) + 1, option \in ToSet(Models) \cup {Unset} :
            i <= MaxSessions /\ \E models \in Registries : StartProcess(i, option, models)
    \/ EndProcess
    \/ \E m \in ToSet(Models) : SetModel(m)
    \/ \E l \in ToSet(Levels) : SetLevel(l)
    \/ \E forward \in BOOLEAN : CycleModel(forward) \/ (Running /\ CycleLevel(forward))
    \/ \E name \in Names : Rename(name) \/ NewSession(name)
    \/ \E i \in DOMAIN sessions : SwitchSession(i)
    \/ Running /\ \E e \in 0 .. Len(sessions[cur].entries) : NavigateTo(e)

MetadataSpec == MetadataInit /\ [][MetadataNext]_metaVars

-----------------------------------------------------------------------------
Session == sessions[cur]

(* While no append has failed, the agent has the model of the active branch, wherever one went
   in the meantime, unless the program was started with another or the registry lacks it, and
   the thinking level of the branch, or none.  Every session tells both, so that it does not
   depend on the settings of the process that opens it, unless one went back to before its
   first two entries.  It keeps the name it was given last on whatever branch. *)
MetadataKept ==
    /\ \A i \in DOMAIN sessions : NameOf(sessions[i]) = named[i]
    /\ \A i \in DOMAIN sessions \ bare :
        OnPath(sessions[i], "model") # Unset /\ OnPath(sessions[i], "level") # Unset
    /\ Running /\ ~torn =>
        /\ ~given /\ OnPath(Session, "model") \in registry => model = OnPath(Session, "model")
        /\ OnPath(Session, "level") # Unset => level \in {OnPath(Session, "level"), "off"}
=============================================================================
