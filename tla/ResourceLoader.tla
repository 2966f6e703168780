--------------------------- MODULE ResourceLoader ---------------------------
(***************************************************************************)
(* ResourceLoader and SystemPromptBuilder (harness/resource_loader.py,     *)
(* harness/system_prompt.py), as a session uses them: a walk over the      *)
(* roots in order of precedence, a snapshot of it, and the system prompt.  *)
(*                                                                         *)
(* Nothing holds the files still while the walk goes on, so each look that *)
(* finds something is a step, and it finds any of what may be there.       *)
(***************************************************************************)
EXTENDS Naturals, Sequences, FiniteSets
LOCAL INSTANCE SequencesExt

CONSTANTS
    Names,          \* of skills and themes
    MaxFinds,       \* bound: files found by all loads together
    MaxLoads,       \* bound: loads
    None

(* Assumed where this module is instantiated. *)
ResourceAssumption == MaxFinds \in Nat /\ MaxLoads \in Nat /\ None \notin Nat

(* The roots in order of precedence: of the user, of the project's directories from the outside
   in, and explicit ones.  Skills stand for prompts too, themes for extensions and packages. *)
Roots == 1 .. 3
Kinds == {"skill", "theme"}
Slots == <<"SYSTEM.md", "APPEND_SYSTEM.md", "skill", "theme">>

(* Context files are looked for in the user's root and in every directory above cwd, which the
   user's root may be one of: the first and the last candidate are then the same path. *)
Candidates == 1 .. 3

VARIABLES
    sameDir,        \* the user's root is the last of those directories
    generation,
    at,             \* the root the walk is at; 0 for the context files, None between loads
    slot,           \* the candidate or slot that is next
    passed,         \* `seen` of _load_context_files
    contexts, system, appends, listed, warnings,    \* the locals of load
    snapshot,       \* or None
    prompt,         \* agent.system_prompt, as a sequence of its blocks
    finds,          \* history: what the walk has found so far
    loads, looks    \* for the bounds

walk == <<at, slot, passed, contexts, system, appends, listed, warnings, finds>>
resourceVars == <<sameDir, generation, walk, snapshot, prompt, loads, looks>>

ResourceInit ==
    /\ sameDir \in BOOLEAN
    /\ generation = 0 /\ at = None /\ slot = 1 /\ passed = {} /\ loads = 0 /\ looks = 0
    /\ contexts = <<>> /\ system = None /\ appends = <<>> /\ warnings = <<>> /\ finds = <<>>
    /\ listed = [k \in Kinds |-> <<>>]
    /\ snapshot = None /\ prompt = <<>>

-----------------------------------------------------------------------------
(* A variant with a mistake in it.  No specification uses it: the checks put it in the place
   of the definition it resembles, to see that a property notices. *)

(* The later resource takes the place of the earlier one (order.remove forgotten). *)
InOldPlace(items) ==
    LET take(acc, x) ==
            IF \E i \in DOMAIN acc.kept : acc.kept[i].name = x.name
            THEN [kept |-> [i \in DOMAIN acc.kept |-> IF acc.kept[i].name = x.name THEN x ELSE acc.kept[i]],
                  shadows |-> Append(acc.shadows, [code |-> "shadowed", root |-> x.root])]
            ELSE [acc EXCEPT !.kept = Append(@, x)]
    IN  FoldLeft(take, [kept |-> <<>>, shadows |-> <<>>], items)

(* _dedupe_named: of the resources with one name the last one stays, at its own place, and each
   one that goes leaves a warning. *)
Dedupe(items) ==
    LET take(acc, x) ==
            LET others == SelectSeq(acc.kept, LAMBDA y : y.name # x.name) IN
            [kept |-> Append(others, x),
             shadows |-> IF others = acc.kept THEN acc.shadows
                         ELSE Append(acc.shadows, [code |-> "shadowed", root |-> x.root])]
    IN  FoldLeft(take, [kept |-> <<>>, shadows |-> <<>>], items)

(* SystemPromptBuilder.build: blocks without text are left out, a blank SYSTEM.md among them,
   which still takes the place of the default. *)
Build(snap) ==
    LET lines(part, items) ==
            LET full == SelectSeq(items, LAMBDA x : x.found = "text") IN
            [i \in DOMAIN full |-> [part |-> part, root |-> full[i].root]]
        base == IF snap.system = None THEN <<[part |-> "default", root |-> 0]>>
                ELSE lines("system", <<snap.system>>)
        catalog == IF snap.listed["skill"] = <<>> THEN <<>> ELSE <<[part |-> "skills", root |-> 0]>>
    IN  base \o lines("append", snap.appends) \o lines("context", snap.contexts) \o catalog

-----------------------------------------------------------------------------
(* load, or reload of a session that is idle. *)
Start ==
    /\ at = None /\ loads < MaxLoads
    /\ loads' = loads + 1 /\ generation' = generation + 1
    /\ at' = 0 /\ finds' = <<>>
    /\ UNCHANGED <<slot, passed, contexts, system, appends, listed, warnings>>
    /\ UNCHANGED <<sameDir, snapshot, prompt, looks>>

(* The walk looks on, finding nothing, up to slot s of root r. *)
Reach(r, s) ==
    /\ at # None /\ (r > at \/ (r = at /\ s >= slot))
    /\ at' = r

Warn(code) == warnings' = Append(warnings, [code |-> code, root |-> at'])
Find(x) == looks < MaxFinds /\ looks' = looks + 1 /\ finds' = Append(finds, x)

(* A context file, which may be excluded, unreadable or blank. *)
Path(i) == IF sameDir /\ i = 1 THEN 3 ELSE i
Context(i, found) ==
    LET x == [what |-> "context", root |-> i, found |-> found] IN
    /\ Reach(0, i) /\ Path(i) \notin passed
    /\ slot' = i + 1
    /\ passed' = passed \cup {Path(i)}
    /\ Find(x)
    /\ CASE found \in {"text", "blank"} -> contexts' = Append(contexts, x) /\ UNCHANGED warnings
         [] found = "broken" -> Warn("read_error") /\ UNCHANGED contexts
         [] OTHER -> UNCHANGED <<contexts, warnings>>
    /\ UNCHANGED <<sameDir, generation, system, appends, listed, snapshot, prompt, loads>>

(* SYSTEM.md and APPEND_SYSTEM.md of one root. *)
Text(r, s, found) ==
    LET x == [what |-> Slots[s], root |-> r, found |-> found]
        readable == found \in {"text", "blank"}
    IN
    /\ Reach(r, s) /\ slot' = s + 1
    /\ Find(x)
    /\ system' = IF s = 1 /\ readable THEN x ELSE system
    /\ appends' = IF s = 2 /\ readable THEN Append(appends, x) ELSE appends
    /\ IF found = "broken" THEN Warn("read_error") ELSE UNCHANGED warnings
    /\ UNCHANGED <<sameDir, generation, passed, contexts, listed, snapshot, prompt, loads>>

(* One more file under skills or themes of one root: a symbolic link, a file that cannot be read
   or parsed and a skill without a name are left out, each with a warning ("broken"); a skill
   without a description is kept, with one. *)
Resource(r, s, found, name) ==
    LET kind == Slots[s]
        x == [what |-> kind, root |-> r, found |-> found, name |-> IF found = "broken" THEN None ELSE name]
    IN
    /\ Reach(r, s) /\ slot' = s
    /\ found = "undescribed" => kind = "skill"
    /\ Find(x)
    /\ listed' = IF found = "broken" THEN listed ELSE [listed EXCEPT ![kind] = Append(@, x)]
    /\ IF found = "ok" THEN UNCHANGED warnings ELSE Warn(found)
    /\ UNCHANGED <<sameDir, generation, passed, contexts, system, appends, snapshot, prompt, loads>>

(* load is left, and its locals with it. *)
Forget ==
    /\ at' = None /\ slot' = 1 /\ passed' = {} /\ contexts' = <<>> /\ system' = None /\ appends' = <<>>
    /\ warnings' = <<>> /\ listed' = [k \in Kinds |-> <<>>]

(* The rest of load, which looks at no file, and reload_resources. *)
Publish ==
    LET kept == [k \in Kinds |-> Dedupe(listed[k])] IN
    /\ at # None
    /\ snapshot' = [generation |-> generation, system |-> system, appends |-> appends,
                    contexts |-> contexts, listed |-> [k \in Kinds |-> kept[k].kept],
                    warnings |-> warnings \o kept["skill"].shadows \o kept["theme"].shadows]
    /\ prompt' = Build(snapshot')
    /\ Forget
    /\ UNCHANGED <<sameDir, generation, finds, loads, looks>>

(* A directory that may not be looked into raises out of load: nothing is published. *)
LoadRaises ==
    /\ at # None
    /\ Forget /\ finds' = <<>>
    /\ UNCHANGED <<sameDir, generation, snapshot, prompt, loads, looks>>

ResourceNext ==
    \/ Start \/ Publish \/ LoadRaises
    \/ \E found \in {"excluded", "broken", "blank", "text"} :
        \/ \E i \in Candidates : Context(i, found)
        \/ \E r \in Roots, s \in 1 .. 2 : Text(r, s, found)
    \/ \E r \in Roots, s \in 3 .. 4, name \in Names :
        \E found \in {"broken", "undescribed", "ok"} : Resource(r, s, found, name)

ResourceSpec == ResourceInit /\ [][ResourceNext]_resourceVars

-----------------------------------------------------------------------------
(* The finds of a load that count for something, by their places in it. *)
Of(what) == {i \in DOMAIN finds : finds[i].what = what}
Readable(what) == {i \in Of(what) : finds[i].found \in {"text", "blank", "ok", "undescribed"}}
InOrder(s) == [k \in 1 .. Cardinality(s) |-> finds[CHOOSE i \in s : Cardinality({j \in s : j <= i}) = k]]
LastOf(s) == CHOOSE i \in s : \A j \in s : j <= i
Winners(kind) ==
    {i \in Readable(kind) : \A j \in Readable(kind) : finds[j].name = finds[i].name => j <= i}
WithText(what) == {i \in Readable(what) : finds[i].found = "text"}

(* A snapshot is that of one load from its beginning to its end.  Of every name it has the
   resource of the highest root that could be read, in the order of the walk; a file that could
   not be read hides nothing.  Everything left out but what is excluded has a warning.  The
   prompt of the session was built from the same snapshot: one base, then every append and
   every context, each context path once. *)
ResourcesSound ==
    at = None /\ snapshot # None /\ snapshot.generation = generation =>
        /\ \A k \in Kinds : snapshot.listed[k] = InOrder(Winners(k))
        /\ snapshot.system = IF Readable("SYSTEM.md") = {} THEN None
                             ELSE finds[LastOf(Readable("SYSTEM.md"))]
        /\ Len(snapshot.warnings) =
              Cardinality({i \in DOMAIN finds : finds[i].found \notin {"ok", "text", "blank", "excluded"}})
              + Cardinality(UNION {Readable(k) \ Winners(k) : k \in Kinds})
        /\ SelectSeq(prompt, LAMBDA b : b.part \in {"append", "context"}) =
              [i \in DOMAIN InOrder(WithText("APPEND_SYSTEM.md")) |->
                  [part |-> "append", root |-> InOrder(WithText("APPEND_SYSTEM.md"))[i].root]]
              \o [i \in DOMAIN InOrder(WithText("context")) |->
                    [part |-> "context", root |-> InOrder(WithText("context"))[i].root]]
        /\ Cardinality({b \in {prompt[i] : i \in DOMAIN prompt} : b.part \in {"system", "default"}}) =
              IF snapshot.system # None /\ snapshot.system.found = "blank" THEN 0 ELSE 1
        /\ ~ \E i, j \in Readable("context") : i # j /\ Path(finds[i].root) = Path(finds[j].root)
=============================================================================
