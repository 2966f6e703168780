----------------------------- MODULE MCPackages -----------------------------
(***************************************************************************)
(* What a session is assembled from, for TLC: PackageStore,                *)
(* ExtensionRuntime, CredentialStore, SettingsLayers and ResourceLoader,   *)
(* side by side in one run.  They share no variable: an initial state      *)
(* picks the one that moves, and the others stay where they begin.         *)
(***************************************************************************)
EXTENDS PackageStore, ExtensionRuntime, CredentialStore, Integers, TLC

CONSTANTS
    t1, t2, alone,      \* tasks, and calls: t1 and t2 are of one process when they are calls
    n1, n2,             \* providers, and names of resources
    MaxMentions, MaxSaves, MaxFinds, MaxLoads,
    Broken

VARIABLES
    view,           \* "store", "runtime", "credentials", "settings" or "resources"
    files, temporary, next, strictKeys, values, origins, warnings, outcome, mentions, saves, given,
    stored,
    sameDir, generation, at, slot, passed, contexts, system, appends, listed, noticed, snapshot,
    built, finds, loads, looks

layerVars == <<files, temporary, next, strictKeys, values, origins, warnings, outcome, mentions, saves,
               given, stored>>
loaderVars == <<sameDir, generation, at, slot, passed, contexts, system, appends, listed, noticed,
                snapshot, built, finds, loads, looks>>

(* Two versions of one package and another one that needs it. *)
MCSources == {[name |-> "a", version |-> 1, deps |-> {}],
              [name |-> "a", version |-> 2, deps |-> {}],
              [name |-> "b", version |-> 1, deps |-> {"a"}]}
MCProcessOf == [c \in {t1, t2, alone} |-> c = alone]
MCSymmetry == Permutations({t1, t2}) \cup Permutations({n1, n2})

(* One key, or the two that are compared, with the values that make a difference. *)
MCDocuments ==
    {[k \in {} |-> None]}
    \cup {"model" :> v : v \in {5, None, -1}} \cup {"colour" :> 5}
    \cup {"reserve" :> r : r \in {0, 2}} \cup {"keep" :> k : k \in {1, 3}}
    \cup {"reserve" :> 0 @@ "keep" :> 1, "reserve" :> 2 @@ "keep" :> 3}

(* Package q has a tool of the session's; package p one of its own, as has the extension x. *)
MCOrder == <<"p", "q", "x">>
MCToolOf == [p |-> "grep", q |-> "read", x |-> "find"]

L == INSTANCE SettingsLayers WITH Documents <- MCDocuments, strict <- strictKeys
Q == INSTANCE ResourceLoader WITH Names <- {n1, n2}, warnings <- noticed, prompt <- built

ASSUME L!SettingsAssumption /\ Q!ResourceAssumption

(* One initial state is enough for a part that does not move. *)
MCInit ==
    /\ Init /\ RuntimeInit /\ CredentialInit /\ L!SettingsInit /\ Q!ResourceInit
    /\ view \in {"store", "runtime", "credentials", "settings", "resources"}
    /\ view # "runtime" => ~strict
    /\ view # "credentials" => expired = {} /\ file = Nothing
    /\ view # "settings" => ~strictKeys /\ \A l \in DOMAIN files : files[l] = None
    /\ view # "resources" => sameDir
MCNext ==
    \/ view = "store" /\ Next /\ UNCHANGED <<view, runtimeVars, credentialVars, layerVars, loaderVars>>
    \/ view = "runtime" /\ RuntimeNext /\ UNCHANGED <<view, vars, credentialVars, layerVars, loaderVars>>
    \/ /\ view = "credentials" /\ CredentialNext
       /\ UNCHANGED <<view, vars, runtimeVars, layerVars, loaderVars>>
    \/ /\ view = "settings" /\ L!SettingsNext
       /\ UNCHANGED <<view, vars, runtimeVars, credentialVars, loaderVars>>
    \/ /\ view = "resources" /\ Q!ResourceNext
       /\ UNCHANGED <<view, vars, runtimeVars, credentialVars, layerVars>>
MCSpec == MCInit /\ [][MCNext]_<<vars, runtimeVars, credentialVars, layerVars, loaderVars, view>>

(* What a session is configured with is sound: the settings with their origins through loads,
   saves and updates (SettingsLayers), and the resources in their order of precedence
   (ResourceLoader). *)
ConfigurationSound == L!SettingsSound /\ Q!ResourcesSound
=============================================================================
