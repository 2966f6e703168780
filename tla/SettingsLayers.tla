--------------------------- MODULE SettingsLayers ---------------------------
(***************************************************************************)
(* SettingsResolver and SettingsStore (coding_agent/settings.py): six      *)
(* layers laid over each other, two of them files that other processes     *)
(* may replace while they are read one after the other.                    *)
(*                                                                         *)
(* A document is a flat function from keys to raw values (_flatten); its   *)
(* nesting is JSON's or TOML's and goes and comes back unchanged.          *)
(***************************************************************************)
EXTENDS Integers, Sequences, FiniteSets

CONSTANTS
    Documents,      \* what a layer may say; the empty document among them
    MaxMentions,    \* bound: mentions of keys in all documents together
    MaxSaves,       \* bound: files saved while the layers are read
    None, Broken    \* no value or file; a file that cannot be read or parsed

(* Three settings stand for the thirty: one that may be null, and the two numbers that
   _validate_cross_fields compares.  Nobody knows the key "colour". *)
Specs == {"model", "reserve", "keep"}
Default == [model |-> None, reserve |-> 1, keep |-> 2]
Unknown == "colour"
Garbage == -1       \* what coerce or validate turns down
Empty == [k \in {} |-> None]
Size(doc) == Cardinality(DOMAIN doc)

(* Assumed where this module is instantiated: a document says of a number another number,
   or Garbage. *)
SettingsAssumption ==
    /\ MaxMentions \in Nat /\ MaxSaves \in Nat /\ None # Garbage
    /\ Empty \in Documents
    /\ \A d \in Documents :
        /\ DOMAIN d \subseteq Specs \cup {Unknown}
        /\ \A k \in {"reserve", "keep"} \cap DOMAIN d : d[k] \in Int

Layers == <<"global", "project", "environment", "cli", "runtime">>
FileLayers == {"global", "project"}

VARIABLES
    files,          \* per file layer its document, None (no file) or Broken
    temporary,      \* a save before its os.replace: target and document, or None
    next,           \* the layer resolve is at; past the last one it is done
    strict,         \* strict_unknown
    values, origins, warnings,
    outcome,        \* "resolving", "resolved" or "error"
    mentions, saves,\* for the bounds
    given,          \* history: the documents of the layers so far
    stored          \* history: the contents each file has had

settingsVars == <<files, temporary, next, strict, values, origins, warnings, outcome, mentions, saves,
                  given, stored>>

SaidBy(layer) == IF files[layer] \in {None, Broken} THEN 0 ELSE Size(files[layer])

SettingsInit ==
    /\ files \in [FileLayers -> {None, Broken} \cup Documents]
    /\ mentions = SaidBy("global") + SaidBy("project") /\ mentions <= MaxMentions
    /\ temporary = None /\ next = 1 /\ strict \in BOOLEAN
    /\ values = Default /\ origins = [k \in Specs |-> "default"] /\ warnings = <<>>
    /\ outcome = "resolving" /\ saves = 0
    /\ given = <<>> /\ stored = [l \in FileLayers |-> {files[l]}]

-----------------------------------------------------------------------------
(* _apply_mapping: a key that is wrong changes nothing, and the others are still looked at. *)
Wrong(doc) == {k \in DOMAIN doc : doc[k] = Garbage \/ (k = Unknown /\ strict)}
Accepted(doc) == (DOMAIN doc \cap Specs) \ Wrong(doc)

Apply(layer, doc) ==
    /\ values' = [k \in Specs |-> IF k \in Accepted(doc) THEN doc[k] ELSE values[k]]
    /\ origins' = [k \in Specs |-> IF k \in Accepted(doc) THEN layer ELSE origins[k]]
    /\ warnings' = IF Unknown \in DOMAIN doc /\ ~strict THEN Append(warnings, layer) ELSE warnings
    /\ given' = Append(given, doc)
    /\ IF Wrong(doc) = {} THEN next' = next + 1 /\ UNCHANGED outcome
       ELSE outcome' = "error" /\ UNCHANGED next

(* _apply_file: a missing file is skipped, one that cannot be read or parsed is an error. *)
ApplyFile ==
    /\ outcome = "resolving" /\ next \in 1 .. 2
    /\ LET found == files[Layers[next]] IN
       IF found = Broken
       THEN outcome' = "error" /\ UNCHANGED <<next, values, origins, warnings, given>>
       ELSE Apply(Layers[next], IF found = None THEN Empty ELSE found)
    /\ UNCHANGED <<files, temporary, strict, mentions, saves, stored>>

(* _apply_environment, which looks for known names only, and the two overrides. *)
ApplyOverrides(doc) ==
    /\ outcome = "resolving" /\ next \in 3 .. 5
    /\ next = 3 => DOMAIN doc \subseteq Specs
    /\ mentions + Size(doc) <= MaxMentions /\ mentions' = mentions + Size(doc)
    /\ Apply(Layers[next], doc)
    /\ UNCHANGED <<files, temporary, strict, saves, stored>>

(* _validate_cross_fields, on the values that came out on top. *)
CrossCheck ==
    /\ outcome = "resolving" /\ next = 6
    /\ outcome' = IF values["keep"] <= values["reserve"] THEN "error" ELSE "resolved"
    /\ UNCHANGED <<files, temporary, next, strict, values, origins, warnings, mentions, saves, given, stored>>

-----------------------------------------------------------------------------
(* save_settings_file: the text is made first, which TOML refuses for null, then written to a
   temporary file, then moved over the old one.  Only what is saved meanwhile matters here. *)
Save(layer, doc) ==
    /\ outcome = "resolving" /\ saves < MaxSaves /\ temporary = None
    /\ mentions + Size(doc) <= MaxMentions /\ mentions' = mentions + Size(doc)
    /\ saves' = saves + 1
    /\ \/ temporary' = [target |-> layer, doc |-> doc]
       \/ (\E k \in DOMAIN doc : doc[k] = None) /\ UNCHANGED temporary
    /\ UNCHANGED <<files, next, strict, values, origins, warnings, outcome, given, stored>>

Replace ==
    /\ temporary # None
    /\ files' = [files EXCEPT ![temporary.target] = temporary.doc]
    /\ stored' = [stored EXCEPT ![temporary.target] = @ \cup {temporary.doc}]
    /\ temporary' = None
    /\ UNCHANGED <<next, strict, values, origins, warnings, outcome, mentions, saves, given>>

(* Writing it fails, or its process dies. *)
SaveFails ==
    /\ temporary # None
    /\ temporary' = None
    /\ UNCHANGED <<files, next, strict, values, origins, warnings, outcome, mentions, saves, given, stored>>

SettingsNext ==
    \/ ApplyFile \/ CrossCheck \/ Replace \/ SaveFails
    \/ \E doc \in Documents : ApplyOverrides(doc)
    \/ \E layer \in FileLayers, doc \in Documents : Save(layer, doc)

SettingsSpec == SettingsInit /\ [][SettingsNext]_settingsVars

-----------------------------------------------------------------------------
(* The layers that say anything of a key. *)
Mentioning(k) == {i \in 1 .. Len(given) : k \in DOMAIN given[i]}
Highest(s) == CHOOSE i \in s : \A j \in s : j <= i
Final(k) == IF Mentioning(k) = {} THEN Default[k] ELSE given[Highest(Mentioning(k))][k]

(* What is resolved is, key by key, what the highest layer that mentions it says, with that
   layer as its origin; no layer had a key that is wrong, every unknown key has left a warning,
   and the two token numbers fit, wherever each of them came from.  Resolving fails only for a
   reason.  Each file layer was a whole document some save had put there. *)
SettingsSound ==
    /\ outcome = "resolved" =>
        /\ \A k \in Specs :
            /\ values[k] = Final(k) /\ values[k] # Garbage
            /\ origins[k] = IF Mentioning(k) = {} THEN "default" ELSE Layers[Highest(Mentioning(k))]
        /\ values["reserve"] < values["keep"]
        /\ Len(warnings) = Cardinality(Mentioning(Unknown)) /\ (strict => warnings = <<>>)
    /\ outcome = "error" =>
        \/ next <= 2 /\ Broken \in stored[Layers[next]]
        \/ given # <<>> /\ Wrong(given[Len(given)]) # {}
        \/ next = 6 /\ Final("keep") <= Final("reserve")
    /\ \A i \in 1 .. Len(given) : i <= 2 =>
        given[i] \in stored[Layers[i]] \/ (given[i] = Empty /\ None \in stored[Layers[i]])
=============================================================================
