----------------------------- MODULE SessionFiles -----------------------------
(***************************************************************************)
(* SessionRepository (harness/session/manager.py) and what it needs of     *)
(* JsonlSessionStore (session/store.py): sessions are created, opened,     *)
(* added to, renamed, listed, deleted, exported and imported by processes  *)
(* that share a directory and take no lock for most of it.                 *)
(*                                                                         *)
(* An append is one step here; SessionLog has its parts.  A file holds a   *)
(* header, "empty" and "torn" for what does not make one, and entries; a   *)
(* node tells a file from another that later has its name.                 *)
(***************************************************************************)
EXTENDS Naturals, Sequences, Functions

CONSTANTS
    Processes,
    Ids,            \* session ids, or the names of files in the directory
    Outside,        \* the file that sessions are exported to and imported from
    MaxNodes, MaxSaid, MaxUses, MaxDeaths,     \* bounds
    Absent          \* no file, no session, nothing loaded

Files == Ids \cup {Outside}
Marks == {"empty", "torn"}
Contents == [head : Files \cup Marks, body : Seq(Nat), tail : BOOLEAN, node : Nat]

ASSUME FilesAssumption ==
    /\ Outside \notin Ids /\ Files \cap Marks = {} /\ Absent \notin Files \cup Contents
    /\ MaxNodes \in Nat /\ MaxSaid \in Nat /\ MaxUses \in Nat /\ MaxDeaths \in Nat

VARIABLES
    disk,           \* per file what is in it, or Absent
    proc,           \* per process: what it does, with which file and node, what it has loaded and
                    \* has still to write, the files it has still to list
    manager,        \* per process the session it has open, or Absent
    nodes, entries, \* files and entries made
    uses, deaths,
    kept,           \* history: per session the entries acknowledged since it was made
    made,           \* history: imports that succeeded and none of raced below, as <<what was
                    \* loaded, the file then>>
    vanished,       \* history: per process, a file was deleted while it listed
    raced,          \* history: files that came or went, or whose source changed, between two
                    \* steps of the one who imports or makes them
    hurt            \* history: files left by a dead process or by an append to a deleted session

sessionVars == <<disk, proc, manager, nodes, entries, uses, deaths, kept, made, vanished, raced, hurt>>

Content(head, body, tail, node) == [head |-> head, body |-> body, tail |-> tail, node |-> node]
Idle == [op |-> "none", file |-> Absent, from |-> Absent, got |-> Absent, left |-> <<>>,
         todo |-> {}, node |-> 0]

FilesInit ==
    /\ disk = [f \in Files |-> Absent]
    /\ proc = [p \in Processes |-> Idle] /\ manager = [p \in Processes |-> Absent]
    /\ nodes = 0 /\ entries = 0 /\ uses = 0 /\ deaths = 0
    /\ kept = [i \in Ids |-> {}] /\ made = {} /\ vanished = [p \in Processes |-> FALSE]
    /\ raced = {} /\ hurt = {}

There(f) == disk[f] # Absent
(* load: what is left of a torn record at the end does not matter, a header does. *)
LoadsOn(d, f) == d[f] # Absent /\ d[f].head \notin Marks
Loads(f) == LoadsOn(disk, f)
Doing(p, op) == proc[p].op = op
Becomes(p, r) == proc' = [proc EXCEPT ![p] = r]
Starts(p) == Doing(p, "none") /\ uses < MaxUses /\ uses' = uses + 1
NewNode == nodes < MaxNodes /\ nodes' = nodes + 1
Histories == <<kept, made, vanished, raced, hurt>>

-----------------------------------------------------------------------------
(* JsonlSessionStore.create: an empty file that was not there, then its header; import_file
   under another id goes this way too.  Whoever comes first gets it. *)
MakeEmpty(f) ==
    /\ NewNode
    /\ disk' = [disk EXCEPT ![f] = Content("empty", <<>>, FALSE, nodes + 1)]

Create(p, f) ==
    /\ Starts(p)
    /\ \/ There(f) /\ UNCHANGED <<disk, proc, nodes>>
       \/ /\ ~There(f) /\ MakeEmpty(f)
          /\ Becomes(p, [Idle EXCEPT !.op = "header", !.file = f, !.node = nodes + 1])
    /\ UNCHANGED <<manager, entries, deaths, Histories>>

(* The file is still the one that was made. *)
Mine(p) == There(proc[p].file) /\ disk[proc[p].file].node = proc[p].node

(* The header, and for an import the entries one after the other. *)
WriteHeader(p) ==
    LET u == proc[p] IN
    /\ Doing(p, "header")
    /\ disk' = IF Mine(p) THEN [disk EXCEPT ![u.file].head = u.file] ELSE disk
    /\ kept' = IF Mine(p) THEN [kept EXCEPT ![u.file] = {}] ELSE kept
    /\ IF u.got # Absent
       THEN Becomes(p, [u EXCEPT !.op = "entries"]) /\ UNCHANGED manager
       ELSE Becomes(p, Idle) /\ manager' = [manager EXCEPT ![p] = IF LoadsOn(disk', u.file) THEN u.file ELSE @]
    /\ UNCHANGED <<nodes, entries, uses, deaths, made, vanished, raced, hurt>>

(* append: refused after a torn record, and to a file that is gone, which leaves an empty one. *)
AppendTo(f, entry) ==
    \/ /\ Loads(f) /\ ~disk[f].tail
       /\ disk' = [disk EXCEPT ![f].body = Append(@, entry)] /\ UNCHANGED <<nodes, hurt>>
    \/ /\ There(f) /\ (disk[f].tail \/ ~Loads(f)) /\ UNCHANGED <<disk, nodes, hurt>>
    \/ ~There(f) /\ MakeEmpty(f) /\ hurt' = hurt \cup {f}

Added(f) == Loads(f) /\ ~disk[f].tail

Say(p) ==
    LET f == manager[p] IN
    /\ f # Absent /\ Starts(p) /\ entries < MaxSaid /\ entries' = entries + 1
    /\ AppendTo(f, entries + 1)
    /\ kept' = IF Added(f) THEN [kept EXCEPT ![f] = @ \cup {entries + 1}] ELSE kept
    /\ UNCHANGED <<proc, manager, deaths, made, vanished, raced>>

OpenSession(p, f) ==
    /\ Starts(p) /\ manager' = [manager EXCEPT ![p] = IF Loads(f) THEN f ELSE @]
    /\ UNCHANGED <<disk, proc, nodes, entries, deaths, Histories>>

Delete(p, f) ==
    /\ Starts(p) /\ There(f)
    /\ disk' = [disk EXCEPT ![f] = Absent] /\ kept' = [kept EXCEPT ![f] = {}]
    /\ vanished' = [q \in Processes |-> vanished[q] \/ (Doing(q, "list") /\ f \in proc[q].todo)]
    /\ hurt' = hurt \ {f}
    /\ raced' = IF \E q \in Processes : proc[q].file = f THEN raced \cup {f} ELSE raced \ {f}
    /\ UNCHANGED <<proc, manager, nodes, entries, deaths, made>>

(* list: the names first, then a file at a time.  What does not load gets a row with the
   error, for which stat is asked: a file that is gone raises there. *)
List(p) ==
    /\ Starts(p) /\ Becomes(p, [Idle EXCEPT !.op = "list", !.todo = {f \in Ids : There(f)}])
    /\ vanished' = [vanished EXCEPT ![p] = FALSE]
    /\ UNCHANGED <<disk, manager, nodes, entries, deaths, kept, made, raced, hurt>>
Row(p) ==
    /\ Doing(p, "list")
    /\ IF proc[p].todo = {} THEN Becomes(p, Idle)
       ELSE \E f \in proc[p].todo :
                Becomes(p, IF There(f) THEN [proc[p] EXCEPT !.todo = @ \ {f}]
                           ELSE [Idle EXCEPT !.op = "raised"])
    /\ UNCHANGED <<disk, manager, nodes, entries, uses, deaths, Histories>>
Told(p) ==
    /\ Doing(p, "raised") /\ Becomes(p, Idle)
    /\ UNCHANGED <<disk, manager, nodes, entries, uses, deaths, Histories>>

(* shutil.copyfile: the target is emptied, whatever it holds, then written. *)
CopyOpens(p, from, to) ==
    LET node == IF There(to) THEN disk[to].node ELSE nodes + 1 IN
    /\ IF There(to) THEN UNCHANGED nodes ELSE NewNode
    /\ disk' = [disk EXCEPT ![to] = Content("empty", <<>>, FALSE, node)]
    /\ Becomes(p, [proc[p] EXCEPT !.op = "copy", !.from = from, !.file = to, !.node = node, !.got = disk[from]])

Export(p, f) ==
    /\ Starts(p) /\ There(f) /\ CopyOpens(p, f, Outside)
    /\ hurt' = hurt \ {Outside}
    /\ UNCHANGED <<manager, entries, deaths, kept, made, vanished, raced>>

(* Variants with a mistake in them.  No specification uses them: the checks put each one in
   the place of the definition it resembles, to see that a property notices. *)

(* Whatever has the name is overwritten. *)
TakenNever(f) == FALSE

(* import_file: target.exists(). *)
Taken(f) == There(f)

(* import_file: the source is loaded, then the name looked at, then the file made. *)
Import(p, f) ==
    /\ Starts(p) /\ Loads(Outside) /\ ~Taken(f)
    /\ Becomes(p, [Idle EXCEPT !.op = "import", !.file = f, !.got = disk[Outside],
                              !.left = disk[Outside].body, !.node = nodes])
    /\ UNCHANGED <<disk, manager, nodes, entries, deaths, Histories>>

(* The source as it is now, or was when it was deleted under the copy. *)
Source(p) ==
    LET u == proc[p] IN IF There(u.from) /\ disk[u.from].node = u.got.node THEN disk[u.from] ELSE u.got
Changes(p) == IF proc[p].file \in Ids /\ Source(p) # proc[p].got THEN raced \cup {proc[p].file} ELSE raced

(* Under its own id it is copied. *)
ImportCopies(p) ==
    LET u == proc[p] IN
    /\ Doing(p, "import") /\ u.got.head = u.file
    /\ CopyOpens(p, Outside, u.file)
    /\ raced' = IF disk[Outside] # u.got \/ (There(u.file) /\ disk[u.file].node > u.node)
                THEN raced \cup {u.file} ELSE raced
    /\ UNCHANGED <<manager, entries, uses, deaths, kept, made, vanished, hurt>>

(* Under another id it gets a header of its own. *)
ImportMakes(p) ==
    LET u == proc[p] IN
    /\ Doing(p, "import") /\ u.got.head # u.file
    /\ IF There(u.file) THEN Becomes(p, Idle) /\ UNCHANGED <<disk, nodes>>
       ELSE MakeEmpty(u.file) /\ Becomes(p, [u EXCEPT !.op = "header", !.node = nodes + 1])
    /\ UNCHANGED <<manager, entries, uses, deaths, Histories>>

Imported(p, f) ==
    /\ made' = IF f \in raced' THEN made ELSE made \cup {<<proc[p].got.body, disk'[f].body>>}
    /\ kept' = [kept EXCEPT ![f] = @ \cup Range(disk'[f].body)]
    /\ manager' = [manager EXCEPT ![p] = f]

(* What the source holds now is what is copied. *)
CopyWrites(p) ==
    LET u == proc[p]
        import == u.file # Outside
    IN
    /\ Doing(p, "copy")
    /\ disk' = IF Mine(p) THEN [disk EXCEPT ![u.file] = [Source(p) EXCEPT !.node = u.node]] ELSE disk
    /\ Becomes(p, Idle) /\ raced' = Changes(p)
    /\ IF import /\ LoadsOn(disk', u.file) THEN Imported(p, u.file) ELSE UNCHANGED <<kept, made, manager>>
    /\ UNCHANGED <<nodes, entries, uses, deaths, vanished, hurt>>

ImportAppends(p) ==
    LET u == proc[p] IN
    /\ Doing(p, "entries") /\ UNCHANGED raced
    /\ IF u.left # <<>>
       THEN /\ AppendTo(u.file, Head(u.left))
            /\ Becomes(p, IF Added(u.file) THEN [u EXCEPT !.left = Tail(@)] ELSE Idle)
            /\ UNCHANGED <<manager, kept, made>>
       ELSE /\ Becomes(p, Idle) /\ UNCHANGED <<disk, nodes, hurt>>
            /\ IF Loads(u.file) THEN Imported(p, u.file) ELSE UNCHANGED <<manager, kept, made>>
    /\ UNCHANGED <<entries, uses, deaths, vanished>>

(* A process dies, in the middle of what it writes maybe. *)
Die(p) ==
    LET u == proc[p] IN
    /\ u.op # "none" /\ deaths < MaxDeaths /\ deaths' = deaths + 1
    /\ Becomes(p, Idle) /\ manager' = [manager EXCEPT ![p] = Absent]
    /\ hurt' = IF u.op \in {"header", "entries", "copy"} THEN hurt \cup {u.file} ELSE hurt
    /\ \/ UNCHANGED disk
       \/ u.op = "header" /\ Mine(p) /\ disk' = [disk EXCEPT ![u.file].head = "torn"]
       \/ /\ u.op = "copy" /\ Mine(p)
          /\ \E n \in 0 .. Len(Source(p).body) :
                disk' = [disk EXCEPT ![u.file] =
                            Content(Source(p).head, SubSeq(Source(p).body, 1, n), TRUE, u.node)]
    /\ raced' = IF u.op = "copy" THEN Changes(p) ELSE raced
    /\ UNCHANGED <<nodes, entries, uses, kept, made, vanished>>

FilesNext ==
    \E p \in Processes :
        \/ \E f \in Ids : Create(p, f) \/ OpenSession(p, f) \/ Delete(p, f) \/ Export(p, f) \/ Import(p, f)
        \/ WriteHeader(p) \/ Say(p) \/ List(p) \/ Row(p) \/ Told(p)
        \/ ImportCopies(p) \/ ImportMakes(p) \/ CopyWrites(p) \/ ImportAppends(p) \/ Die(p)

FilesSpec == FilesInit /\ [][FilesNext]_sessionVars

-----------------------------------------------------------------------------
BeingMade(f) == \E p \in Processes : proc[p].op \in {"header", "copy"} /\ proc[p].file = f /\ Mine(p)

(* As long as nobody made, deleted or exported the same file between two steps of an import or
   of a create: a session has every entry that was acknowledged since it was made and not
   deleted, an import never takes the place of a session, what it answers holds all that it
   loaded, and a file names the session it is called after.  A file that does not load was
   left by a process that died, or by one that went on with a session that was deleted.  And a
   list fails only when a file is deleted under it. *)
SessionsKept ==
    /\ \A i \in Ids \ raced :
        /\ kept[i] # {} => Loads(i) /\ kept[i] \subseteq Range(disk[i].body)
        /\ Loads(i) => disk[i].head = i
        /\ There(i) /\ ~Loads(i) => i \in hurt \/ BeingMade(i)
    /\ \A m \in made : Range(m[1]) \subseteq Range(m[2])
    /\ \A p \in Processes : Doing(p, "raised") => vanished[p]
=============================================================================
