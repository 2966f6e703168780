----------------------------- MODULE SessionLog -----------------------------
(***************************************************************************)
(* A session on disk: the append-only JSONL file (harness/session/         *)
(* store.py), the tree it stands for (harness/session/tree.py) and the     *)
(* SessionManagers of the processes that have it open                      *)
(* (harness/session/manager.py).                                           *)
(*                                                                         *)
(* lines are the lines after the header.  The entry ids, which are drawn   *)
(* at random, are the positions of the entries: 0 is no entry.  A write    *)
(* may stop anywhere: before it, inside the record, before the newline.    *)
(* Appends and repairs hold the file lock.  load() does not, but all that  *)
(* it can see of a write in progress is a last line it ignores.            *)
(***************************************************************************)
EXTENDS Naturals, Sequences, SequencesExt

CONSTANTS
    Procs,          \* processes that may have the session open
    MaxLines        \* bound: lines of the file after the header

ASSUME LinesAssumption == MaxLines \in Nat

VARIABLES
    lines,      \* the lines of the file after its header
    ended,      \* the last line has its newline
    pc, view, leaf,     \* per manager: control, lines its tree was built from, tree.leaf_id
    target,     \* per manager: the leaf its call in progress selects
    users,      \* history: processes that have opened the session
    acked,      \* history: leaf of the last append or navigation that returned
    attempted   \* history: leaves that calls since then tried to select

fileVars == <<lines, ended>>
managerVars == <<pc, view, leaf, target>>
historyVars == <<users, acked, attempted>>
vars == <<fileVars, managerVars, historyVars>>

Torn == [type |-> "torn"]
Cursor(e) == [type |-> "cursor", leaf |-> e]
Entry(k, p, c) == [type |-> "entry", kind |-> k, parent |-> p, of |-> c]

-----------------------------------------------------------------------------
(* decode_jsonl *)

IgnoredTail == ~ ended /\ lines # <<>> /\ lines[Len(lines)] = Torn
Records == IF IgnoredTail THEN Front(lines) ELSE lines
Corrupt == \E i \in DOMAIN Records : Records[i] = Torn

(* SessionTree *)
EntryIds(rs) == {i \in DOMAIN rs : rs[i].type = "entry"}
Cursors(rs) == {i \in DOMAIN rs : rs[i].type = "cursor"}
Latest(S) == CHOOSE i \in S : \A j \in S : j <= i

LeafOf(rs) ==
    IF Cursors(rs) # {} THEN rs[Latest(Cursors(rs))].leaf
    ELSE IF EntryIds(rs) # {} THEN Latest(EntryIds(rs)) ELSE 0

(* path_to: the entries from the root to e. *)
PathTo(rs, e) ==
    LET path[i \in 0 .. e] == IF i = 0 THEN <<>> ELSE Append(path[rs[i].parent], i)
    IN  path[e]

(* validate_records *)
KnownParents(rs) ==
    \A i \in EntryIds(rs) : rs[i].parent \in {0} \cup {j \in EntryIds(rs) : j < i}
KnownCursor(rs) == LeafOf(rs) \in {0} \cup EntryIds(rs)
AnsweredCalls(rs) ==
    \A i \in EntryIds(rs) : rs[i].kind = "result" =>
        LET path == PathTo(rs, rs[i].parent)
        IN  \E a \in DOMAIN path : path[a] = rs[i].of /\ rs[path[a]].kind = "call"
Valid(rs) == KnownParents(rs) /\ KnownCursor(rs) /\ AnsweredCalls(rs)

-----------------------------------------------------------------------------
Init ==
    /\ lines = <<>> /\ ended = TRUE
    /\ pc = [p \in Procs |-> "down"]
    /\ view = [p \in Procs |-> 0]
    /\ leaf = [p \in Procs |-> 0]
    /\ target = [p \in Procs |-> 0]
    /\ users = {}
    /\ acked = 0
    /\ attempted = {}

(* Variants with a mistake in them.  No specification uses them: the checks put each one in
   the place of the definition it resembles, to see that a property notices. *)

(* A torn last line does not keep append from writing. *)
RefusedIfInvalid(rec) == Corrupt \/ ~ Valid(Append(Records, rec))

(* The repair removes whatever last line lacks its newline. *)
TruncateUnended(p) ==
    /\ pc[p] = "down"
    /\ ~ ended
    /\ lines' = Front(lines)
    /\ ended' = TRUE
    /\ UNCHANGED <<managerVars, historyVars>>

(* The leaf is refreshed and the tree is not. *)
LoadLeafOnly(p) ==
    /\ leaf' = [leaf EXCEPT ![p] = LeafOf(Records)]
    /\ pc' = [pc EXCEPT ![p] = "ready"]
    /\ target' = [target EXCEPT ![p] = 0]
    /\ UNCHANGED <<fileVars, view>>

-----------------------------------------------------------------------------
(* JsonlSessionStore.append refuses to write after a torn line, or what validate_records
   refuses.  The caller gets an exception. *)
Refused(rec) ==
    IgnoredTail \/ Corrupt \/ ~ Valid(Append(Records, rec))

(* The write of append: a missing newline, the record, its own newline. *)
Write(rec) ==
    /\ ~ Refused(rec) /\ Len(lines) < MaxLines
    /\ lines' = Append(lines, rec)
    /\ ended' = TRUE

(* A write that stops early leaves nothing, a newline, a torn record or a whole one that
   lacks its newline. *)
WriteStops(rec) ==
    /\ ~ Refused(rec) /\ Len(lines) < MaxLines
    /\ \/ lines' = lines /\ ended' = TRUE
       \/ lines' = Append(lines, Torn) /\ ended' = FALSE
       \/ lines' = Append(lines, rec) /\ ended' = FALSE

Goes(p, l) == pc' = [pc EXCEPT ![p] = l]
Selects(p, e) == target' = [target EXCEPT ![p] = e]

(* The process is gone, and its tree with it. *)
Dies(p) ==
    /\ Goes(p, "down") /\ Selects(p, 0)
    /\ view' = [view EXCEPT ![p] = 0]
    /\ leaf' = [leaf EXCEPT ![p] = 0]

(* The call raises and leaves the tree as it was. *)
Raises(p) ==
    /\ Goes(p, "ready") /\ Selects(p, 0)
    /\ UNCHANGED <<view, leaf>>

(* What a process may append: an entry that may hold calls (one that does not is like one
   whose calls stay unanswered), or the result of a call it knows. *)
NewEntries(p) ==
    {Entry("call", leaf[p], 0)}
        \cup {Entry("result", leaf[p], c) :
                    c \in {i \in EntryIds(lines) : i <= view[p] /\ lines[i].kind = "call"}}

(* SessionManager._append: the entry, its cursor and the reload are three steps. *)
AppendEntry(p) ==
    /\ pc[p] = "ready"
    /\ \E e \in NewEntries(p) :
        \/ /\ Write(e)
           /\ Goes(p, "cursor") /\ Selects(p, Len(lines) + 1)
           /\ UNCHANGED <<view, leaf>>
        \/ WriteStops(e) /\ (Raises(p) \/ Dies(p))
    /\ attempted' = attempted \cup {Len(lines) + 1}
    /\ UNCHANGED <<users, acked>>

AppendCursor(p) ==
    /\ pc[p] = "cursor"
    /\ \/ /\ Write(Cursor(target[p]))
          /\ Goes(p, "reload")
          /\ UNCHANGED <<view, leaf, target>>
       \/ WriteStops(Cursor(target[p])) /\ (Raises(p) \/ Dies(p))
       \/ Refused(Cursor(target[p])) /\ Raises(p) /\ UNCHANGED fileVars
    /\ UNCHANGED historyVars

(* SessionManager.navigate and fork *)
Navigate(p, e) ==
    /\ pc[p] = "ready" /\ e # leaf[p]
    /\ \/ /\ Write(Cursor(e))
          /\ Goes(p, "reload") /\ Selects(p, e)
          /\ UNCHANGED <<view, leaf>>
       \/ WriteStops(Cursor(e)) /\ (Raises(p) \/ Dies(p))
    /\ attempted' = attempted \cup {e}
    /\ UNCHANGED <<users, acked>>

(* navigate(..., persist=False) *)
Look(p, e) ==
    /\ pc[p] = "ready" /\ e # leaf[p]
    /\ leaf' = [leaf EXCEPT ![p] = e]
    /\ UNCHANGED <<fileVars, pc, view, target, historyVars>>

Load(p) ==
    /\ ~ Corrupt /\ Valid(Records)
    /\ view' = [view EXCEPT ![p] = Len(Records)]
    /\ leaf' = [leaf EXCEPT ![p] = LeafOf(Records)]
    /\ Goes(p, "ready") /\ Selects(p, 0)
    /\ UNCHANGED fileVars

(* SessionManager.reload, with which the call returns. *)
Reload(p) ==
    /\ pc[p] = "reload"
    /\ Load(p)
    /\ acked' = target[p]
    /\ attempted' = {}
    /\ UNCHANGED users

(* SessionManager(store) *)
Open(p) ==
    /\ pc[p] = "down"
    /\ Load(p)
    /\ users' = users \cup {p}
    /\ acked' = LeafOf(Records)
    /\ attempted' = {}

(* repair_tail, before the session is opened again. *)
RepairTail(p) ==
    /\ pc[p] = "down"
    /\ IgnoredTail
    /\ lines' = Front(lines)
    /\ ended' = TRUE
    /\ UNCHANGED <<managerVars, historyVars>>

Crash(p) ==
    /\ pc[p] # "down"
    /\ Dies(p)
    /\ UNCHANGED <<fileVars, historyVars>>

Next ==
    \E p \in Procs :
        \/ AppendEntry(p) \/ AppendCursor(p) \/ Reload(p)
        \/ \E e \in {0} \cup {i \in EntryIds(lines) : i <= view[p]} :
                Navigate(p, e) \/ Look(p, e)
        \/ Open(p) \/ RepairTail(p) \/ Crash(p)

Spec == Init /\ [][Next]_vars

-----------------------------------------------------------------------------
(* Properties *)

(* "A damaged final record must not invalidate prior complete records"
   (docs/upstream/session-model.md): at every moment, whichever writes of whichever process
   were cut short, a fresh load of the file succeeds: nothing but its last line is torn, and
   parents, cursor and tool results are in order. *)
FileLoads == ~ Corrupt /\ Valid(Records)

(* "Existing entries are immutable": a record that a load would have returned is returned by
   every later load, at the same place; a repair discards none. *)
RecordsStay ==
    [][\A i \in DOMAIN Records : i \in DOMAIN Records' /\ Records'[i] = Records[i]]_vars

(* As long as a single process has used the session, a restart at any moment resumes exactly
   where the last call that returned had left the conversation, or at a leaf that a call
   since then was trying to select and did not report. *)
ResumesWhereItWas ==
    (\A p, q \in users : p = q) => LeafOf(Records) \in {acked} \cup attempted

(* What a process can be shown is never rewritten under it: the path of its leaf in the file
   is the path in the tree it has loaded, and holds every call whose result it holds. *)
ViewsStayTrue ==
    \A p \in Procs : pc[p] = "ready" =>
        LET seen == SubSeq(Records, 1, view[p])
        IN  /\ Valid(Append(seen, Cursor(leaf[p])))
            /\ PathTo(seen, leaf[p]) = PathTo(Records, leaf[p])

(* Neither those who have the session open nor those who open it again find another
   conversation than the one that was left there. *)
ConversationStays == ViewsStayTrue /\ ResumesWhereItWas
=============================================================================
