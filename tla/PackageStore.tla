---------------------------- MODULE PackageStore ----------------------------
(***************************************************************************)
(* PackageManager (coding_agent/packages/manager.py): package directories, *)
(* their backups and packages.lock.json, changed by several processes      *)
(* under one file lock, a system call at a time.  A change leaves a        *)
(* receipt, which its owner finalizes or rolls back later, under the lock  *)
(* taken again.  Any step may raise or be the last one of its process.     *)
(*                                                                         *)
(* A directory is the source it was copied from: the integrity hash tells  *)
(* sources apart and nothing else.  A task is a process: tasks of one      *)
(* process exclude each other by _async_lock and _thread_lock as processes *)
(* do by the file.  A call that is refused changes nothing: no action.     *)
(***************************************************************************)
EXTENDS Naturals, FiniteSets

CONSTANTS
    Tasks,          \* processes that manage the packages of one root
    Names,          \* package names
    Sources,        \* manifests: records with a name, a version and the names deps
    MaxChanges,     \* bound: installs and removals begun
    MaxFaults,      \* bound: crashes and errors while a change is written or undone
    AsideMayFail,   \* os.replace(target, backup) may raise
    None, Torn      \* no file or entry; a directory removed in part

ASSUME StoreAssumption ==
    /\ MaxChanges \in Nat /\ MaxFaults \in Nat /\ AsideMayFail \in BOOLEAN
    /\ \A s \in Sources : s.name \in Names /\ s.deps \subseteq Names
    /\ None \notin Sources \cup Tasks /\ Torn \notin Sources /\ None # Torn
    /\ None \notin [pkg : Sources, at : Nat]

VARIABLES
    lockfile,       \* packages.lock.json: per name its entry [pkg, at], or None
    dirs,           \* packages/<name>: source, None or Torn
    backups,        \* .package-backups, numbered: source, None or Torn
    holder,         \* who holds .packages.lock
    op,             \* per task: what it does under the lock
    receipt,        \* per task: its pending receipt, or None
    clock,          \* time in milliseconds
    changes, faults,\* for the bounds; changes also numbers the backups
    broken          \* history: names whose change was cut off half-way, and the
                    \* names whose entry was cut off while it was rolled back

disk == <<lockfile, dirs, backups>>
vars == <<disk, holder, op, receipt, clock, changes, faults, broken>>

Idle == [pc |-> "idle"]
Entries == [pkg : Sources, at : 0 .. MaxChanges]
Backups == 1 .. MaxChanges
NameOf(t) == op[t].name

Init ==
    /\ lockfile = [n \in Names |-> None] /\ dirs = [n \in Names |-> None]
    /\ backups = [b \in Backups |-> None]
    /\ holder = None
    /\ op = [t \in Tasks |-> Idle] /\ receipt = [t \in Tasks |-> None]
    /\ clock = 0 /\ changes = 0 /\ faults = 0
    /\ broken = [change |-> {}, rollback |-> {}]

-----------------------------------------------------------------------------
(* Steps of a task that holds the lock. *)

At(t, pc) == holder = t /\ op[t].pc = pc
Goto(t, pc) == op' = [op EXCEPT ![t].pc = pc]
Release(t) == holder' = None /\ op' = [op EXCEPT ![t] = Idle]
Wipe(n) == dirs' = [dirs EXCEPT ![n] = None]

(* What reading packages.lock.json tells of n.  Writing it replaces the whole file at once. *)
Listed(n) == lockfile[n] # None
WriteLock(n, entry) == lockfile' = [lockfile EXCEPT ![n] = entry]

(* os.replace(backup, target), if there is a backup and it exists. *)
PutBack(n, b) ==
    IF b \in Backups /\ backups[b] # None
    THEN /\ dirs' = [dirs EXCEPT ![n] = backups[b]]
         /\ backups' = [backups EXCEPT ![b] = None]
    ELSE UNCHANGED <<dirs, backups>>

(* Open the lock for a change of n. *)
Take(t, n, pc, kind, pkg) ==
    /\ holder = None /\ op[t] = Idle /\ receipt[t] = None /\ changes < MaxChanges
    /\ holder' = t /\ changes' = changes + 1
    /\ op' = [op EXCEPT ![t] =
                [pc |-> pc, kind |-> kind, name |-> n, pkg |-> pkg, backup |-> 0, id |-> changes + 1,
                 was |-> dirs[n], previous |-> lockfile[n]]]

-----------------------------------------------------------------------------
(* Variants with a mistake in them.  No specification uses them: the checks put each one in
   the place of the definition it resembles, to see that a property notices. *)

(* A receipt is finalized or rolled back without a look at the entry. *)
CurrentUnchecked(t) == receipt[t] # None

(* What stood in the way of a new directory is removed instead of kept. *)
AsideWipes(t) ==
    /\ At(t, "swap")
    /\ Wipe(NameOf(t))
    /\ Goto(t, "place")
    /\ UNCHANGED <<lockfile, backups, holder, receipt, clock, changes, faults, broken>>

(* The handler of a failed change removes the new directory and leaves the old one aside. *)
RestoreNothing(t) ==
    /\ At(t, "restore")
    /\ Release(t)
    /\ UNCHANGED <<disk, receipt, clock, changes, faults, broken>>

-----------------------------------------------------------------------------
(* _install_sync, _stage_remove_sync *)

(* install, update: the manifest is read, the file lock taken, the dependencies are there. *)
Install(t, s) ==
    /\ \A d \in s.deps : Listed(d)
    /\ Take(t, s.name, "stage", "install", s)
    /\ UNCHANGED <<disk, receipt, clock, faults, broken>>

(* The source is copied, read again and hashed. *)
Stage(t) ==
    /\ At(t, "stage")
    /\ Goto(t, "swap")
    /\ UNCHANGED <<disk, holder, receipt, clock, changes, faults, broken>>

(* os.replace(target, backup) *)
MoveTarget(t) ==
    LET n == NameOf(t) IN
    IF dirs[n] # None
    THEN /\ dirs' = [dirs EXCEPT ![n] = None]
         /\ backups' = [backups EXCEPT ![op[t].id] = dirs[n]]
         /\ op' = [op EXCEPT ![t].pc = IF @ = "swap" THEN "place" ELSE "unlist", ![t].backup = op[t].id]
    ELSE /\ op' = [op EXCEPT ![t].pc = IF @ = "swap" THEN "place" ELSE "unlist"]
         /\ UNCHANGED <<dirs, backups>>

Aside(t) ==
    /\ At(t, "swap")
    /\ MoveTarget(t)
    /\ UNCHANGED <<lockfile, holder, receipt, clock, changes, faults, broken>>

(* os.replace(stage, target) *)
Place(t) ==
    /\ At(t, "place")
    /\ dirs' = [dirs EXCEPT ![NameOf(t)] = op[t].pkg]
    /\ Goto(t, "record")
    /\ UNCHANGED <<lockfile, backups, holder, receipt, clock, changes, faults, broken>>

Receipt(t, entry) ==
    [kind |-> op[t].kind, name |-> op[t].name, entry |-> entry, backup |-> op[t].backup,
     was |-> op[t].was, previous |-> op[t].previous, tried |-> FALSE]

(* The lock file is written; the clock may not have moved since the last time. *)
Record(t) ==
    /\ At(t, "record")
    /\ \E at \in {clock, clock + 1} \cap (0 .. MaxChanges) :
        LET entry == [pkg |-> op[t].pkg, at |-> at] IN
        /\ WriteLock(NameOf(t), entry)
        /\ receipt' = [receipt EXCEPT ![t] = Receipt(t, entry)]
        /\ clock' = at
    /\ Release(t)
    /\ UNCHANGED <<dirs, backups, changes, faults, broken>>

(* stage_remove: listed, and no listed package depends on it. *)
StageRemove(t, n) ==
    /\ Listed(n)
    /\ \A m \in Names : Listed(m) => n \notin lockfile[m].pkg.deps
    /\ Take(t, n, "rm_swap", "remove", None)
    /\ UNCHANGED <<disk, receipt, clock, faults, broken>>

RemoveAside(t) ==
    /\ At(t, "rm_swap")
    /\ MoveTarget(t)
    /\ UNCHANGED <<lockfile, holder, receipt, clock, changes, faults, broken>>

Unlist(t) ==
    /\ At(t, "unlist")
    /\ WriteLock(NameOf(t), None)
    /\ receipt' = [receipt EXCEPT ![t] = Receipt(t, None)]
    /\ Release(t)
    /\ UNCHANGED <<dirs, backups, clock, changes, faults, broken>>

(* Staging raises: a manifest that is not one or changed in the meantime, a file it names that
   is not there, a link, or a copy that fails. *)
StageRaises(t) ==
    /\ At(t, "stage")
    /\ Goto(t, "undo")
    /\ UNCHANGED <<disk, holder, receipt, clock, changes, faults, broken>>

(* A later step raises, for a failing disk.  backup is assigned before the replace that may
   fail. *)
Raise(t) ==
    /\ holder = t
    /\ \/ /\ AsideMayFail /\ faults < MaxFaults /\ At(t, "swap") /\ dirs[NameOf(t)] # None
          /\ faults' = faults + 1
          /\ op' = [op EXCEPT ![t].pc = "undo", ![t].backup = op[t].id]
          /\ UNCHANGED holder
       \/ /\ faults < MaxFaults /\ op[t].pc \in {"place", "record"}
          /\ faults' = faults + 1 /\ Goto(t, "undo") /\ UNCHANGED holder
       \/ /\ faults < MaxFaults /\ At(t, "rm_swap")
          /\ faults' = faults + 1 /\ Release(t)
       \/ /\ faults < MaxFaults /\ At(t, "unlist")
          /\ faults' = faults + 1 /\ Goto(t, "restore") /\ UNCHANGED holder
    /\ UNCHANGED <<disk, receipt, clock, changes, broken>>

UndoWipes(t) == op[t].backup # 0 \/ op[t].previous = None

(* except Exception: the new directory goes, *)
Undo(t) ==
    /\ At(t, "undo")
    /\ IF UndoWipes(t) THEN Wipe(NameOf(t)) ELSE UNCHANGED dirs
    /\ Goto(t, "restore")
    /\ UNCHANGED <<lockfile, backups, holder, receipt, clock, changes, faults, broken>>

(* and the old one comes back. *)
Restore(t) ==
    /\ At(t, "restore")
    /\ PutBack(NameOf(t), op[t].backup)
    /\ Release(t)
    /\ UNCHANGED <<lockfile, receipt, clock, changes, faults, broken>>

-----------------------------------------------------------------------------
(* Receipts *)

(* _assert_receipt_current, and its counterpart for removals, whose entry is None. *)
Current(t) == receipt[t] # None /\ lockfile[receipt[t].name] = receipt[t].entry

(* finalize(): the backup goes. *)
Finalize(t) ==
    /\ holder = None /\ op[t] = Idle /\ receipt[t] # None /\ Current(t)
    /\ backups' = [b \in Backups |-> IF b = receipt[t].backup THEN None ELSE backups[b]]
    /\ receipt' = [receipt EXCEPT ![t] = None]
    /\ UNCHANGED <<lockfile, dirs, holder, op, clock, changes, faults, broken>>

Undoing(t, kind, pc) ==
    /\ holder = None /\ op[t] = Idle /\ receipt[t] # None /\ receipt[t].kind = kind /\ Current(t)
    /\ holder' = t
    /\ op' = [op EXCEPT ![t] = [pc |-> pc, name |-> receipt[t].name, kind |-> "rollback"]]
    /\ UNCHANGED <<disk, receipt, clock, changes, faults, broken>>

(* rollback() of an install wipes its directory; of a removal it wants none there. *)
RollbackInstall(t) == Undoing(t, "install", "rb_wipe")
RollbackRemoval(t) == Undoing(t, "remove", "rb_restore") /\ dirs[receipt[t].name] = None

RollbackWipe(t) ==
    /\ At(t, "rb_wipe")
    /\ Wipe(NameOf(t))
    /\ Goto(t, "rb_restore")
    /\ UNCHANGED <<lockfile, backups, holder, receipt, clock, changes, faults, broken>>

RollbackRestore(t) ==
    /\ At(t, "rb_restore")
    /\ PutBack(NameOf(t), receipt[t].backup)
    /\ Goto(t, "rb_record")
    /\ UNCHANGED <<lockfile, holder, receipt, clock, changes, faults, broken>>

RollbackRecord(t) ==
    /\ At(t, "rb_record")
    /\ WriteLock(NameOf(t), receipt[t].previous)
    /\ receipt' = [receipt EXCEPT ![t] = None]
    /\ Release(t)
    /\ UNCHANGED <<dirs, backups, clock, changes, faults, broken>>

(* The owner gives its receipt up: the call that returns it was cancelled, finalize() or
   rollback() raised because the entry is not current, or it has no further use for it. *)
Abandon(t) ==
    /\ op[t] = Idle /\ receipt[t] # None
    /\ receipt' = [receipt EXCEPT ![t] = None]
    /\ UNCHANGED <<disk, holder, op, clock, changes, faults, broken>>

-----------------------------------------------------------------------------
(* Faults that nothing undoes *)

(* What an interruption at the present step of t leaves behind half done. *)
Breaks(t) ==
    LET pc == op[t].pc IN
    [change |-> broken.change \cup
        (IF pc \in {"idle", "stage", "swap", "rm_swap"} THEN {} ELSE {NameOf(t)}),
     rollback |-> broken.rollback \cup
        (IF pc \in {"rb_wipe", "rb_restore", "rb_record"} THEN {NameOf(t)} ELSE {})]

Removing(t) == At(t, "rb_wipe") \/ (At(t, "undo") /\ UndoWipes(t))

(* The process dies; the lock goes with it, and the receipt it held. *)
Crash(t) ==
    /\ faults < MaxFaults /\ (op[t] # Idle \/ receipt[t] # None)
    /\ faults' = faults + 1
    /\ broken' = Breaks(t)
    /\ op' = [op EXCEPT ![t] = Idle]
    /\ receipt' = [receipt EXCEPT ![t] = None]
    /\ holder' = IF holder = t THEN None ELSE holder
    /\ \/ UNCHANGED dirs
       \/ Removing(t) /\ dirs[NameOf(t)] # None /\ dirs' = [dirs EXCEPT ![NameOf(t)] = Torn]
    /\ UNCHANGED <<lockfile, backups, clock, changes>>

(* Undoing raises itself.  A receipt whose rollback raised is not finished. *)
UndoRaises(t) ==
    /\ faults < MaxFaults /\ holder = t
    /\ op[t].pc \in {"undo", "restore", "rb_wipe", "rb_restore", "rb_record"}
    /\ faults' = faults + 1
    /\ broken' = Breaks(t)
    /\ Release(t)
    /\ receipt' = IF op[t].kind = "rollback" THEN [receipt EXCEPT ![t].tried = TRUE] ELSE receipt
    /\ \/ UNCHANGED dirs
       \/ Removing(t) /\ dirs[NameOf(t)] # None /\ dirs' = [dirs EXCEPT ![NameOf(t)] = Torn]
    /\ UNCHANGED <<lockfile, backups, clock, changes>>

Next ==
    \E t \in Tasks :
        \/ \E s \in Sources : Install(t, s)
        \/ \E n \in Names : StageRemove(t, n)
        \/ Stage(t) \/ Aside(t) \/ Place(t) \/ Record(t)
        \/ RemoveAside(t) \/ Unlist(t)
        \/ StageRaises(t) \/ Raise(t) \/ Undo(t) \/ Restore(t)
        \/ Finalize(t) \/ RollbackInstall(t) \/ RollbackRemoval(t)
        \/ RollbackWipe(t) \/ RollbackRestore(t) \/ RollbackRecord(t)
        \/ Abandon(t) \/ Crash(t) \/ UndoRaises(t)

Spec == Init /\ [][Next]_vars

-----------------------------------------------------------------------------
(* An operation is under way for n. *)
Busy(n) == \E t \in Tasks : op[t] # Idle /\ NameOf(t) = n

(* verify: the directory is there and has the hash of the entry. *)
Verifies(n) == Listed(n) /\ dirs[n] = lockfile[n].pkg

(* The lock file and the directories agree about every package that nobody is changing and
   no change of which was cut off: the lock file names exactly what is there, with the source
   it was copied from.  Every failing step is undone, for installs over another version, for
   removals and for rollbacks of either. *)
Agree ==
    \A n \in Names :
        Busy(n) \/ n \in broken.change
        \/ Verifies(n) \/ (~Listed(n) /\ dirs[n] = None)

(* Whatever an interruption leaves, the files of each listed package are on the disk, as its
   directory or as a backup: no backup is deleted while the lock file may still need it.
   Only a rollback that was cut off may have deleted what it was rolling back. *)
Recoverable ==
    \A n \in Names :
        ~Listed(n) \/ n \in broken.rollback
        \/ (\E t \in Tasks : op[t].pc \in {"rb_restore", "rb_record"} /\ NameOf(t) = n)
        \/ lockfile[n].pkg \in {dirs[n]} \cup {backups[b] : b \in Backups}

(* What the lock file lists is there, or can be brought back, after any failure and any crash of
   the package manager: see the two parts. *)
PackagesSafe == Agree /\ Recoverable

(* The step that ends a rollback undoes the change of its receipt and no later one, and leaves
   the entry and the directory as they were when that change began, whatever others did to the
   package in between; a rollback that raised before makes no such promise. *)
RollbackRestores ==
    [][\A t \in Tasks :
        op[t].pc = "rb_record" /\ op'[t].pc = "idle" /\ receipt'[t] = None
        /\ ~receipt[t].tried /\ faults' = faults
        => LET n == NameOf(t) IN
           /\ lockfile[n] = receipt[t].entry
           /\ lockfile'[n] = receipt[t].previous /\ dirs'[n] = receipt[t].was]_vars

(* manager.py:75 calls the manager atomic: an install that raises, and whose handler ran to
   its end, leaves the package as it found it, listed and with its directory. *)
FailedInstallKeeps ==
    [][\A t \in Tasks :
        op[t].pc = "restore" /\ op'[t].pc = "idle" /\ faults' = faults
        /\ op[t].previous # None /\ op[t].was # None
        => LET n == NameOf(t) IN
           lockfile'[n] = op[t].previous /\ dirs'[n] = op[t].was]_vars
=============================================================================
