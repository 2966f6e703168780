--------------------------- MODULE PackagesProofs ---------------------------
(***************************************************************************)
(* Theorems about PackageStore, for any processes, packages and sources,   *)
(* and, in the second part, about ExtensionRuntime, for any packages,      *)
(* extensions and tools.                                                   *)
(*                                                                         *)
(* That packages.lock.json and the package directories agree is inductive  *)
(* with where the old directory is at each step of a change (ChangeInv)    *)
(* and who may take it from there (ReceiptInv: a backup belongs to one     *)
(* receipt).                                                               *)
(***************************************************************************)
EXTENDS PackageStore, ExtensionRuntime, FiniteSetTheorems, SequenceTheorems, WellFoundedInduction, TLAPS

(* The values of the variables. *)
Files == Sources \cup {None, Torn}
Listings == Entries \cup {None}
Changing == {"stage", "swap", "place", "record", "rm_swap", "unlist", "undo", "restore"}
RollingBack == {"rb_wipe", "rb_restore", "rb_record"}
ChangeOps == [pc : Changing, kind : {"install", "remove"}, name : Names, pkg : Sources \cup {None},
              backup : Nat, id : Nat, was : Files, previous : Listings]
RollbackOps == [pc : RollingBack, name : Names, kind : {"rollback"}]
Receipts == [kind : {"install", "remove"}, name : Names, entry : Listings, backup : Nat,
             was : Files, previous : Listings, tried : BOOLEAN]
TypeInv ==
    /\ lockfile \in [Names -> Listings] /\ dirs \in [Names -> Files]
    /\ backups \in [Backups -> Files] /\ holder \in Tasks \cup {None}
    /\ op \in [Tasks -> {Idle} \cup ChangeOps \cup RollbackOps]
    /\ receipt \in [Tasks -> Receipts \cup {None}]
    /\ clock \in Nat /\ changes \in Nat /\ faults \in Nat
    /\ broken \in [change : SUBSET Names, rollback : SUBSET Names]

(* Who is at work holds the lock. *)
LockInv == \A t \in Tasks : op[t].pc # "idle" <=> holder = t

(* No change of n was cut off; a directory fits an entry; a backup, or its absence, keeps a
   directory. *)
Intact(n) == n \notin broken.change
Fits(entry, dir) == dir = IF entry = None THEN None ELSE entry.pkg
Kept(b, dir) == IF b = 0 THEN dir = None ELSE b \in Backups /\ backups[b] = dir /\ dir # None

(* At each step of a change the old directory is in its place or in a backup no receipt names. *)
ChangeInv ==
    \A t \in Tasks : LET o == op[t] n == op[t].name IN
        o.pc \in Changing =>
            /\ receipt[t] = None
            /\ o.id = changes /\ changes \in Backups /\ o.backup \in {0, changes}
            /\ \A u \in Tasks : receipt[u] # None => receipt[u].backup # changes
            /\ o.pc \in {"stage", "swap", "place", "record"} => o.pkg \in Sources
            /\ o.pc \in {"stage", "swap", "rm_swap"} => o.backup = 0
            /\ Intact(n) =>
                /\ lockfile[n] = o.previous /\ Fits(o.previous, o.was)
                /\ o.pc \in {"stage", "swap", "rm_swap"} => dirs[n] = o.was
                /\ o.pc \in {"place", "unlist"} => dirs[n] = None /\ Kept(o.backup, o.was)
                /\ o.pc = "record" => dirs[n] = o.pkg /\ Kept(o.backup, o.was)
                /\ o.pc = "undo" => Kept(o.backup, o.was) \/ (o.backup = 0 /\ dirs[n] = o.was)
                /\ o.pc = "restore" => IF o.backup = 0 THEN dirs[n] = o.was ELSE Kept(o.backup, o.was)

(* A receipt holds an entry and the directory that fits it, in a backup of its own. *)
ReceiptInv ==
    \A t \in Tasks : LET r == receipt[t] IN
        r # None =>
            /\ r.backup <= changes
            /\ \A u \in Tasks : u # t /\ receipt[u] # None /\ r.backup # 0 => receipt[u].backup # r.backup
            /\ Intact(r.name) => Fits(r.previous, r.was)
            /\ Intact(r.name) /\ op[t].pc # "rb_record" => Kept(r.backup, r.was)

(* How far a rollback has come. *)
RollbackInv ==
    \A t \in Tasks : LET n == op[t].name IN
        op[t].pc \in RollingBack =>
            /\ receipt[t] # None /\ receipt[t].name = n
            /\ Intact(n) /\ op[t].pc = "rb_restore" => dirs[n] = None
            /\ Intact(n) /\ op[t].pc = "rb_record" => dirs[n] = receipt[t].was

(* Agree, by the program counters. *)
AgreeInv ==
    \A n \in Names :
        (\A t \in Tasks : op[t].pc # "idle" => op[t].name # n) /\ Intact(n) =>
            \/ lockfile[n] = None /\ dirs[n] = None
            \/ lockfile[n] # None /\ dirs[n] = lockfile[n].pkg
IInv == TypeInv /\ LockInv /\ ChangeInv /\ ReceiptInv /\ RollbackInv /\ AgreeInv

(* An entry of packages.lock.json is told apart from no entry. *)
LEMMA EntriesAreNotNone == None \notin Entries
  BY StoreAssumption DEF StoreAssumption, Entries

(* What a task does decides the fields its operation has. *)
LEMMA Shapes ==
  ASSUME TypeInv, NEW t \in Tasks
  PROVE  /\ op[t].pc \in {"idle"} \cup Changing \cup RollingBack
         /\ op[t].pc \in Changing => op[t] \in ChangeOps
         /\ op[t].pc \in RollingBack => op[t] \in RollbackOps
         /\ op[t].pc = "idle" <=> op[t] = Idle
  BY DEF TypeInv, Idle, ChangeOps, RollbackOps, Changing, RollingBack

(* While one task is at work (_operation_lock) the others are not. *)
LEMMA Alone ==
  ASSUME IInv, NEW t \in Tasks, op[t].pc # "idle"
  PROVE  holder = t /\ \A u \in Tasks : u # t => op[u].pc = "idle"
  BY DEF IInv, LockInv

(* Nobody is at work while the lock file is free. *)
LEMMA Free ==
  ASSUME IInv, holder = None
  PROVE  \A u \in Tasks : op[u].pc = "idle"
  BY StoreAssumption DEF StoreAssumption, IInv, LockInv

(* install, update: the lock is taken and the package is as the operation notes it. *)
LEMMA InstallKeeps ==
  ASSUME IInv, NEW t \in Tasks, NEW s \in Sources, Install(t, s)
  PROVE  IInv'
<1>. DEFINE name == s.name
<1>1. /\ holder = None /\ receipt[t] = None /\ changes < MaxChanges /\ changes' = changes + 1
      /\ holder' = t
      /\ name \in Names /\ changes' \in Backups
      /\ \A u \in Tasks : op[u].pc = "idle"
      /\ UNCHANGED <<lockfile, dirs, backups, receipt, clock, faults, broken>>
  BY Free, StoreAssumption DEF StoreAssumption, Install, Take, disk, IInv, TypeInv, Backups
<1>2. /\ op'[t] \in ChangeOps /\ op'[t].pc = "stage" /\ op'[t].name = name
      /\ op'[t].was = dirs[name]
      /\ op'[t].previous = lockfile[name] /\ op'[t].pkg = s /\ op'[t].id = changes'
      /\ op'[t].backup = 0
      /\ op' \in [Tasks -> {Idle} \cup ChangeOps \cup RollbackOps]
      /\ \A u \in Tasks : u # t => op'[u] = op[u]
  BY <1>1 DEF Install, Take, IInv, TypeInv, ChangeOps, Changing
<1>3. TypeInv'
  BY <1>1, <1>2, StoreAssumption
  DEF StoreAssumption, IInv, TypeInv, ChangeInv, RollbackInv, Files, Changing, RollingBack,
      Listings, ChangeOps, RollbackOps
<1>4. LockInv'
  BY <1>1, <1>2, StoreAssumption DEF StoreAssumption, IInv, LockInv
<1>5. ChangeInv'
  BY <1>1, <1>2
  DEF IInv, TypeInv, ChangeInv, Changing, Intact, Fits, Kept, Backups, ReceiptInv, AgreeInv,
      Idle, Receipts
<1>6. ReceiptInv'
  BY <1>1, <1>2
  DEF IInv, TypeInv, ReceiptInv, ChangeInv, Receipts, Changing, Intact, Fits, Kept, Backups
<1>7. RollbackInv'
  BY <1>1, <1>2
  DEF IInv, TypeInv, ReceiptInv, ChangeInv, RollbackInv, RollingBack, Changing, Intact, Kept,
      Backups
<1>8. AgreeInv'
  BY <1>1, <1>2
  DEF IInv, TypeInv, ChangeInv, ReceiptInv, RollbackInv, AgreeInv, Changing, RollingBack, Intact,
      Fits, Kept, Backups
<1>. QED BY <1>3, <1>4, <1>5, <1>6, <1>7, <1>8 DEF IInv


(* stage_remove: the same, for a removal. *)
LEMMA StageRemoveKeeps ==
  ASSUME IInv, NEW t \in Tasks, NEW n \in Names, StageRemove(t, n)
  PROVE  IInv'
<1>. DEFINE name == n
<1>1. /\ holder = None /\ receipt[t] = None /\ changes < MaxChanges /\ changes' = changes + 1
      /\ holder' = t
      /\ name \in Names /\ changes' \in Backups
      /\ \A u \in Tasks : op[u].pc = "idle"
      /\ UNCHANGED <<lockfile, dirs, backups, receipt, clock, faults, broken>>
  BY Free, StoreAssumption DEF StoreAssumption, StageRemove, Take, disk, IInv, TypeInv, Backups
<1>2. /\ op'[t] \in ChangeOps /\ op'[t].pc = "rm_swap" /\ op'[t].name = name
      /\ op'[t].was = dirs[name]
      /\ op'[t].previous = lockfile[name] /\ op'[t].pkg = None /\ op'[t].id = changes'
      /\ op'[t].backup = 0
      /\ op' \in [Tasks -> {Idle} \cup ChangeOps \cup RollbackOps]
      /\ \A u \in Tasks : u # t => op'[u] = op[u]
  BY <1>1 DEF StageRemove, Take, IInv, TypeInv, ChangeOps, Changing
<1>3. TypeInv'
  BY <1>1, <1>2, StoreAssumption
  DEF StoreAssumption, IInv, TypeInv, ChangeInv, RollbackInv, Files, Changing, RollingBack,
      Listings, ChangeOps, RollbackOps
<1>4. LockInv'
  BY <1>1, <1>2, StoreAssumption DEF StoreAssumption, IInv, LockInv
<1>5. ChangeInv'
  BY <1>1, <1>2
  DEF IInv, TypeInv, ChangeInv, Changing, Intact, Fits, Kept, Backups, ReceiptInv, AgreeInv,
      Idle, Receipts
<1>6. ReceiptInv'
  BY <1>1, <1>2
  DEF IInv, TypeInv, ReceiptInv, ChangeInv, Receipts, Changing, Intact, Fits, Kept, Backups
<1>7. RollbackInv'
  BY <1>1, <1>2
  DEF IInv, TypeInv, ReceiptInv, ChangeInv, RollbackInv, RollingBack, Changing, Intact, Kept,
      Backups
<1>8. AgreeInv'
  BY <1>1, <1>2
  DEF IInv, TypeInv, ChangeInv, ReceiptInv, RollbackInv, AgreeInv, Changing, RollingBack, Intact,
      Fits, Kept, Backups
<1>. QED BY <1>3, <1>4, <1>5, <1>6, <1>7, <1>8 DEF IInv


(* The copy is staged: nothing else has changed. *)
LEMMA StageKeeps ==
  ASSUME IInv, NEW t \in Tasks, Stage(t)
  PROVE  IInv'
<1>. DEFINE n == op[t].name
            o == op[t]
<1>1. /\ o \in ChangeOps /\ o.pc = "stage" /\ holder = t /\ n \in Names
      /\ \A u \in Tasks : u # t => op[u].pc = "idle"
      /\ UNCHANGED <<lockfile, dirs, backups, holder, receipt, clock, changes, faults, broken>>
  BY Shapes, Alone DEF IInv, Stage, At, NameOf, Changing, ChangeOps, disk
<1>2. /\ op'[t] \in ChangeOps /\ op'[t].pc = "swap" /\ op'[t].name = n /\ op'[t].was = o.was
      /\ op'[t].previous = o.previous /\ op'[t].pkg = o.pkg /\ op'[t].id = o.id
      /\ op'[t].backup = o.backup
      /\ op' \in [Tasks -> {Idle} \cup ChangeOps \cup RollbackOps]
      /\ \A u \in Tasks : u # t => op'[u] = op[u]
  BY <1>1 DEF Stage, Goto, IInv, TypeInv, ChangeOps, Changing
<1>3. TypeInv'
  BY <1>1, <1>2
  DEF StoreAssumption, IInv, TypeInv, ChangeInv, RollbackInv, Files, Changing, RollingBack,
      Listings, ChangeOps, RollbackOps
<1>4. LockInv'
  BY <1>1, <1>2 DEF StoreAssumption, IInv, LockInv
<1>5. ChangeInv'
  BY <1>1, <1>2 DEF IInv, TypeInv, ChangeInv, Changing, Intact, Fits, Kept, Backups
<1>6. ReceiptInv'
  BY <1>1, <1>2
  DEF IInv, TypeInv, ReceiptInv, ChangeInv, Receipts, Changing, Intact, Fits, Kept, Backups
<1>7. RollbackInv'
  BY <1>1, <1>2
  DEF IInv, TypeInv, ReceiptInv, ChangeInv, RollbackInv, RollingBack, Changing, Intact, Kept,
      Backups
<1>8. AgreeInv'
  BY <1>1, <1>2
  DEF IInv, TypeInv, ChangeInv, ReceiptInv, RollbackInv, AgreeInv, Changing, RollingBack, Intact,
      Fits, Kept, Backups
<1>. QED BY <1>3, <1>4, <1>5, <1>6, <1>7, <1>8 DEF IInv


(* Staging raises: the directory is still the old one and there is no backup. *)
LEMMA StageRaisesKeeps ==
  ASSUME IInv, NEW t \in Tasks, StageRaises(t)
  PROVE  IInv'
<1>. DEFINE n == op[t].name
            o == op[t]
<1>1. /\ o \in ChangeOps /\ o.pc = "stage" /\ holder = t /\ n \in Names
      /\ \A u \in Tasks : u # t => op[u].pc = "idle"
      /\ UNCHANGED <<lockfile, dirs, backups, holder, receipt, clock, changes, faults, broken>>
  BY Shapes, Alone DEF IInv, StageRaises, At, NameOf, Changing, ChangeOps, disk
<1>2. /\ op'[t] \in ChangeOps /\ op'[t].pc = "undo" /\ op'[t].name = n /\ op'[t].was = o.was
      /\ op'[t].previous = o.previous /\ op'[t].pkg = o.pkg /\ op'[t].id = o.id
      /\ op'[t].backup = o.backup
      /\ op' \in [Tasks -> {Idle} \cup ChangeOps \cup RollbackOps]
      /\ \A u \in Tasks : u # t => op'[u] = op[u]
  BY <1>1 DEF StageRaises, Goto, IInv, TypeInv, ChangeOps, Changing
<1>3. TypeInv'
  BY <1>1, <1>2
  DEF StoreAssumption, IInv, TypeInv, ChangeInv, RollbackInv, Files, Changing, RollingBack,
      Listings, ChangeOps, RollbackOps
<1>4. LockInv'
  BY <1>1, <1>2 DEF StoreAssumption, IInv, LockInv
<1>5. ChangeInv'
  BY <1>1, <1>2 DEF IInv, TypeInv, ChangeInv, Changing, Intact, Fits, Kept, Backups
<1>6. ReceiptInv'
  BY <1>1, <1>2
  DEF IInv, TypeInv, ReceiptInv, ChangeInv, Receipts, Changing, Intact, Fits, Kept, Backups
<1>7. RollbackInv'
  BY <1>1, <1>2
  DEF IInv, TypeInv, ReceiptInv, ChangeInv, RollbackInv, RollingBack, Changing, Intact, Kept,
      Backups
<1>8. AgreeInv'
  BY <1>1, <1>2
  DEF IInv, TypeInv, ChangeInv, ReceiptInv, RollbackInv, AgreeInv, Changing, RollingBack, Intact,
      Fits, Kept, Backups
<1>. QED BY <1>3, <1>4, <1>5, <1>6, <1>7, <1>8 DEF IInv


(* os.replace(target, backup): what was the directory is the backup of this change alone. *)
LEMMA AsideKeeps ==
  ASSUME IInv, NEW t \in Tasks, Aside(t) \/ RemoveAside(t)
  PROVE  IInv'
<1>. DEFINE n == op[t].name
            o == op[t]
<1>1. /\ o \in ChangeOps /\ o.pc \in {"swap", "rm_swap"} /\ holder = t /\ n \in Names
      /\ o.backup = 0 /\ o.id = changes /\ changes \in Backups /\ changes # 0
      /\ MoveTarget(t)
      /\ \A u \in Tasks : u # t => op[u].pc = "idle"
      /\ UNCHANGED <<lockfile, holder, receipt, clock, changes, faults, broken>>
  BY Shapes, Alone DEF IInv, ChangeInv, Aside, RemoveAside, At, Changing, ChangeOps, Backups
<1>2. /\ op'[t] \in ChangeOps /\ op'[t].pc = (IF o.pc = "swap" THEN "place" ELSE "unlist")
      /\ op'[t].name = n /\ op'[t].was = o.was
      /\ op'[t].previous = o.previous /\ op'[t].pkg = o.pkg /\ op'[t].id = o.id
      /\ op'[t].backup = (IF dirs[n] # None THEN o.id ELSE 0)
      /\ op' \in [Tasks -> {Idle} \cup ChangeOps \cup RollbackOps]
      /\ \A u \in Tasks : u # t => op'[u] = op[u]
  BY <1>1 DEF MoveTarget, IInv, TypeInv, ChangeOps, NameOf, Changing
<1>3. IF dirs[n] # None
      THEN dirs' = [dirs EXCEPT ![n] = None] /\ backups' = [backups EXCEPT ![changes] = dirs[n]]
      ELSE UNCHANGED <<dirs, backups>>
  BY <1>1 DEF MoveTarget, NameOf
<1>4. TypeInv'
  BY <1>1, <1>2, <1>3
  DEF StoreAssumption, IInv, TypeInv, ChangeInv, RollbackInv, Files, Changing, RollingBack,
      Listings, ChangeOps, RollbackOps
<1>5. LockInv'
  BY <1>1, <1>2, <1>3 DEF StoreAssumption, IInv, LockInv
<1>6. ChangeInv'
  <2>1. \A u \in Tasks : u # t => op'[u].pc = "idle"
    BY <1>1, <1>2
  <2>2. Intact(n) => /\ lockfile[n] = o.previous /\ Fits(o.previous, o.was)
                     /\ dirs[n] = o.was
    BY <1>1 DEF IInv, ChangeInv, Changing
  <2>3. dirs'[n] = None /\ (dirs[n] # None => backups'[changes] = dirs[n])
    BY <1>1, <1>3 DEF IInv, TypeInv
  <2>4. /\ receipt[t] = None /\ (o.pc = "swap" => o.pkg \in Sources)
        /\ \A u \in Tasks : receipt[u] # None => receipt[u].backup # changes
    BY <1>1 DEF IInv, ChangeInv, Changing
  <2>5. Intact(n) => IF dirs[n] # None THEN backups'[changes] = o.was /\ o.was # None ELSE o.was = None
    BY <2>2, <2>3
  <2>6. op'[t].pc \in {"place", "unlist"} /\ (op'[t].pc = "place" => op'[t].pkg \in Sources)
    BY <1>1, <1>2, <2>4
  <2>. QED BY <1>1, <1>2, <2>1, <2>2, <2>3, <2>4, <2>5, <2>6
           DEF ChangeInv, Changing, Intact, Fits, Kept, Backups
<1>7. ReceiptInv'
  <2>. SUFFICES ASSUME NEW u \in Tasks, NEW r \in Receipts, r = receipt[u], r # None
                PROVE  /\ r.backup <= changes
                       /\ \A v \in Tasks : v # u /\ receipt[v] # None /\ r.backup # 0
                            => receipt[v].backup # r.backup
                       /\ Intact(r.name) => Fits(r.previous, r.was)
                       /\ Intact(r.name) /\ op'[u].pc # "rb_record" => Kept(r.backup, r.was)'
    BY <1>1 DEF ReceiptInv, Intact, Fits, IInv, TypeInv
  <2>3. r.backup # 0 => r.backup # changes
    BY <1>1 DEF IInv, TypeInv, ChangeInv, ReceiptInv, Changing
  <2>1. r.backup \in Backups => backups'[r.backup] = backups[r.backup]
    BY <1>1, <1>2, <1>3, <2>3, StoreAssumption DEF StoreAssumption, IInv, TypeInv, Backups
  <2>2. Intact(r.name) /\ op'[u].pc # "rb_record" => Kept(r.backup, r.was)
    BY <1>1, <1>2 DEF IInv, ReceiptInv
  <2>. QED BY <1>2, <2>1, <2>2 DEF IInv, ReceiptInv, Kept, Backups
<1>8. RollbackInv'
  BY <1>1, <1>2, <1>3
  DEF IInv, TypeInv, ReceiptInv, ChangeInv, RollbackInv, RollingBack, Changing, Intact, Kept,
      Backups
<1>9. AgreeInv'
  BY <1>1, <1>2, <1>3
  DEF IInv, TypeInv, ChangeInv, ReceiptInv, RollbackInv, AgreeInv, Changing, RollingBack, Intact,
      Fits, Kept, Backups
<1>. QED BY <1>4, <1>5, <1>6, <1>7, <1>8, <1>9 DEF IInv


(* os.replace(stage, target): the new directory, with the old one in the backup. *)
LEMMA PlaceKeeps ==
  ASSUME IInv, NEW t \in Tasks, Place(t)
  PROVE  IInv'
<1>. DEFINE n == op[t].name
            o == op[t]
<1>1. /\ o \in ChangeOps /\ o.pc = "place" /\ holder = t /\ n \in Names
      /\ \A u \in Tasks : u # t => op[u].pc = "idle"
      /\ UNCHANGED <<lockfile, backups, holder, receipt, clock, changes, faults, broken>>
  BY Shapes, Alone DEF IInv, Place, At, NameOf, Changing, ChangeOps, disk
<1>2. /\ op'[t] \in ChangeOps /\ op'[t].pc = "record" /\ op'[t].name = n /\ op'[t].was = o.was
      /\ op'[t].previous = o.previous /\ op'[t].pkg = o.pkg /\ op'[t].id = o.id
      /\ op'[t].backup = o.backup
      /\ op' \in [Tasks -> {Idle} \cup ChangeOps \cup RollbackOps]
      /\ \A u \in Tasks : u # t => op'[u] = op[u]
  BY <1>1 DEF Place, Goto, IInv, TypeInv, ChangeOps, Changing
<1>3. dirs' = [dirs EXCEPT ![n] = o.pkg]
  BY DEF Place, NameOf
<1>4. TypeInv'
  BY <1>1, <1>2, <1>3
  DEF StoreAssumption, IInv, TypeInv, ChangeInv, RollbackInv, Files, Changing, RollingBack,
      Listings, ChangeOps, RollbackOps
<1>5. LockInv'
  BY <1>1, <1>2, <1>3 DEF StoreAssumption, IInv, LockInv
<1>6. ChangeInv'
  BY <1>1, <1>2, <1>3 DEF IInv, TypeInv, ChangeInv, Changing, Intact, Fits, Kept, Backups
<1>7. ReceiptInv'
  BY <1>1, <1>2, <1>3
  DEF IInv, TypeInv, ReceiptInv, ChangeInv, Receipts, Changing, Intact, Fits, Kept, Backups
<1>8. RollbackInv'
  BY <1>1, <1>2, <1>3
  DEF IInv, TypeInv, ReceiptInv, ChangeInv, RollbackInv, RollingBack, Changing, Intact, Kept,
      Backups
<1>9. AgreeInv'
  BY <1>1, <1>2, <1>3
  DEF IInv, TypeInv, ChangeInv, ReceiptInv, RollbackInv, AgreeInv, Changing, RollingBack, Intact,
      Fits, Kept, Backups
<1>. QED BY <1>4, <1>5, <1>6, <1>7, <1>8, <1>9 DEF IInv


(* The lock file is written and the receipt holds what a rollback needs. *)
LEMMA RecordKeeps ==
  ASSUME IInv, NEW t \in Tasks, Record(t)
  PROVE  IInv'
<1>. DEFINE n == op[t].name
            o == op[t]
<1>1. /\ o \in ChangeOps /\ o.pc = "record" /\ holder = t /\ n \in Names /\ o.pkg \in Sources
      /\ \A u \in Tasks : u # t => op[u].pc = "idle"
      /\ UNCHANGED <<dirs, backups, changes, faults, broken>>
  BY Shapes, Alone DEF IInv, ChangeInv, Record, At, NameOf, Changing, ChangeOps
<1>2. PICK at \in 0 .. MaxChanges :
        /\ lockfile' = [lockfile EXCEPT ![n] = [pkg |-> o.pkg, at |-> at]] /\ clock' = at
        /\ receipt' = [receipt EXCEPT ![t] = Receipt(t, [pkg |-> o.pkg, at |-> at])]
  BY <1>1 DEF Record, WriteLock, NameOf
<1>3. PICK entry \in Entries : entry = [pkg |-> o.pkg, at |-> at]
  BY <1>1, <1>2 DEF Entries
<1>4. /\ op'[t].pc = "idle" /\ holder' = None
      /\ op' \in [Tasks -> {Idle} \cup ChangeOps \cup RollbackOps]
      /\ \A u \in Tasks : u # t => op'[u] = op[u] /\ receipt'[u] = receipt[u]
      /\ receipt' \in [Tasks -> Receipts \cup {None}] /\ receipt'[t] = Receipt(t, entry)
      /\ Receipt(t, entry) \in Receipts /\ Receipt(t, entry).name = n
      /\ Receipt(t, entry).backup = o.backup
      /\ Receipt(t, entry).was = o.was /\ Receipt(t, entry).previous = o.previous
  BY <1>1, <1>2, <1>3
  DEF Record, Release, Receipt, Receipts, ChangeOps, Listings, Changing, Idle, IInv, TypeInv
<1>5. TypeInv'
  BY <1>1, <1>2, <1>3, <1>4
  DEF StoreAssumption, IInv, TypeInv, ChangeInv, RollbackInv, Files, Changing, RollingBack,
      Listings, ChangeOps, RollbackOps
<1>6. LockInv'
  BY <1>1, <1>2, <1>3, <1>4, StoreAssumption DEF StoreAssumption, IInv, LockInv
<1>7. ChangeInv'
  BY <1>1, <1>2, <1>3, <1>4 DEF IInv, TypeInv, ChangeInv, Changing, Intact, Fits, Kept, Backups
<1>8. ReceiptInv'
  BY <1>1, <1>2, <1>3, <1>4, EntriesAreNotNone
  DEF IInv, TypeInv, ReceiptInv, ChangeInv, Receipts, Changing, Intact, Fits, Kept, Backups
<1>9. RollbackInv'
  BY <1>1, <1>2, <1>3, <1>4
  DEF IInv, TypeInv, ReceiptInv, ChangeInv, RollbackInv, RollingBack, Changing, Intact, Kept,
      Backups
<1>10. AgreeInv'
  BY <1>1, <1>2, <1>3, <1>4, EntriesAreNotNone
  DEF IInv, TypeInv, ChangeInv, ReceiptInv, RollbackInv, AgreeInv, Changing, RollingBack, Intact,
      Fits, Kept, Backups
<1>. QED BY <1>5, <1>6, <1>7, <1>8, <1>9, <1>10 DEF IInv


(* The same, for a removal. *)
LEMMA UnlistKeeps ==
  ASSUME IInv, NEW t \in Tasks, Unlist(t)
  PROVE  IInv'
<1>. DEFINE n == op[t].name
            o == op[t]
<1>1. /\ o \in ChangeOps /\ o.pc = "unlist" /\ holder = t /\ n \in Names
      /\ \A u \in Tasks : u # t => op[u].pc = "idle"
      /\ lockfile' = [lockfile EXCEPT ![n] = None]
      /\ receipt' = [receipt EXCEPT ![t] = Receipt(t, None)]
      /\ UNCHANGED <<dirs, backups, clock, changes, faults, broken>>
  BY Shapes, Alone DEF IInv, Unlist, WriteLock, At, NameOf, Changing, ChangeOps
<1>2. /\ op'[t].pc = "idle" /\ holder' = None
      /\ op' \in [Tasks -> {Idle} \cup ChangeOps \cup RollbackOps]
      /\ \A u \in Tasks : u # t => op'[u] = op[u] /\ receipt'[u] = receipt[u]
      /\ receipt' \in [Tasks -> Receipts \cup {None}] /\ receipt'[t] = Receipt(t, None)
      /\ Receipt(t, None) \in Receipts /\ Receipt(t, None).name = n
      /\ Receipt(t, None).backup = o.backup
      /\ Receipt(t, None).was = o.was /\ Receipt(t, None).previous = o.previous
  BY <1>1
  DEF Unlist, Release, Receipt, Receipts, ChangeOps, Listings, Changing, Idle, IInv, TypeInv
<1>3. TypeInv'
  BY <1>1, <1>2
  DEF StoreAssumption, IInv, TypeInv, ChangeInv, RollbackInv, Files, Changing, RollingBack,
      Listings, ChangeOps, RollbackOps
<1>4. LockInv'
  BY <1>1, <1>2, StoreAssumption DEF StoreAssumption, IInv, LockInv
<1>5. ChangeInv'
  BY <1>1, <1>2 DEF IInv, TypeInv, ChangeInv, Changing, Intact, Fits, Kept, Backups
<1>6. ReceiptInv'
  BY <1>1, <1>2
  DEF IInv, TypeInv, ReceiptInv, ChangeInv, Receipts, Changing, Intact, Fits, Kept, Backups
<1>7. RollbackInv'
  BY <1>1, <1>2
  DEF IInv, TypeInv, ReceiptInv, ChangeInv, RollbackInv, RollingBack, Changing, Intact, Kept,
      Backups
<1>8. AgreeInv'
  BY <1>1, <1>2
  DEF IInv, TypeInv, ChangeInv, ReceiptInv, RollbackInv, AgreeInv, Changing, RollingBack, Intact,
      Fits, Kept, Backups
<1>. QED BY <1>3, <1>4, <1>5, <1>6, <1>7, <1>8 DEF IInv


(* The handler wipes the directory only if the old one is in the backup or there was none. *)
LEMMA UndoKeeps ==
  ASSUME IInv, NEW t \in Tasks, Undo(t)
  PROVE  IInv'
<1>. DEFINE n == op[t].name
            o == op[t]
<1>1. /\ o \in ChangeOps /\ o.pc = "undo" /\ holder = t /\ n \in Names
      /\ \A u \in Tasks : u # t => op[u].pc = "idle"
      /\ UNCHANGED <<lockfile, backups, holder, receipt, clock, changes, faults, broken>>
  BY Shapes, Alone DEF IInv, Undo, At, NameOf, Changing, ChangeOps, disk
<1>2. /\ op'[t] \in ChangeOps /\ op'[t].pc = "restore" /\ op'[t].name = n /\ op'[t].was = o.was
      /\ op'[t].previous = o.previous /\ op'[t].pkg = o.pkg /\ op'[t].id = o.id
      /\ op'[t].backup = o.backup
      /\ op' \in [Tasks -> {Idle} \cup ChangeOps \cup RollbackOps]
      /\ \A u \in Tasks : u # t => op'[u] = op[u]
  BY <1>1 DEF Undo, Goto, IInv, TypeInv, ChangeOps, Changing
<1>3. dirs' = IF o.backup # 0 \/ o.previous = None THEN [dirs EXCEPT ![n] = None] ELSE dirs
  BY DEF Undo, UndoWipes, Wipe, NameOf
<1>4. TypeInv'
  BY <1>1, <1>2, <1>3
  DEF StoreAssumption, IInv, TypeInv, ChangeInv, RollbackInv, Files, Changing, RollingBack,
      Listings, ChangeOps, RollbackOps
<1>5. LockInv'
  BY <1>1, <1>2, <1>3 DEF StoreAssumption, IInv, LockInv
<1>6. ChangeInv'
  BY <1>1, <1>2, <1>3, StoreAssumption
  DEF IInv, TypeInv, ChangeInv, Changing, Intact, Fits, Kept, Backups, StoreAssumption, Listings,
      Entries, ChangeOps
<1>7. ReceiptInv'
  BY <1>1, <1>2, <1>3
  DEF IInv, TypeInv, ReceiptInv, ChangeInv, Receipts, Changing, Intact, Fits, Kept, Backups
<1>8. RollbackInv'
  BY <1>1, <1>2, <1>3
  DEF IInv, TypeInv, ReceiptInv, ChangeInv, RollbackInv, RollingBack, Changing, Intact, Kept,
      Backups
<1>9. AgreeInv'
  BY <1>1, <1>2, <1>3
  DEF IInv, TypeInv, ChangeInv, ReceiptInv, RollbackInv, AgreeInv, Changing, RollingBack, Intact,
      Fits, Kept, Backups
<1>. QED BY <1>4, <1>5, <1>6, <1>7, <1>8, <1>9 DEF IInv


(* The backup goes back: entry and directory agree as they did before the change. *)
LEMMA RestoreKeeps ==
  ASSUME IInv, NEW t \in Tasks, Restore(t)
  PROVE  IInv'
<1>. DEFINE n == op[t].name
            o == op[t]
            b == op[t].backup
<1>1. /\ o \in ChangeOps /\ o.pc = "restore" /\ holder = t /\ n \in Names
      /\ \A u \in Tasks : u # t => op[u].pc = "idle"
      /\ UNCHANGED <<lockfile, receipt, clock, changes, faults, broken>>
  BY Shapes, Alone DEF IInv, Restore, At, NameOf, Changing, ChangeOps
<1>2. /\ op'[t] = Idle /\ op'[t].pc = "idle" /\ holder' = None
      /\ op' \in [Tasks -> {Idle} \cup ChangeOps \cup RollbackOps]
      /\ \A u \in Tasks : u # t => op'[u] = op[u]
  BY DEF Restore, Release, Idle, IInv, TypeInv
<1>3. IF b \in Backups /\ backups[b] # None
      THEN dirs' = [dirs EXCEPT ![n] = backups[b]] /\ backups' = [backups EXCEPT ![b] = None]
      ELSE UNCHANGED <<dirs, backups>>
  BY DEF Restore, PutBack, NameOf
<1>4. TypeInv'
  BY <1>1, <1>2, <1>3
  DEF StoreAssumption, IInv, TypeInv, ChangeInv, RollbackInv, Files, Changing, RollingBack,
      Listings, ChangeOps, RollbackOps
<1>5. LockInv'
  BY <1>1, <1>2, <1>3, StoreAssumption DEF StoreAssumption, IInv, LockInv
<1>6. ChangeInv'
  BY <1>1, <1>2, <1>3 DEF IInv, TypeInv, ChangeInv, Changing, Intact, Fits, Kept, Backups
<1>7. ReceiptInv'
  <2>. SUFFICES ASSUME NEW u \in Tasks, NEW r \in Receipts, r = receipt[u], r # None
                PROVE  /\ r.backup <= changes
                       /\ \A v \in Tasks : v # u /\ receipt[v] # None /\ r.backup # 0
                            => receipt[v].backup # r.backup
                       /\ Intact(r.name) => Fits(r.previous, r.was)
                       /\ Intact(r.name) /\ op'[u].pc # "rb_record" => Kept(r.backup, r.was)'
    BY <1>1 DEF ReceiptInv, Intact, Fits, IInv, TypeInv
  <2>3. r.backup # 0 => r.backup # b
    BY <1>1 DEF IInv, TypeInv, ChangeInv, ReceiptInv, Changing
  <2>1. r.backup \in Backups => backups'[r.backup] = backups[r.backup]
    BY <1>1, <1>2, <1>3, <2>3, StoreAssumption DEF StoreAssumption, IInv, TypeInv, Backups
  <2>2. Intact(r.name) /\ op'[u].pc # "rb_record" => Kept(r.backup, r.was)
    BY <1>1, <1>2 DEF IInv, ReceiptInv
  <2>. QED BY <1>2, <2>1, <2>2 DEF IInv, ReceiptInv, Kept, Backups
<1>8. RollbackInv'
  BY <1>1, <1>2, <1>3
  DEF IInv, TypeInv, ReceiptInv, ChangeInv, RollbackInv, RollingBack, Changing, Intact, Kept,
      Backups
<1>9. AgreeInv'
  <2>1. CASE b \in Backups /\ backups[b] # None
    BY <2>1, <1>1, <1>2, <1>3
    DEF IInv, TypeInv, ChangeInv, ReceiptInv, RollbackInv, AgreeInv, Changing, RollingBack,
        Intact, Fits, Kept, Backups
  <2>2. CASE ~(b \in Backups /\ backups[b] # None)
    BY <2>2, <1>1, <1>2, <1>3
    DEF IInv, TypeInv, ChangeInv, ReceiptInv, RollbackInv, AgreeInv, Changing, RollingBack,
        Intact, Fits, Kept, Backups
  <2>. QED BY <2>1, <2>2
<1>. QED BY <1>4, <1>5, <1>6, <1>7, <1>8, <1>9 DEF IInv


(* rollback() of an install starts under the lock. *)
LEMMA RollbackInstallKeeps ==
  ASSUME IInv, NEW t \in Tasks, RollbackInstall(t)
  PROVE  IInv'
<1>. DEFINE n == receipt[t].name
<1>1. /\ holder = None /\ holder' = t /\ receipt[t] \in Receipts /\ receipt[t] # None
      /\ n \in Names
      /\ \A u \in Tasks : op[u].pc = "idle"
      /\ UNCHANGED <<lockfile, dirs, backups, receipt, clock, changes, faults, broken>>
  BY Free DEF RollbackInstall, Undoing, Current, disk, IInv, TypeInv, Receipts
<1>2. /\ op'[t] \in RollbackOps /\ op'[t].pc = "rb_wipe" /\ op'[t].name = n
      /\ op' \in [Tasks -> {Idle} \cup ChangeOps \cup RollbackOps]
      /\ \A u \in Tasks : u # t => op'[u] = op[u]
  BY <1>1 DEF RollbackInstall, Undoing, IInv, TypeInv, RollbackOps, RollingBack
<1>3. TypeInv'
  BY <1>1, <1>2
  DEF StoreAssumption, IInv, TypeInv, ChangeInv, RollbackInv, Files, Changing, RollingBack,
      Listings, ChangeOps, RollbackOps
<1>4. LockInv'
  BY <1>1, <1>2, StoreAssumption DEF StoreAssumption, IInv, LockInv
<1>5. ChangeInv'
  BY <1>1, <1>2 DEF IInv, TypeInv, ChangeInv, Changing, Intact, Fits, Kept, Backups
<1>6. ReceiptInv'
  BY <1>1, <1>2
  DEF IInv, TypeInv, ReceiptInv, ChangeInv, Receipts, Changing, Intact, Fits, Kept, Backups
<1>7. RollbackInv'
  BY <1>1, <1>2
  DEF IInv, TypeInv, ReceiptInv, ChangeInv, RollbackInv, RollingBack, Changing, Intact, Kept,
      Backups
<1>8. AgreeInv'
  BY <1>1, <1>2
  DEF IInv, TypeInv, ChangeInv, ReceiptInv, RollbackInv, AgreeInv, Changing, RollingBack, Intact,
      Fits, Kept, Backups
<1>. QED BY <1>3, <1>4, <1>5, <1>6, <1>7, <1>8 DEF IInv


(* rollback() of a removal starts under the lock, with no directory in its way. *)
LEMMA RollbackRemovalKeeps ==
  ASSUME IInv, NEW t \in Tasks, RollbackRemoval(t)
  PROVE  IInv'
<1>. DEFINE n == receipt[t].name
<1>1. /\ holder = None /\ holder' = t /\ receipt[t] \in Receipts /\ receipt[t] # None
      /\ n \in Names
      /\ \A u \in Tasks : op[u].pc = "idle" /\ dirs[n] = None
      /\ UNCHANGED <<lockfile, dirs, backups, receipt, clock, changes, faults, broken>>
  BY Free DEF RollbackRemoval, Undoing, Current, disk, IInv, TypeInv, Receipts
<1>2. /\ op'[t] \in RollbackOps /\ op'[t].pc = "rb_restore" /\ op'[t].name = n
      /\ op' \in [Tasks -> {Idle} \cup ChangeOps \cup RollbackOps]
      /\ \A u \in Tasks : u # t => op'[u] = op[u]
  BY <1>1 DEF RollbackRemoval, Undoing, IInv, TypeInv, RollbackOps, RollingBack
<1>3. TypeInv'
  BY <1>1, <1>2
  DEF StoreAssumption, IInv, TypeInv, ChangeInv, RollbackInv, Files, Changing, RollingBack,
      Listings, ChangeOps, RollbackOps
<1>4. LockInv'
  BY <1>1, <1>2, StoreAssumption DEF StoreAssumption, IInv, LockInv
<1>5. ChangeInv'
  BY <1>1, <1>2 DEF IInv, TypeInv, ChangeInv, Changing, Intact, Fits, Kept, Backups
<1>6. ReceiptInv'
  BY <1>1, <1>2
  DEF IInv, TypeInv, ReceiptInv, ChangeInv, Receipts, Changing, Intact, Fits, Kept, Backups
<1>7. RollbackInv'
  BY <1>1, <1>2
  DEF IInv, TypeInv, ReceiptInv, ChangeInv, RollbackInv, RollingBack, Changing, Intact, Kept,
      Backups
<1>8. AgreeInv'
  BY <1>1, <1>2
  DEF IInv, TypeInv, ChangeInv, ReceiptInv, RollbackInv, AgreeInv, Changing, RollingBack, Intact,
      Fits, Kept, Backups
<1>. QED BY <1>3, <1>4, <1>5, <1>6, <1>7, <1>8 DEF IInv


(* The rollback wipes the directory of the install. *)
LEMMA RollbackWipeKeeps ==
  ASSUME IInv, NEW t \in Tasks, RollbackWipe(t)
  PROVE  IInv'
<1>. DEFINE n == op[t].name
            o == op[t]
<1>1. /\ o \in RollbackOps /\ o.pc = "rb_wipe" /\ holder = t /\ n \in Names
      /\ receipt[t] \in Receipts /\ receipt[t] # None /\ receipt[t].name = n
      /\ \A u \in Tasks : u # t => op[u].pc = "idle"
      /\ UNCHANGED <<lockfile, backups, holder, receipt, clock, changes, faults, broken>>
  BY Shapes, Alone
  DEF IInv, TypeInv, RollbackInv, RollbackWipe, At, NameOf, RollingBack, RollbackOps, Receipts
<1>2. /\ op'[t] \in RollbackOps /\ op'[t].pc = "rb_restore" /\ op'[t].name = n
      /\ op' \in [Tasks -> {Idle} \cup ChangeOps \cup RollbackOps]
      /\ \A u \in Tasks : u # t => op'[u] = op[u]
  BY <1>1 DEF RollbackWipe, Goto, IInv, TypeInv, RollbackOps, RollingBack
<1>3. dirs' = [dirs EXCEPT ![n] = None]
  BY DEF RollbackWipe, Wipe, NameOf
<1>4. TypeInv'
  BY <1>1, <1>2, <1>3
  DEF StoreAssumption, IInv, TypeInv, ChangeInv, RollbackInv, Files, Changing, RollingBack,
      Listings, ChangeOps, RollbackOps
<1>5. LockInv'
  BY <1>1, <1>2, <1>3 DEF StoreAssumption, IInv, LockInv
<1>6. ChangeInv'
  BY <1>1, <1>2, <1>3 DEF IInv, TypeInv, ChangeInv, Changing, Intact, Fits, Kept, Backups
<1>7. ReceiptInv'
  BY <1>1, <1>2, <1>3
  DEF IInv, TypeInv, ReceiptInv, ChangeInv, Receipts, Changing, Intact, Fits, Kept, Backups
<1>8. RollbackInv'
  BY <1>1, <1>2, <1>3
  DEF IInv, TypeInv, ReceiptInv, ChangeInv, RollbackInv, RollingBack, Changing, Intact, Kept,
      Backups
<1>9. AgreeInv'
  BY <1>1, <1>2, <1>3
  DEF IInv, TypeInv, ChangeInv, ReceiptInv, RollbackInv, AgreeInv, Changing, RollingBack, Intact,
      Fits, Kept, Backups
<1>. QED BY <1>4, <1>5, <1>6, <1>7, <1>8, <1>9 DEF IInv


(* It puts back what was there: the only backup it takes is its own. *)
LEMMA RollbackRestoreKeeps ==
  ASSUME IInv, NEW t \in Tasks, RollbackRestore(t)
  PROVE  IInv'
<1>. DEFINE n == op[t].name
            o == op[t]
            b == receipt[t].backup
<1>1. /\ o \in RollbackOps /\ o.pc = "rb_restore" /\ holder = t /\ n \in Names
      /\ receipt[t] \in Receipts /\ receipt[t] # None /\ receipt[t].name = n
      /\ \A u \in Tasks : u # t => op[u].pc = "idle"
      /\ UNCHANGED <<lockfile, holder, receipt, clock, changes, faults, broken>>
  BY Shapes, Alone
  DEF IInv, TypeInv, RollbackInv, RollbackRestore, At, NameOf, RollingBack, RollbackOps,
      Receipts
<1>2. /\ op'[t] \in RollbackOps /\ op'[t].pc = "rb_record" /\ op'[t].name = n
      /\ op' \in [Tasks -> {Idle} \cup ChangeOps \cup RollbackOps]
      /\ \A u \in Tasks : u # t => op'[u] = op[u]
  BY <1>1 DEF RollbackRestore, Goto, IInv, TypeInv, RollbackOps, RollingBack
<1>3. IF b \in Backups /\ backups[b] # None
      THEN dirs' = [dirs EXCEPT ![n] = backups[b]] /\ backups' = [backups EXCEPT ![b] = None]
      ELSE UNCHANGED <<dirs, backups>>
  BY DEF RollbackRestore, PutBack, NameOf
<1>4. TypeInv'
  BY <1>1, <1>2, <1>3
  DEF StoreAssumption, IInv, TypeInv, ChangeInv, RollbackInv, Files, Changing, RollingBack,
      Listings, ChangeOps, RollbackOps
<1>5. LockInv'
  BY <1>1, <1>2, <1>3 DEF StoreAssumption, IInv, LockInv
<1>6. ChangeInv'
  BY <1>1, <1>2, <1>3 DEF IInv, TypeInv, ChangeInv, Changing, Intact, Fits, Kept, Backups
<1>7. ReceiptInv'
  <2>. SUFFICES ASSUME NEW u \in Tasks, NEW r \in Receipts, r = receipt[u], r # None
                PROVE  /\ r.backup <= changes
                       /\ \A v \in Tasks : v # u /\ receipt[v] # None /\ r.backup # 0
                            => receipt[v].backup # r.backup
                       /\ Intact(r.name) => Fits(r.previous, r.was)
                       /\ Intact(r.name) /\ op'[u].pc # "rb_record" => Kept(r.backup, r.was)'
    BY <1>1 DEF ReceiptInv, Intact, Fits, IInv, TypeInv
  <2>3. r.backup # 0 => r.backup # b \/ u = t
    BY <1>1 DEF IInv, TypeInv, ChangeInv, ReceiptInv, Changing
  <2>1. r.backup \in Backups => backups'[r.backup] = backups[r.backup] \/ u = t
    BY <1>1, <1>2, <1>3, <2>3, StoreAssumption DEF StoreAssumption, IInv, TypeInv, Backups
  <2>2. Intact(r.name) /\ op'[u].pc # "rb_record" => Kept(r.backup, r.was)
    BY <1>1, <1>2 DEF IInv, ReceiptInv
  <2>. QED BY <1>2, <2>1, <2>2 DEF IInv, ReceiptInv, Kept, Backups
<1>8. RollbackInv'
  BY <1>1, <1>2, <1>3
  DEF IInv, TypeInv, ReceiptInv, ChangeInv, RollbackInv, RollingBack, Changing, Intact, Kept,
      Backups
<1>9. AgreeInv'
  BY <1>1, <1>2, <1>3
  DEF IInv, TypeInv, ChangeInv, ReceiptInv, RollbackInv, AgreeInv, Changing, RollingBack, Intact,
      Fits, Kept, Backups
<1>. QED BY <1>4, <1>5, <1>6, <1>7, <1>8, <1>9 DEF IInv


(* It writes the old entry, which fits the directory. *)
LEMMA RollbackRecordKeeps ==
  ASSUME IInv, NEW t \in Tasks, RollbackRecord(t)
  PROVE  IInv'
<1>. DEFINE n == op[t].name
            o == op[t]
<1>1. /\ o \in RollbackOps /\ o.pc = "rb_record" /\ holder = t /\ n \in Names
      /\ receipt[t] \in Receipts /\ receipt[t] # None /\ receipt[t].name = n
      /\ \A u \in Tasks : u # t => op[u].pc = "idle"
      /\ UNCHANGED <<dirs, backups, clock, changes, faults, broken>>
  BY Shapes, Alone
  DEF IInv, TypeInv, RollbackInv, RollbackRecord, At, NameOf, RollingBack, RollbackOps, Receipts
<1>2. /\ op'[t] = Idle /\ op'[t].pc = "idle" /\ holder' = None
      /\ op' \in [Tasks -> {Idle} \cup ChangeOps \cup RollbackOps]
      /\ \A u \in Tasks : u # t => op'[u] = op[u]
      /\ receipt' = [receipt EXCEPT ![t] = None]
      /\ lockfile' = [lockfile EXCEPT ![n] = receipt[t].previous]
      /\ receipt[t].previous \in Listings
  BY <1>1 DEF RollbackRecord, Release, WriteLock, NameOf, Receipts, Idle, IInv, TypeInv
<1>3. TypeInv'
  BY <1>1, <1>2
  DEF StoreAssumption, IInv, TypeInv, ChangeInv, RollbackInv, Files, Changing, RollingBack,
      Listings, ChangeOps, RollbackOps
<1>4. LockInv'
  BY <1>1, <1>2, StoreAssumption DEF StoreAssumption, IInv, LockInv
<1>5. ChangeInv'
  BY <1>1, <1>2 DEF IInv, TypeInv, ChangeInv, Changing, Intact, Fits, Kept, Backups
<1>6. ReceiptInv'
  BY <1>1, <1>2
  DEF IInv, TypeInv, ReceiptInv, ChangeInv, Receipts, Changing, Intact, Fits, Kept, Backups
<1>7. RollbackInv'
  BY <1>1, <1>2
  DEF IInv, TypeInv, ReceiptInv, ChangeInv, RollbackInv, RollingBack, Changing, Intact, Kept,
      Backups
<1>8. AgreeInv'
  BY <1>1, <1>2, EntriesAreNotNone
  DEF IInv, TypeInv, ChangeInv, ReceiptInv, RollbackInv, AgreeInv, Changing, RollingBack, Intact,
      Fits, Kept, Backups
<1>. QED BY <1>3, <1>4, <1>5, <1>6, <1>7, <1>8 DEF IInv


(* finalize() deletes the backup of its own receipt, which no other receipt needs. *)
LEMMA FinalizeKeeps ==
  ASSUME IInv, NEW t \in Tasks, Finalize(t)
  PROVE  IInv'
<1>. DEFINE r == receipt[t]
<1>1. /\ holder = None /\ receipt[t] # None
      /\ receipt' = [receipt EXCEPT ![t] = None]
      /\ backups' = [b \in Backups |-> IF b = receipt[t].backup THEN None ELSE backups[b]]
      /\ \A u \in Tasks : op[u].pc = "idle"
      /\ UNCHANGED <<lockfile, dirs, holder, op, clock, changes, faults, broken>>
  BY Free DEF Finalize
<1>2. TypeInv'
  BY <1>1
  DEF StoreAssumption, IInv, TypeInv, ChangeInv, RollbackInv, Files, Changing, RollingBack,
      Listings, ChangeOps, RollbackOps
<1>3. LockInv'
  BY <1>1 DEF StoreAssumption, IInv, LockInv
<1>4. ChangeInv'
  BY <1>1 DEF IInv, TypeInv, ChangeInv, Changing, Intact, Fits, Kept, Backups
<1>5. ReceiptInv'
  BY <1>1
  DEF IInv, TypeInv, ReceiptInv, ChangeInv, Receipts, Changing, Intact, Fits, Kept, Backups
<1>6. RollbackInv'
  BY <1>1
  DEF IInv, TypeInv, ReceiptInv, ChangeInv, RollbackInv, RollingBack, Changing, Intact, Kept,
      Backups
<1>7. AgreeInv'
  BY <1>1
  DEF IInv, TypeInv, ChangeInv, ReceiptInv, RollbackInv, AgreeInv, Changing, RollingBack, Intact,
      Fits, Kept, Backups
<1>. QED BY <1>2, <1>3, <1>4, <1>5, <1>6, <1>7 DEF IInv


(* A receipt that is given up leaves the files as they are. *)
LEMMA AbandonKeeps ==
  ASSUME IInv, NEW t \in Tasks, Abandon(t)
  PROVE  IInv'
<1>. DEFINE r == receipt[t]
<1>1. /\ op[t].pc = "idle" /\ receipt' = [receipt EXCEPT ![t] = None]
      /\ UNCHANGED <<lockfile, dirs, backups, holder, op, clock, changes, faults, broken>>
  BY DEF Abandon, disk, Idle
<1>2. TypeInv'
  BY <1>1
  DEF StoreAssumption, IInv, TypeInv, ChangeInv, RollbackInv, Files, Changing, RollingBack,
      Listings, ChangeOps, RollbackOps
<1>3. LockInv'
  BY <1>1 DEF StoreAssumption, IInv, LockInv
<1>4. ChangeInv'
  BY <1>1 DEF IInv, TypeInv, ChangeInv, Changing, Intact, Fits, Kept, Backups
<1>5. ReceiptInv'
  BY <1>1
  DEF IInv, TypeInv, ReceiptInv, ChangeInv, Receipts, Changing, Intact, Fits, Kept, Backups
<1>6. RollbackInv'
  BY <1>1
  DEF IInv, TypeInv, ReceiptInv, ChangeInv, RollbackInv, RollingBack, Changing, Intact, Kept,
      Backups
<1>7. AgreeInv'
  BY <1>1
  DEF IInv, TypeInv, ChangeInv, ReceiptInv, RollbackInv, AgreeInv, Changing, RollingBack, Intact,
      Fits, Kept, Backups
<1>. QED BY <1>2, <1>3, <1>4, <1>5, <1>6, <1>7 DEF IInv


(* A step raises: the handler starts with the old directory in the backup or none at all. *)
LEMMA RaiseKeeps ==
  ASSUME IInv, NEW t \in Tasks, Raise(t), ~AsideMayFail
  PROVE  IInv'
<1>. DEFINE n == op[t].name
            o == op[t]
<1>1. /\ o \in ChangeOps /\ o.pc \in {"place", "record", "unlist", "rm_swap"} /\ holder = t
      /\ n \in Names
      /\ \A u \in Tasks : u # t => op[u].pc = "idle"
      /\ faults' = faults + 1
      /\ UNCHANGED <<lockfile, dirs, backups, receipt, clock, changes, broken>>
  BY Shapes, Alone DEF IInv, Raise, At, NameOf, Changing, ChangeOps, RollingBack, disk
<1>2. IF o.pc = "rm_swap"
      THEN op'[t].pc = "idle" /\ holder' = None
      ELSE /\ op'[t] \in ChangeOps /\ op'[t].pc = (IF o.pc = "unlist" THEN "restore" ELSE "undo")
           /\ op'[t].name = n /\ op'[t].was = o.was /\ op'[t].previous = o.previous
           /\ op'[t].pkg = o.pkg /\ op'[t].id = o.id /\ op'[t].backup = o.backup
           /\ holder' = holder
  BY <1>1 DEF Raise, At, Goto, Release, Idle, IInv, TypeInv, ChangeOps, Changing
<1>3. /\ op' \in [Tasks -> {Idle} \cup ChangeOps \cup RollbackOps]
      /\ \A u \in Tasks : u # t => op'[u] = op[u]
  BY <1>1 DEF Raise, At, Goto, Release, Idle, IInv, TypeInv, ChangeOps, Changing
<1>4. TypeInv'
  BY <1>1, <1>2, <1>3
  DEF StoreAssumption, IInv, TypeInv, ChangeInv, RollbackInv, Files, Changing, RollingBack,
      Listings, ChangeOps, RollbackOps
<1>5. LockInv'
  BY <1>1, <1>2, <1>3, StoreAssumption DEF StoreAssumption, IInv, LockInv
<1>6. ChangeInv'
  BY <1>1, <1>2, <1>3 DEF IInv, TypeInv, ChangeInv, Changing, Intact, Fits, Kept, Backups
<1>7. ReceiptInv'
  BY <1>1, <1>2, <1>3
  DEF IInv, TypeInv, ReceiptInv, ChangeInv, Receipts, Changing, Intact, Fits, Kept, Backups
<1>8. RollbackInv'
  BY <1>1, <1>2, <1>3
  DEF IInv, TypeInv, ReceiptInv, ChangeInv, RollbackInv, RollingBack, Changing, Intact, Kept,
      Backups
<1>9. AgreeInv'
  BY <1>1, <1>2, <1>3
  DEF IInv, TypeInv, ChangeInv, ReceiptInv, RollbackInv, AgreeInv, Changing, RollingBack, Intact,
      Fits, Kept, Backups
<1>. QED BY <1>4, <1>5, <1>6, <1>7, <1>8, <1>9 DEF IInv


(* A process dies: what it leaves half-way is noted, and nothing else has changed. *)
LEMMA CrashKeeps ==
  ASSUME IInv, NEW t \in Tasks, Crash(t)
  PROVE  IInv'
<1>. DEFINE n == op[t].name
<1>1. /\ op[t].pc # "idle" => n \in Names /\ holder = t /\ \A u \in Tasks : u # t => op[u].pc = "idle"
      /\ holder' = (IF holder = t THEN None ELSE holder)
      /\ faults' = faults + 1 /\ UNCHANGED <<lockfile, backups, clock, changes>>
  BY Shapes, Alone DEF IInv, Crash, Changing, RollingBack, ChangeOps, RollbackOps
<1>2. /\ op'[t] = Idle /\ op'[t].pc = "idle"
      /\ op' \in [Tasks -> {Idle} \cup ChangeOps \cup RollbackOps]
      /\ \A u \in Tasks : u # t => op'[u] = op[u]
  BY DEF Crash, Idle, IInv, TypeInv
<1>3. /\ receipt' \in [Tasks -> Receipts \cup {None}] /\ receipt'[t] = None
      /\ \A u \in Tasks : u # t => receipt'[u] = receipt[u]
  BY DEF Crash, IInv, TypeInv
<1>4. /\ broken' \in [change : SUBSET Names, rollback : SUBSET Names]
      /\ \A m \in Names : m \notin broken'.change => m \notin broken.change
      /\ op[t].pc \in {"idle", "stage", "swap", "rm_swap"} \/ n \in broken'.change
  BY <1>1, Shapes DEF Crash, Breaks, NameOf, IInv, TypeInv, Changing, RollingBack
<1>5. /\ dirs' \in [Names -> Files]
      /\ \A m \in Names : m \notin broken'.change => dirs'[m] = dirs[m]
  BY <1>1, <1>4 DEF Crash, Removing, At, NameOf, IInv, TypeInv, Files
<1>6. TypeInv'
  BY <1>1, <1>2, <1>3, <1>4, <1>5
  DEF StoreAssumption, IInv, TypeInv, ChangeInv, RollbackInv, Files, Changing, RollingBack,
      Listings, ChangeOps, RollbackOps
<1>7. LockInv'
  BY <1>1, <1>2, <1>3, <1>4, <1>5, StoreAssumption DEF StoreAssumption, IInv, LockInv
<1>8. ChangeInv'
  BY <1>1, <1>2, <1>3, <1>4, <1>5, Shapes
  DEF IInv, TypeInv, ChangeInv, Changing, Intact, Fits, Kept, Backups, ChangeOps
<1>9. ReceiptInv'
  BY <1>1, <1>2, <1>3, <1>4, <1>5
  DEF IInv, TypeInv, ReceiptInv, ChangeInv, Receipts, Changing, Intact, Fits, Kept, Backups
<1>10. RollbackInv'
  BY <1>1, <1>2, <1>3, <1>4, <1>5, Shapes
  DEF IInv, TypeInv, ReceiptInv, ChangeInv, RollbackInv, RollingBack, Changing, Intact, Kept,
      Backups, RollbackOps
<1>11. AgreeInv'
  BY <1>1, <1>2, <1>3, <1>4, <1>5
  DEF IInv, TypeInv, ChangeInv, ReceiptInv, RollbackInv, AgreeInv, Changing, RollingBack, Intact,
      Fits, Kept, Backups
<1>. QED BY <1>6, <1>7, <1>8, <1>9, <1>10, <1>11 DEF IInv


(* Undoing raises: the same. *)
LEMMA UndoRaisesKeeps ==
  ASSUME IInv, NEW t \in Tasks, UndoRaises(t)
  PROVE  IInv'
<1>. DEFINE n == op[t].name
<1>1. /\ op[t].pc # "idle" /\ n \in Names /\ holder = t /\ holder' = None
      /\ \A u \in Tasks : u # t => op[u].pc = "idle"
      /\ faults' = faults + 1 /\ UNCHANGED <<lockfile, backups, clock, changes>>
  BY Shapes, Alone DEF IInv, UndoRaises, Release, Changing, RollingBack, ChangeOps, RollbackOps
<1>2. /\ op'[t] = Idle /\ op'[t].pc = "idle"
      /\ op' \in [Tasks -> {Idle} \cup ChangeOps \cup RollbackOps]
      /\ \A u \in Tasks : u # t => op'[u] = op[u]
  BY DEF UndoRaises, Release, Idle, IInv, TypeInv
<1>3. /\ broken' \in [change : SUBSET Names, rollback : SUBSET Names]
      /\ \A m \in Names : m \notin broken'.change => m \notin broken.change
      /\ n \in broken'.change
  BY <1>1, Shapes DEF UndoRaises, Breaks, NameOf, IInv, TypeInv, Changing, RollingBack
<1>4. /\ dirs' \in [Names -> Files]
      /\ \A m \in Names : m \notin broken'.change => dirs'[m] = dirs[m]
  BY <1>1, <1>3 DEF UndoRaises, Removing, At, NameOf, IInv, TypeInv, Files
<1>5. \/ receipt' = receipt
      \/ /\ receipt[t] \in Receipts /\ receipt[t] # None /\ receipt[t].name = n
         /\ receipt' = [receipt EXCEPT ![t] = [@ EXCEPT !.tried = TRUE]]
  BY <1>1, Shapes
  DEF UndoRaises, ChangeOps, RollbackOps, Changing, RollingBack, IInv, TypeInv, RollbackInv
<1>6. \A r \in Receipts : LET x == [r EXCEPT !.tried = TRUE] IN
        /\ x \in Receipts /\ x.name = r.name /\ x.backup = r.backup
        /\ x.was = r.was /\ x.previous = r.previous
  BY DEF Receipts
<1>7. /\ receipt' \in [Tasks -> Receipts \cup {None}]
      /\ \A u \in Tasks : receipt'[u] # None =>
            /\ receipt[u] # None /\ receipt'[u].name = receipt[u].name
            /\ receipt'[u].backup = receipt[u].backup /\ receipt'[u].was = receipt[u].was
            /\ receipt'[u].previous = receipt[u].previous
  <2>1. receipt \in [Tasks -> Receipts \cup {None}]
    BY DEF IInv, TypeInv
  <2>2. CASE receipt' = receipt
    BY <2>1, <2>2
  <2>3. CASE /\ receipt[t] \in Receipts /\ receipt[t] # None
             /\ receipt' = [receipt EXCEPT ![t] = [@ EXCEPT !.tried = TRUE]]
    <3>1. /\ receipt'[t] \in Receipts
          /\ receipt'[t].name = receipt[t].name /\ receipt'[t].backup = receipt[t].backup
          /\ receipt'[t].was = receipt[t].was /\ receipt'[t].previous = receipt[t].previous
      BY <1>6, <2>1, <2>3
    <3>2. \A u \in Tasks : u # t => receipt'[u] = receipt[u]
      BY <2>1, <2>3
    <3>3. DOMAIN receipt' = Tasks /\ receipt' = [u \in Tasks |-> receipt'[u]]
      BY <2>1, <2>3
    <3>. QED BY <2>1, <2>3, <3>1, <3>2, <3>3
  <2>. QED BY <1>5, <2>2, <2>3
<1>8. \A u \in Tasks : receipt[u] # None /\ op[u].pc = "rb_record" => receipt[u].name = n
  BY <1>1 DEF IInv, RollbackInv, RollingBack
<1>9. TypeInv'
  BY <1>1, <1>2, <1>3, <1>4, <1>5, <1>6, <1>7, <1>8
  DEF StoreAssumption, IInv, TypeInv, ChangeInv, RollbackInv, Files, Changing, RollingBack,
      Listings, ChangeOps, RollbackOps
<1>10. LockInv'
  BY <1>1, <1>2, <1>3, <1>4, <1>5, <1>6, <1>7, <1>8, StoreAssumption
  DEF StoreAssumption, IInv, LockInv
<1>11. ChangeInv'
  BY <1>1, <1>2, <1>3, <1>4, <1>5, <1>6, <1>7, <1>8, Shapes
  DEF IInv, TypeInv, ChangeInv, Changing, Intact, Fits, Kept, Backups, ChangeOps
<1>12. ReceiptInv'
  <2>. SUFFICES ASSUME NEW u \in Tasks, NEW r \in Receipts, r = receipt[u], r # None
                PROVE  /\ r.backup <= changes
                       /\ \A v \in Tasks : v # u /\ receipt[v] # None /\ r.backup # 0
                            => receipt[v].backup # r.backup
                       /\ r.name \notin broken'.change => Fits(r.previous, r.was)
                       /\ r.name \notin broken'.change => Kept(r.backup, r.was)
    BY <1>1, <1>7 DEF ReceiptInv, Intact, Fits, Kept, IInv, TypeInv
  <2>1. r.name \notin broken'.change => Intact(r.name) /\ op[u].pc # "rb_record"
    BY <1>3, <1>8 DEF Intact, Receipts
  <2>. QED BY <2>1 DEF IInv, ReceiptInv
<1>13. RollbackInv'
  BY <1>1, <1>2, <1>3, <1>4, <1>5, <1>6, <1>7, <1>8, Shapes
  DEF IInv, TypeInv, ReceiptInv, ChangeInv, RollbackInv, RollingBack, Changing, Intact, Kept,
      Backups, RollbackOps
<1>14. AgreeInv'
  BY <1>1, <1>2, <1>3, <1>4, <1>5, <1>6, <1>7, <1>8
  DEF IInv, TypeInv, ChangeInv, ReceiptInv, RollbackInv, AgreeInv, Changing, RollingBack, Intact,
      Fits, Kept, Backups
<1>. QED BY <1>9, <1>10, <1>11, <1>12, <1>13, <1>14 DEF IInv

(* Nothing is installed at first. *)
LEMMA InitKeeps == Init => IInv
  BY StoreAssumption
  DEF StoreAssumption, Init, IInv, TypeInv, LockInv, ChangeInv, ReceiptInv, RollbackInv, AgreeInv,
      Idle, Changing, RollingBack, Files, Listings, Backups

(* Every step of every process keeps the invariant, if moving the old directory aside does not
   raise after its backup was named (manager.py:219-222). *)
LEMMA NextKeeps == ASSUME IInv, ~AsideMayFail, [Next]_vars PROVE IInv'
<1>1. CASE UNCHANGED vars
  BY <1>1 DEF vars, disk, IInv, TypeInv, LockInv, ChangeInv, ReceiptInv, RollbackInv, AgreeInv,
      Intact, Fits, Kept
<1>2. ASSUME NEW t \in Tasks, NEW s \in Sources, Install(t, s) PROVE IInv'
  BY <1>2, InstallKeeps
<1>3. ASSUME NEW t \in Tasks, NEW n \in Names, StageRemove(t, n) PROVE IInv'
  BY <1>3, StageRemoveKeeps
<1>4. ASSUME NEW t \in Tasks,
             Stage(t) \/ StageRaises(t) \/ Aside(t) \/ RemoveAside(t) \/ Place(t) PROVE IInv'
  BY <1>4, StageKeeps, StageRaisesKeeps, AsideKeeps, PlaceKeeps
<1>5. ASSUME NEW t \in Tasks, Record(t) \/ Unlist(t) \/ Raise(t) \/ Undo(t) \/ Restore(t) PROVE IInv'
  BY <1>5, RecordKeeps, UnlistKeeps, RaiseKeeps, UndoKeeps, RestoreKeeps
<1>6. ASSUME NEW t \in Tasks, RollbackInstall(t) \/ RollbackRemoval(t) \/ RollbackWipe(t)
                               \/ RollbackRestore(t) \/ RollbackRecord(t) PROVE IInv'
  BY <1>6, RollbackInstallKeeps, RollbackRemovalKeeps, RollbackWipeKeeps, RollbackRestoreKeeps,
     RollbackRecordKeeps
<1>7. ASSUME NEW t \in Tasks, Finalize(t) \/ Abandon(t) \/ Crash(t) \/ UndoRaises(t) PROVE IInv'
  BY <1>7, FinalizeKeeps, AbandonKeeps, CrashKeeps, UndoRaisesKeeps
<1>. QED BY <1>1, <1>2, <1>3, <1>4, <1>5, <1>6, <1>7 DEF Next

(* Agree follows: an operation under way is one that is not idle. *)
LEMMA InvariantAgrees == IInv => Agree
<1>. SUFFICES ASSUME IInv, NEW n \in Names, ~Busy(n), n \notin broken.change
              PROVE  Verifies(n) \/ (~Listed(n) /\ dirs[n] = None)
  BY DEF Agree
<1>1. \A t \in Tasks : op[t].pc # "idle" => op[t].name # n
  BY DEF Busy, NameOf, Idle
<1>. QED BY <1>1 DEF IInv, AgreeInv, Intact, Verifies, Listed

-----------------------------------------------------------------------------
(* Where the files of a listed package are, also when a change of it has been cut off: in its
   directory, in the backup of the change under way, or in a backup that is spare, which is one
   no receipt and no change names, and which therefore nothing deletes any more. *)

Whole(n) == n \notin broken.rollback

Spare ==
    {b \in Backups :
        /\ b <= changes
        /\ \A t \in Tasks : /\ receipt[t] # None => receipt[t].backup # b
                            /\ op[t].pc \in Changing => op[t].id # b}

Backed(entry, dir, spare, kept) ==
    entry = None \/ entry.pkg = dir \/ \E b \in spare : kept[b] = entry.pkg

(* Where the directory that a change found is, at each of its steps. *)
Located(t) ==
    LET o == op[t] n == op[t].name IN
    /\ o.pc \in {"stage", "swap", "rm_swap"} => dirs[n] = o.was
    /\ o.pc \in {"place", "unlist"} => dirs[n] = None /\ Kept(o.backup, o.was)
    /\ o.pc = "record" => dirs[n] = o.pkg /\ Kept(o.backup, o.was)
    /\ o.pc = "undo" => Kept(o.backup, o.was) \/ (o.backup = 0 /\ dirs[n] = o.was)
    /\ o.pc = "restore" =>
        Kept(o.backup, o.was) \/ (o.backup = 0 /\ (dirs[n] = o.was \/ o.previous = None))

ChangeCopy(t) ==
    LET o == op[t] n == op[t].name IN
    o.pc \in Changing =>
        /\ lockfile[n] = o.previous
        /\ Whole(n) => Backed(o.previous, o.was, Spare, backups)
        /\ Located(t)

ReceiptCopy(t) ==
    LET r == receipt[t] IN
    r # None =>
        /\ Whole(r.name) => ~ r.tried /\ Backed(r.previous, r.was, Spare, backups)
        /\ ~ r.tried /\ op[t].pc # "rb_record" => Kept(r.backup, r.was)

RollbackCopy(t) ==
    LET r == receipt[t] n == op[t].name IN
    op[t].pc \in RollingBack =>
        /\ lockfile[n] = r.entry
        /\ op[t].pc = "rb_wipe" /\ Whole(n) => Backed(lockfile[n], dirs[n], Spare, backups)
        /\ op[t].pc = "rb_restore" => dirs[n] = None
        /\ op[t].pc = "rb_record" /\ ~ r.tried => dirs[n] = r.was

RestCopy(n) ==
    (\A t \in Tasks : op[t].pc # "idle" => op[t].name # n) /\ Whole(n) =>
        Backed(lockfile[n], dirs[n], Spare, backups)

CopyInv ==
    /\ \A t \in Tasks : ChangeCopy(t) /\ ReceiptCopy(t) /\ RollbackCopy(t)
    /\ \A n \in Names : RestCopy(n)

(* What a step of task t on package n leaves alone. *)
Others(t, n) ==
    /\ \A u \in Tasks : u # t => op'[u] = op[u] /\ receipt'[u] = receipt[u]
    /\ \A m \in Names : m # n => lockfile'[m] = lockfile[m] /\ dirs'[m] = dirs[m]
    /\ \A m \in Names : Whole(m)' => Whole(m)
    /\ \A b \in Spare : b \in Spare' /\ backups'[b] = backups[b]
    /\ \A u \in Tasks : u # t /\ receipt[u] # None /\ receipt[u].backup \in Backups =>
            backups'[receipt[u].backup] = backups[receipt[u].backup]
    /\ (\A u \in Tasks : u # t => op[u].pc = "idle") \/ UNCHANGED <<lockfile, dirs, backups>>
    /\ op[t].pc # "idle" => op[t].name = n

LEMMA BackedStays ==
  ASSUME NEW spare, NEW kept, NEW more, NEW then,
         \A b \in spare : b \in more /\ then[b] = kept[b]
  PROVE  \A e, d : Backed(e, d, spare, kept) => Backed(e, d, more, then)
  BY DEF Backed

(* A backup stays spare, since new changes take new numbers. *)
LEMMA SpareStays ==
  ASSUME IInv, NEW t \in Tasks, changes' \in Nat, changes <= changes',
         \A u \in Tasks : u # t => op'[u] = op[u] /\ receipt'[u] = receipt[u],
         receipt'[t] # None =>
            \/ receipt[t] # None /\ receipt'[t].backup = receipt[t].backup
            \/ op[t].pc \in Changing /\ receipt'[t].backup \in {0, op[t].id},
         op'[t].pc \in Changing =>
            \/ op[t].pc \in Changing /\ op'[t].id = op[t].id
            \/ op'[t].id = changes + 1
  PROVE  \A b \in Spare : b \in Spare'
<1>. SUFFICES ASSUME NEW b \in Spare PROVE b \in Spare'
  OBVIOUS
<1>1. b \in Backups /\ b \in Nat \ {0} /\ b <= changes /\ changes \in Nat
  BY StoreAssumption DEF Spare, Backups, StoreAssumption, IInv, TypeInv
<1>2. b <= changes' /\ b # changes + 1
  BY <1>1
<1>3. \A u \in Tasks : u # t => /\ receipt'[u] # None => receipt'[u].backup # b
                                /\ op'[u].pc \in Changing => op'[u].id # b
  BY DEF Spare
<1>4. receipt'[t] # None => receipt'[t].backup # b
  BY <1>1 DEF Spare
<1>5. op'[t].pc \in Changing => op'[t].id # b
  BY <1>2 DEF Spare
<1>. QED BY <1>1, <1>2, <1>3, <1>4, <1>5 DEF Spare

(* A step keeps what it leaves alone; what remains is the task and the package of the step. *)
LEMMA OthersKeep ==
  ASSUME IInv, CopyInv, NEW t \in Tasks, NEW n \in Names, Others(t, n),
         ChangeCopy(t)', ReceiptCopy(t)', RollbackCopy(t)', RestCopy(n)'
  PROVE  CopyInv'
<1>1. \A e, d : Backed(e, d, Spare, backups) => Backed(e, d, Spare', backups')
  BY BackedStays DEF Others
<1>2. ASSUME NEW u \in Tasks, u # t PROVE ChangeCopy(u)'
  <2>1. op'[u] = op[u] /\ ChangeCopy(u)
    BY <1>2 DEF Others, CopyInv
  <2>2. CASE op[u].pc = "idle"
    BY <2>1, <2>2 DEF ChangeCopy, Changing
  <2>3. CASE op[u].pc # "idle"
    <3>1. UNCHANGED <<lockfile, dirs, backups>>
      BY <1>2, <2>3 DEF Others
    <3>2. op[u].pc \in Changing => op[u].name \in Names
      BY Shapes DEF IInv, ChangeOps
    <3>. QED BY <1>1, <2>1, <3>1, <3>2 DEF ChangeCopy, Located, Kept, Others
  <2>. QED BY <2>2, <2>3
<1>3. ASSUME NEW u \in Tasks, u # t PROVE ReceiptCopy(u)'
  <2>1. op'[u] = op[u] /\ receipt'[u] = receipt[u] /\ ReceiptCopy(u)
    BY <1>3 DEF Others, CopyInv
  <2>2. receipt[u] # None => receipt[u].name \in Names
    BY DEF IInv, TypeInv, Receipts
  <2>3. receipt[u] # None /\ Kept(receipt[u].backup, receipt[u].was) => Kept(receipt[u].backup, receipt[u].was)'
    BY <1>3, <2>1 DEF Kept, Others
  <2>. QED BY <1>1, <2>1, <2>2, <2>3 DEF ReceiptCopy, Others
<1>4. ASSUME NEW u \in Tasks, u # t PROVE RollbackCopy(u)'
  <2>1. op'[u] = op[u] /\ receipt'[u] = receipt[u] /\ RollbackCopy(u)
    BY <1>4 DEF Others, CopyInv
  <2>2. CASE op[u].pc = "idle"
    BY <2>1, <2>2 DEF RollbackCopy, RollingBack
  <2>3. CASE op[u].pc # "idle"
    <3>1. UNCHANGED <<lockfile, dirs, backups>>
      BY <1>4, <2>3 DEF Others
    <3>2. op[u].pc \in RollingBack => op[u].name \in Names
      BY Shapes DEF IInv, RollbackOps
    <3>. QED BY <1>1, <2>1, <3>1, <3>2 DEF RollbackCopy, Others
  <2>. QED BY <2>2, <2>3
<1>5. ASSUME NEW m \in Names, m # n PROVE RestCopy(m)'
  <2>1. SUFFICES ASSUME \A u \in Tasks : op'[u].pc # "idle" => op'[u].name # m, Whole(m)'
                 PROVE  Backed(lockfile'[m], dirs'[m], Spare', backups')
    BY DEF RestCopy
  <2>2. \A u \in Tasks : op[u].pc # "idle" => op[u].name # m
    BY <1>5, <2>1 DEF Others
  <2>3. Backed(lockfile[m], dirs[m], Spare, backups)
    BY <2>1, <2>2 DEF CopyInv, RestCopy, Others
  <2>. QED BY <1>1, <1>5, <2>3 DEF Others
<1>. QED BY <1>2, <1>3, <1>4, <1>5 DEF CopyInv

LEMMA InitCopies == Init => CopyInv
  BY StoreAssumption
  DEF StoreAssumption, Init, CopyInv, ChangeCopy, Located, ReceiptCopy, RollbackCopy, RestCopy, Backed, Idle,
      Changing, RollingBack

(* A change begins: what it finds is what the lock file needs. *)
LEMMA TakeCopies ==
  ASSUME IInv, CopyInv, NEW t \in Tasks, NEW n \in Names, NEW pc \in {"stage", "rm_swap"},
         NEW kind, NEW pkg, Take(t, n, pc, kind, pkg),
         UNCHANGED <<lockfile, dirs, backups, receipt, broken>>
  PROVE  CopyInv'
<1>1. /\ holder = None /\ op[t] = Idle /\ op[t].pc = "idle" /\ receipt[t] = None
      /\ changes' = changes + 1 /\ changes \in Nat
      /\ \A u \in Tasks : op[u].pc = "idle"
  BY Free DEF Take, Idle, IInv, TypeInv
<1>2. /\ op'[t] = [pc |-> pc, kind |-> kind, name |-> n, pkg |-> pkg, backup |-> 0,
                   id |-> changes + 1, was |-> dirs[n], previous |-> lockfile[n]]
      /\ \A u \in Tasks : u # t => op'[u] = op[u]
  BY DEF Take, IInv, TypeInv
<1>3. /\ op'[t].pc = pc /\ op'[t].name = n /\ op'[t].id = changes + 1 /\ op'[t].was = dirs[n]
      /\ op'[t].previous = lockfile[n] /\ op'[t].backup = 0
  BY <1>2
<1>4. \A b \in Spare : b \in Spare'
  BY <1>1, <1>2, <1>3, SpareStays
<1>5. Others(t, n)
  BY <1>1, <1>2, <1>4 DEF Others, Whole
<1>6. \A e, d : Backed(e, d, Spare, backups) => Backed(e, d, Spare', backups')
  BY <1>4, BackedStays
<1>7. Whole(n) => Backed(lockfile[n], dirs[n], Spare, backups)
  BY <1>1 DEF CopyInv, RestCopy
<1>8. ChangeCopy(t)'
  BY <1>3, <1>6, <1>7 DEF ChangeCopy, Located, Whole
<1>9. ReceiptCopy(t)' /\ RollbackCopy(t)' /\ RestCopy(n)'
  BY <1>1, <1>3 DEF ReceiptCopy, RollbackCopy, RestCopy, RollingBack
<1>. QED BY <1>5, <1>8, <1>9, OthersKeep

(* A step within a change keeps the directory that the change found. *)
LEMMA ChangingCopies ==
  ASSUME IInv, CopyInv, NEW t \in Tasks, op[t].pc \in Changing, op'[t].pc \in Changing,
         \A u \in Tasks : u # t => op'[u] = op[u],
         op'[t].name = op[t].name, op'[t].was = op[t].was, op'[t].previous = op[t].previous,
         op'[t].id = op[t].id,
         UNCHANGED <<lockfile, receipt, changes, broken>>,
         \A m \in Names : m # op[t].name => dirs'[m] = dirs[m],
         \A b \in Backups : b # op[t].id => backups'[b] = backups[b],
         Located(t)'
  PROVE  CopyInv'
<1>. DEFINE n == op[t].name
<1>1. /\ n \in Names /\ receipt[t] = None
      /\ \A u \in Tasks : receipt[u] # None => receipt[u].backup # op[t].id
      /\ \A u \in Tasks : u # t => op[u].pc = "idle"
  BY Shapes, Alone DEF IInv, ChangeOps, ChangeInv, Changing
<1>2. \A b \in Spare : b \in Spare' /\ b # op[t].id
  BY <1>1, SpareStays DEF Spare, IInv, TypeInv
<1>3. Others(t, n)
  BY <1>1, <1>2 DEF Others, Whole, Spare
<1>4. \A e, d : Backed(e, d, Spare, backups) => Backed(e, d, Spare', backups')
  BY <1>3, BackedStays DEF Others
<1>5. ChangeCopy(t)'
  BY <1>4 DEF ChangeCopy, CopyInv, Whole
<1>6. ReceiptCopy(t)' /\ RollbackCopy(t)' /\ RestCopy(n)'
  BY <1>1 DEF ReceiptCopy, RollbackCopy, RestCopy, RollingBack, Changing
<1>. QED BY <1>1, <1>3, <1>5, <1>6, OthersKeep

(* A change ends without a receipt, or a task at rest loses its receipt: for a listed package
   that stays whole there is still a copy. *)
LEMMA EndingCopies ==
  ASSUME IInv, CopyInv, NEW t \in Tasks, NEW n \in Names, op'[t] = Idle, receipt'[t] = None,
         op[t].pc # "idle" => op[t].name = n,
         \A u \in Tasks : u # t => op'[u] = op[u] /\ receipt'[u] = receipt[u],
         changes' = changes,
         \A m \in Names : m # n => lockfile'[m] = lockfile[m] /\ dirs'[m] = dirs[m],
         \A m \in Names : Whole(m)' => Whole(m),
         \A b \in Spare : backups'[b] = backups[b],
         \A u \in Tasks : u # t /\ receipt[u] # None /\ receipt[u].backup \in Backups =>
            backups'[receipt[u].backup] = backups[receipt[u].backup],
         (\A u \in Tasks : u # t => op[u].pc = "idle") \/ UNCHANGED <<lockfile, dirs, backups>>,
         Whole(n)' => \/ \E u \in Tasks : u # t /\ op[u].pc # "idle" /\ op[u].name = n
                      \/ Backed(lockfile'[n], dirs'[n], Spare, backups)
                      \/ Backed(lockfile'[n], dirs'[n], Spare', backups')
  PROVE  CopyInv'
<1>1. \A b \in Spare : b \in Spare'
  BY SpareStays DEF IInv, TypeInv, Idle, Changing
<1>2. Others(t, n)
  BY <1>1 DEF Others
<1>3. \A e, d : Backed(e, d, Spare, backups) => Backed(e, d, Spare', backups')
  BY <1>1, BackedStays
<1>4. ChangeCopy(t)' /\ ReceiptCopy(t)' /\ RollbackCopy(t)'
  BY DEF ChangeCopy, ReceiptCopy, RollbackCopy, Idle, Changing, RollingBack
<1>5. RestCopy(n)'
  BY <1>3 DEF RestCopy
<1>. QED BY <1>2, <1>4, <1>5, OthersKeep

LEMMA StageCopies ==
  ASSUME IInv, CopyInv, NEW t \in Tasks, Stage(t) \/ StageRaises(t)
  PROVE  CopyInv'
<1>1. /\ op[t] \in ChangeOps /\ op[t].pc = "stage" /\ op[t].backup = 0
      /\ UNCHANGED <<lockfile, dirs, backups, receipt, changes, broken>>
  BY Shapes DEF IInv, ChangeInv, Stage, StageRaises, At, Changing, disk
<1>2. /\ op'[t].pc \in {"swap", "undo"} /\ op'[t].name = op[t].name /\ op'[t].was = op[t].was
      /\ op'[t].previous = op[t].previous /\ op'[t].id = op[t].id /\ op'[t].backup = op[t].backup
      /\ \A u \in Tasks : u # t => op'[u] = op[u]
  BY <1>1 DEF Stage, StageRaises, Goto, IInv, TypeInv, ChangeOps
<1>3. Located(t)'
  BY <1>1, <1>2 DEF CopyInv, ChangeCopy, Located, Changing
<1>. QED BY <1>1, <1>2, <1>3, ChangingCopies DEF Changing

LEMMA AsideCopies ==
  ASSUME IInv, CopyInv, NEW t \in Tasks, Aside(t) \/ RemoveAside(t)
  PROVE  CopyInv'
<1>. DEFINE n == op[t].name
            o == op[t]
<1>1. /\ o \in ChangeOps /\ o.pc \in {"swap", "rm_swap"} /\ n \in Names /\ o.backup = 0
      /\ o.id \in Backups /\ o.id # 0 /\ MoveTarget(t) /\ UNCHANGED <<lockfile, receipt, changes,
                                                                      broken>>
  BY Shapes DEF IInv, ChangeInv, Aside, RemoveAside, At, Changing, ChangeOps, Backups
<1>2. /\ op'[t].pc \in {"place", "unlist"} /\ op'[t].name = n /\ op'[t].was = o.was
      /\ op'[t].previous = o.previous /\ op'[t].id = o.id
      /\ op'[t].backup = (IF dirs[n] # None THEN o.id ELSE 0)
      /\ \A u \in Tasks : u # t => op'[u] = op[u]
  BY <1>1 DEF MoveTarget, IInv, TypeInv, ChangeOps, NameOf
<1>3. IF dirs[n] # None
      THEN dirs' = [dirs EXCEPT ![n] = None] /\ backups' = [backups EXCEPT ![o.id] = dirs[n]]
      ELSE UNCHANGED <<dirs, backups>>
  BY <1>1 DEF MoveTarget, NameOf
<1>4. dirs[n] = o.was
  BY <1>1 DEF CopyInv, ChangeCopy, Located, Changing
<1>5. /\ dirs'[n] = None /\ (dirs[n] # None => backups'[o.id] = dirs[n])
      /\ \A m \in Names : m # n => dirs'[m] = dirs[m]
      /\ \A b \in Backups : b # o.id => backups'[b] = backups[b]
  BY <1>1, <1>3 DEF IInv, TypeInv
<1>6. Located(t)'
  BY <1>1, <1>2, <1>4, <1>5 DEF Located, Kept
<1>. QED BY <1>1, <1>2, <1>5, <1>6, ChangingCopies DEF Changing

LEMMA PlaceCopies ==
  ASSUME IInv, CopyInv, NEW t \in Tasks, Place(t)
  PROVE  CopyInv'
<1>. DEFINE n == op[t].name
            o == op[t]
<1>1. /\ o \in ChangeOps /\ o.pc = "place" /\ n \in Names
      /\ dirs' = [dirs EXCEPT ![n] = o.pkg] /\ UNCHANGED <<lockfile, backups, receipt, changes, broken>>
  BY Shapes DEF IInv, Place, At, NameOf, Changing, ChangeOps
<1>2. /\ op'[t].pc = "record" /\ op'[t].name = n /\ op'[t].was = o.was /\ op'[t].pkg = o.pkg
      /\ op'[t].previous = o.previous /\ op'[t].id = o.id /\ op'[t].backup = o.backup
      /\ \A u \in Tasks : u # t => op'[u] = op[u]
  BY <1>1 DEF Place, Goto, IInv, TypeInv, ChangeOps
<1>3. dirs'[n] = o.pkg /\ \A m \in Names : m # n => dirs'[m] = dirs[m]
  BY <1>1 DEF IInv, TypeInv
<1>4. Located(t)'
  BY <1>1, <1>2, <1>3 DEF CopyInv, ChangeCopy, Located, Changing, Kept
<1>. QED BY <1>1, <1>2, <1>3, <1>4, ChangingCopies DEF Changing

(* A change begins for a package that nobody is changing. *)
LEMMA BeginCopies ==
  ASSUME IInv, CopyInv, NEW t \in Tasks,
         (\E s \in Sources : Install(t, s)) \/ (\E n \in Names : StageRemove(t, n))
  PROVE  CopyInv'
<1>1. ASSUME NEW s \in Sources, Install(t, s) PROVE CopyInv'
  <2>1. s.name \in Names /\ Take(t, s.name, "stage", "install", s)
        /\ UNCHANGED <<lockfile, dirs, backups, receipt, broken>>
    BY <1>1, StoreAssumption DEF StoreAssumption, Install, disk
  <2>. QED BY <2>1, TakeCopies
<1>2. ASSUME NEW n \in Names, StageRemove(t, n) PROVE CopyInv'
  <2>1. Take(t, n, "rm_swap", "remove", None)
        /\ UNCHANGED <<lockfile, dirs, backups, receipt, broken>>
    BY <1>2 DEF StageRemove, disk
  <2>. QED BY <2>1, TakeCopies
<1>. QED BY <1>1, <1>2

(* The handler wipes only what is not the old directory. *)
LEMMA UndoCopies ==
  ASSUME IInv, CopyInv, NEW t \in Tasks, Undo(t)
  PROVE  CopyInv'
<1>. DEFINE n == op[t].name
            o == op[t]
<1>1. /\ o \in ChangeOps /\ o.pc = "undo" /\ n \in Names
      /\ dirs' = IF o.backup # 0 \/ o.previous = None THEN [dirs EXCEPT ![n] = None] ELSE dirs
      /\ UNCHANGED <<lockfile, backups, receipt, changes, broken>>
  BY Shapes DEF IInv, Undo, UndoWipes, Wipe, At, NameOf, Changing, ChangeOps
<1>2. /\ op'[t].pc = "restore" /\ op'[t].name = n /\ op'[t].was = o.was
      /\ op'[t].previous = o.previous /\ op'[t].id = o.id /\ op'[t].backup = o.backup
      /\ \A u \in Tasks : u # t => op'[u] = op[u]
  BY <1>1 DEF Undo, Goto, IInv, TypeInv, ChangeOps
<1>3. /\ \A m \in Names : m # n => dirs'[m] = dirs[m]
      /\ o.backup = 0 /\ o.previous # None => dirs' = dirs
  BY <1>1 DEF IInv, TypeInv
<1>4. Located(t)'
  BY <1>1, <1>2, <1>3 DEF CopyInv, ChangeCopy, Located, Changing, Kept
<1>. QED BY <1>1, <1>2, <1>3, <1>4, ChangingCopies DEF Changing

(* A step raises: the handler starts with the old directory in its backup. *)
LEMMA RaiseCopies ==
  ASSUME IInv, CopyInv, NEW t \in Tasks, Raise(t), ~AsideMayFail
  PROVE  CopyInv'
<1>. DEFINE n == op[t].name
            o == op[t]
<1>1. /\ o \in ChangeOps /\ o.pc \in {"place", "record", "unlist", "rm_swap"} /\ n \in Names
      /\ UNCHANGED <<lockfile, dirs, backups, receipt, changes, broken>>
      /\ \A u \in Tasks : u # t => op[u].pc = "idle"
  BY Shapes, Alone DEF IInv, Raise, At, NameOf, Changing, ChangeOps, RollingBack, disk
<1>2. \A u \in Tasks : u # t => op'[u] = op[u]
  BY <1>1 DEF Raise, At, Goto, Release, IInv, TypeInv
<1>3. CASE o.pc = "rm_swap"
  <2>1. op'[t] = Idle /\ receipt[t] = None
    BY <1>1, <1>3 DEF Raise, At, Release, IInv, TypeInv, ChangeInv, Changing
  <2>2. Whole(n) => Backed(lockfile[n], dirs[n], Spare, backups)
    BY <1>1, <1>3 DEF CopyInv, ChangeCopy, Located, Changing
  <2>. QED BY <1>1, <1>2, <2>1, <2>2, EndingCopies DEF Whole
<1>4. CASE o.pc # "rm_swap"
  <2>1. /\ op'[t].pc = (IF o.pc = "unlist" THEN "restore" ELSE "undo") /\ op'[t].name = n
        /\ op'[t].was = o.was
        /\ op'[t].previous = o.previous /\ op'[t].id = o.id /\ op'[t].backup = o.backup
    BY <1>1, <1>4 DEF Raise, At, Goto, IInv, TypeInv, ChangeOps
  <2>2. Located(t)'
    BY <1>1, <1>4, <2>1 DEF CopyInv, ChangeCopy, Located, Changing, Kept
  <2>. QED BY <1>1, <1>2, <2>1, <2>2, ChangingCopies DEF Changing
<1>. QED BY <1>3, <1>4

(* The directory that a change found is there again, or was no use to the lock file. *)
LEMMA RestoreCopies ==
  ASSUME IInv, CopyInv, NEW t \in Tasks, Restore(t)
  PROVE  CopyInv'
<1>. DEFINE n == op[t].name
            o == op[t]
            b == op[t].backup
<1>1. /\ o \in ChangeOps /\ o.pc = "restore" /\ n \in Names /\ receipt[t] = None
      /\ b \in {0, o.id} /\ \A u \in Tasks : receipt[u] # None => receipt[u].backup # o.id
      /\ \A u \in Tasks : u # t => op[u].pc = "idle"
      /\ UNCHANGED <<lockfile, receipt, changes, broken>>
  BY Shapes, Alone DEF IInv, ChangeInv, Restore, At, NameOf, Changing, ChangeOps
<1>2. op'[t] = Idle /\ \A u \in Tasks : u # t => op'[u] = op[u]
  BY DEF Restore, Release, IInv, TypeInv
<1>3. IF b \in Backups /\ backups[b] # None
      THEN dirs' = [dirs EXCEPT ![n] = backups[b]] /\ backups' = [backups EXCEPT ![b] = None]
      ELSE UNCHANGED <<dirs, backups>>
  BY DEF Restore, PutBack, NameOf
<1>4. /\ \A m \in Names : m # n => dirs'[m] = dirs[m]
      /\ \A c \in Backups : c # b => backups'[c] = backups[c]
      /\ b \in Backups /\ backups[b] # None => dirs'[n] = backups[b]
      /\ b \notin Backups => dirs' = dirs
  BY <1>1, <1>3 DEF IInv, TypeInv
<1>5. 0 \notin Backups /\ Spare \subseteq Backups /\ \A c \in Spare : c # o.id
  BY <1>1 DEF Backups, Spare, Changing
<1>6. Whole(n) => Backed(lockfile[n], dirs'[n], Spare, backups)
  <2>. SUFFICES ASSUME Whole(n) PROVE Backed(lockfile[n], dirs'[n], Spare, backups)
    OBVIOUS
  <2>1. /\ lockfile[n] = o.previous /\ Backed(o.previous, o.was, Spare, backups)
        /\ Kept(b, o.was) \/ (b = 0 /\ (dirs[n] = o.was \/ o.previous = None))
    BY <1>1 DEF CopyInv, ChangeCopy, Located, Changing
  <2>2. o.previous # None => o.previous.pkg # None
    BY <1>1, StoreAssumption DEF StoreAssumption, ChangeOps, Listings, Entries
  <2>. QED BY <1>4, <1>5, <2>1, <2>2 DEF Backed, Kept
<1>. QED BY <1>1, <1>2, <1>4, <1>5, <1>6, EndingCopies DEF Whole

(* A change ends with a receipt for the directory it found, and its entry is what is there. *)
LEMMA EntryCopies ==
  ASSUME IInv, CopyInv, NEW t \in Tasks, op[t].pc \in {"record", "unlist"},
         NEW entry \in Listings,
         entry = None \/ (op[t].pc = "record" /\ entry.pkg = op[t].pkg),
         lockfile' = [lockfile EXCEPT ![op[t].name] = entry],
         receipt' = [receipt EXCEPT ![t] = Receipt(t, entry)],
         op' = [op EXCEPT ![t] = Idle], UNCHANGED <<dirs, backups, changes, broken>>
  PROVE  CopyInv'
<1>. DEFINE o == op[t]
            r == Receipt(t, entry)
<1>0. PICK n \in Names : n = o.name
  BY Shapes DEF IInv, Changing, ChangeOps
<1>1. /\ o \in ChangeOps /\ o.backup \in {0, o.id}
      /\ \A u \in Tasks : u # t => op[u].pc = "idle"
  BY Shapes, Alone DEF IInv, ChangeInv, Changing, ChangeOps
<1>2. /\ op'[t] = Idle /\ op'[t].pc = "idle" /\ receipt'[t] = r
      /\ r.name = n /\ r.backup = o.backup /\ r.was = o.was /\ r.previous = o.previous
      /\ r.tried = FALSE
      /\ \A u \in Tasks : u # t => op'[u] = op[u] /\ receipt'[u] = receipt[u]
      /\ lockfile'[n] = entry /\ \A m \in Names : m # n => lockfile'[m] = lockfile[m]
  BY <1>0, <1>1 DEF Receipt, Idle, IInv, TypeInv
<1>3. \A b \in Spare : b \in Spare'
  BY <1>1, <1>2, SpareStays DEF Idle, Changing, IInv, TypeInv
<1>4. Others(t, n)
  BY <1>0, <1>1, <1>2, <1>3 DEF Others, Whole
<1>5. \A e, d : Backed(e, d, Spare, backups) => Backed(e, d, Spare', backups')
  BY <1>1, <1>3, BackedStays
<1>6. /\ Whole(n) => Backed(o.previous, o.was, Spare, backups)
      /\ Kept(o.backup, o.was) /\ (o.pc = "record" => dirs[n] = o.pkg)
  BY <1>0 DEF CopyInv, ChangeCopy, Located, Changing
<1>7. ReceiptCopy(t)'
  BY <1>2, <1>5, <1>6 DEF ReceiptCopy, Whole, Kept
<1>8. ChangeCopy(t)' /\ RollbackCopy(t)'
  BY <1>2 DEF ChangeCopy, RollbackCopy, Changing, RollingBack
<1>9. RestCopy(n)'
  BY <1>2, <1>6 DEF RestCopy, Backed
<1>. QED BY <1>1, <1>4, <1>7, <1>8, <1>9, OthersKeep

LEMMA RecordCopies ==
  ASSUME IInv, CopyInv, NEW t \in Tasks, Record(t) \/ Unlist(t)
  PROVE  CopyInv'
<1>1. CASE Unlist(t)
  BY <1>1, EntryCopies DEF Unlist, At, WriteLock, NameOf, Release, Listings
<1>2. CASE Record(t)
  <2>1. op[t].pc = "record" /\ op[t].pkg \in Sources
    BY <1>2 DEF Record, At, IInv, ChangeInv, Changing
  <2>2. PICK at \in 0 .. MaxChanges :
            /\ lockfile' = [lockfile EXCEPT ![op[t].name] = [pkg |-> op[t].pkg, at |-> at]]
            /\ receipt' = [receipt EXCEPT ![t] = Receipt(t, [pkg |-> op[t].pkg, at |-> at])]
    BY <1>2 DEF Record, WriteLock, NameOf
  <2>. DEFINE entry == [pkg |-> op[t].pkg, at |-> at]
  <2>3. entry \in Listings /\ entry.pkg = op[t].pkg
    BY <2>1 DEF Listings, Entries
  <2>4. op' = [op EXCEPT ![t] = Idle] /\ UNCHANGED <<dirs, backups, changes, broken>>
    BY <1>2 DEF Record, Release
  <2>. HIDE DEF entry
  <2>. QED BY <2>1, <2>2, <2>3, <2>4, EntryCopies DEF entry
<1>. QED BY <1>1, <1>2

(* A rollback begins: the entry is the one of its receipt. *)
LEMMA RollbackBeginCopies ==
  ASSUME IInv, CopyInv, NEW t \in Tasks, RollbackInstall(t) \/ RollbackRemoval(t)
  PROVE  CopyInv'
<1>. DEFINE n == receipt[t].name
<1>1. /\ holder = None /\ receipt[t] # None /\ n \in Names /\ lockfile[n] = receipt[t].entry
      /\ \A u \in Tasks : op[u].pc = "idle"
      /\ UNCHANGED <<lockfile, dirs, backups, receipt, changes, broken>>
  BY Free DEF RollbackInstall, RollbackRemoval, Undoing, Current, disk, IInv, TypeInv, Receipts
<1>2. /\ op'[t].pc = "rb_wipe" \/ (op'[t].pc = "rb_restore" /\ dirs[n] = None)
      /\ op'[t].name = n /\ \A u \in Tasks : u # t => op'[u] = op[u]
  BY DEF RollbackInstall, RollbackRemoval, Undoing, IInv, TypeInv
<1>3. \A b \in Spare : b \in Spare'
  BY <1>1, <1>2, SpareStays DEF Changing, IInv, TypeInv
<1>4. Others(t, n)
  BY <1>1, <1>2, <1>3 DEF Others, Whole
<1>5. \A e, d : Backed(e, d, Spare, backups) => Backed(e, d, Spare', backups')
  BY <1>1, <1>3, BackedStays
<1>6. ReceiptCopy(t)'
  BY <1>1, <1>2, <1>5 DEF CopyInv, ReceiptCopy, Whole, Kept
<1>7. Whole(n) => Backed(lockfile[n], dirs[n], Spare, backups)
  BY <1>1 DEF CopyInv, RestCopy
<1>8. RollbackCopy(t)'
  BY <1>1, <1>2, <1>5, <1>7 DEF RollbackCopy, Whole
<1>9. ChangeCopy(t)' /\ RestCopy(n)'
  BY <1>1, <1>2 DEF ChangeCopy, RestCopy, Changing
<1>. QED BY <1>1, <1>4, <1>6, <1>8, <1>9, OthersKeep

LEMMA RollbackWipeCopies ==
  ASSUME IInv, CopyInv, NEW t \in Tasks, RollbackWipe(t)
  PROVE  CopyInv'
<1>. DEFINE n == op[t].name
<1>1. /\ op[t] \in RollbackOps /\ op[t].pc = "rb_wipe" /\ n \in Names
      /\ receipt[t] # None /\ receipt[t].name = n
      /\ \A u \in Tasks : u # t => op[u].pc = "idle"
      /\ dirs' = [dirs EXCEPT ![n] = None]
      /\ UNCHANGED <<lockfile, backups, receipt, changes, broken>>
  BY Shapes, Alone DEF IInv, RollbackInv, RollbackWipe, Wipe, At, NameOf, RollingBack, RollbackOps
<1>2. /\ op'[t].pc = "rb_restore" /\ op'[t].name = n
      /\ \A u \in Tasks : u # t => op'[u] = op[u]
      /\ dirs'[n] = None /\ \A m \in Names : m # n => dirs'[m] = dirs[m]
  BY <1>1 DEF RollbackWipe, Goto, IInv, TypeInv, RollbackOps
<1>3. \A b \in Spare : b \in Spare'
  BY <1>1, <1>2, SpareStays DEF Changing, IInv, TypeInv
<1>4. Others(t, n)
  BY <1>1, <1>2, <1>3 DEF Others, Whole
<1>5. \A e, d : Backed(e, d, Spare, backups) => Backed(e, d, Spare', backups')
  BY <1>1, <1>3, BackedStays
<1>6. ReceiptCopy(t)'
  BY <1>1, <1>2, <1>5 DEF CopyInv, ReceiptCopy, Whole, Kept
<1>7. RollbackCopy(t)'
  BY <1>1, <1>2 DEF CopyInv, RollbackCopy, RollingBack
<1>8. ChangeCopy(t)' /\ RestCopy(n)'
  BY <1>1, <1>2 DEF ChangeCopy, RestCopy, Changing
<1>. QED BY <1>1, <1>2, <1>4, <1>6, <1>7, <1>8, OthersKeep

(* The backup of the receipt goes back; no other receipt named it. *)
LEMMA RollbackRestoreCopies ==
  ASSUME IInv, CopyInv, NEW t \in Tasks, RollbackRestore(t)
  PROVE  CopyInv'
<1>. DEFINE n == op[t].name
            r == receipt[t]
            b == receipt[t].backup
<1>1. /\ op[t] \in RollbackOps /\ op[t].pc = "rb_restore" /\ n \in Names
      /\ r # None /\ r.name = n
      /\ \A u \in Tasks : u # t => op[u].pc = "idle"
      /\ \A u \in Tasks : u # t /\ receipt[u] # None /\ b # 0 => receipt[u].backup # b
      /\ UNCHANGED <<lockfile, receipt, changes, broken>>
  BY Shapes, Alone DEF IInv, RollbackInv, ReceiptInv, RollbackRestore, At, RollingBack, RollbackOps
<1>2. /\ op'[t].pc = "rb_record" /\ op'[t].name = n
      /\ \A u \in Tasks : u # t => op'[u] = op[u]
  BY <1>1 DEF RollbackRestore, Goto, IInv, TypeInv, RollbackOps
<1>3. IF b \in Backups /\ backups[b] # None
      THEN dirs' = [dirs EXCEPT ![n] = backups[b]] /\ backups' = [backups EXCEPT ![b] = None]
      ELSE UNCHANGED <<dirs, backups>>
  BY DEF RollbackRestore, PutBack, NameOf
<1>4. /\ \A m \in Names : m # n => dirs'[m] = dirs[m]
      /\ \A c \in Backups : c # b => backups'[c] = backups[c]
      /\ b \in Backups /\ backups[b] # None => dirs'[n] = backups[b]
      /\ b \notin Backups => dirs' = dirs
  BY <1>1, <1>3 DEF IInv, TypeInv
<1>5. 0 \notin Backups /\ \A c \in Spare : c \in Backups /\ c # b
  BY <1>1 DEF Backups, Spare
<1>6. \A c \in Spare : c \in Spare'
  BY <1>1, <1>2, SpareStays DEF Changing, IInv, TypeInv
<1>7. Others(t, n)
  BY <1>1, <1>2, <1>4, <1>5, <1>6 DEF Others, Whole
<1>8. \A e, d : Backed(e, d, Spare, backups) => Backed(e, d, Spare', backups')
  BY <1>7, BackedStays DEF Others
<1>9. ReceiptCopy(t)'
  BY <1>1, <1>2, <1>8 DEF CopyInv, ReceiptCopy, Whole
<1>10. ~ r.tried => dirs'[n] = r.was
  <2>1. dirs[n] = None /\ (~ r.tried => Kept(b, r.was))
    BY <1>1 DEF CopyInv, ReceiptCopy, RollbackCopy, RollingBack
  <2>. QED BY <1>4, <1>5, <2>1 DEF Kept
<1>11. RollbackCopy(t)'
  BY <1>1, <1>2, <1>10 DEF CopyInv, RollbackCopy, RollingBack
<1>12. ChangeCopy(t)' /\ RestCopy(n)'
  BY <1>1, <1>2 DEF ChangeCopy, RestCopy, Changing
<1>. QED BY <1>1, <1>2, <1>7, <1>9, <1>11, <1>12, OthersKeep

LEMMA RollbackRecordCopies ==
  ASSUME IInv, CopyInv, NEW t \in Tasks, RollbackRecord(t)
  PROVE  CopyInv'
<1>. DEFINE n == op[t].name
<1>1. /\ op[t] \in RollbackOps /\ op[t].pc = "rb_record" /\ n \in Names
      /\ receipt[t] # None /\ receipt[t].name = n
      /\ \A u \in Tasks : u # t => op[u].pc = "idle"
      /\ UNCHANGED <<dirs, backups, changes, broken>>
  BY Shapes, Alone DEF IInv, RollbackInv, RollbackRecord, At, RollingBack, RollbackOps
<1>2. /\ op'[t] = Idle /\ receipt'[t] = None
      /\ \A u \in Tasks : u # t => op'[u] = op[u] /\ receipt'[u] = receipt[u]
      /\ lockfile'[n] = receipt[t].previous
      /\ \A m \in Names : m # n => lockfile'[m] = lockfile[m]
  BY <1>1 DEF RollbackRecord, WriteLock, NameOf, Release, IInv, TypeInv
<1>3. Whole(n) => Backed(lockfile'[n], dirs[n], Spare, backups)
  BY <1>1, <1>2 DEF CopyInv, ReceiptCopy, RollbackCopy, RollingBack
<1>. QED BY <1>1, <1>2, <1>3, EndingCopies DEF Whole

(* finalize() deletes the backup of its receipt, which is not spare and no other's. *)
LEMMA FinalizeCopies ==
  ASSUME IInv, CopyInv, NEW t \in Tasks, Finalize(t)
  PROVE  CopyInv'
<1>0. receipt[t] # None /\ receipt[t].name \in Names
  BY DEF Finalize, IInv, TypeInv, Receipts
<1>1. PICK n \in Names : n = receipt[t].name
  BY <1>0
<1>2. /\ \A u \in Tasks : op[u].pc = "idle"
      /\ UNCHANGED <<lockfile, dirs, op, changes, broken>>
  BY Free DEF Finalize
<1>3. /\ op'[t] = Idle /\ receipt'[t] = None
      /\ \A u \in Tasks : u # t => op'[u] = op[u] /\ receipt'[u] = receipt[u]
      /\ \A b \in Backups : b # receipt[t].backup => backups'[b] = backups[b]
  BY DEF Finalize, IInv, TypeInv
<1>4. /\ \A b \in Spare : backups'[b] = backups[b]
      /\ \A u \in Tasks : u # t /\ receipt[u] # None /\ receipt[u].backup \in Backups =>
            backups'[receipt[u].backup] = backups[receipt[u].backup]
  <2>1. 0 \notin Backups /\ \A b \in Spare : b \in Backups /\ b # receipt[t].backup
    BY <1>0 DEF Spare, Backups
  <2>2. \A u \in Tasks : u # t /\ receipt[u] # None /\ receipt[t].backup # 0 => receipt[u].backup # receipt[t].backup
    BY <1>0 DEF IInv, ReceiptInv
  <2>. QED BY <1>3, <2>1, <2>2
<1>5. Whole(n) => Backed(lockfile[n], dirs[n], Spare, backups)
  BY <1>2 DEF CopyInv, RestCopy
<1>. QED BY <1>2, <1>3, <1>4, <1>5, EndingCopies DEF Whole

(* A task at rest that loses its receipt leaves a backup that nobody names any more. *)
LEMMA LosingCopies ==
  ASSUME IInv, CopyInv, NEW t \in Tasks, op[t].pc = "idle", receipt[t] # None,
         op'[t] = Idle, \A u \in Tasks : u # t => op'[u] = op[u],
         receipt' = [receipt EXCEPT ![t] = None],
         UNCHANGED <<lockfile, dirs, backups, changes, broken>>
  PROVE  CopyInv'
<1>1. receipt[t].name \in Names
  BY DEF IInv, TypeInv, Receipts
<1>2. PICK n \in Names : n = receipt[t].name
  BY <1>1
<1>3. receipt'[t] = None /\ \A u \in Tasks : u # t => receipt'[u] = receipt[u]
  BY DEF IInv, TypeInv
<1>4. Whole(n) => \/ \E u \in Tasks : u # t /\ op[u].pc # "idle" /\ op[u].name = n
                  \/ Backed(lockfile[n], dirs[n], Spare, backups)
  BY DEF CopyInv, RestCopy
<1>. QED BY <1>3, <1>4, EndingCopies DEF Whole

LEMMA AbandonCopies ==
  ASSUME IInv, CopyInv, NEW t \in Tasks, Abandon(t)
  PROVE  CopyInv'
<1>1. /\ op[t].pc = "idle" /\ op'[t] = Idle /\ receipt[t] # None
      /\ \A u \in Tasks : u # t => op'[u] = op[u]
      /\ receipt' = [receipt EXCEPT ![t] = None]
      /\ UNCHANGED <<lockfile, dirs, backups, changes, broken>>
  BY DEF Abandon, Idle, disk
<1>. QED BY <1>1, LosingCopies

(* A change is cut off: the directory that it found is in its place, or in a backup that is
   spare from now on. *)
LEMMA CutCopies ==
  ASSUME IInv, CopyInv, NEW t \in Tasks, op[t].pc \in Changing,
         op'[t] = Idle, \A u \in Tasks : u # t => op'[u] = op[u] /\ receipt'[u] = receipt[u],
         receipt'[t] = None, UNCHANGED <<lockfile, backups, changes>>,
         broken'.rollback = broken.rollback,
         \A m \in Names : m # op[t].name => dirs'[m] = dirs[m],
         dirs' = dirs \/ (op[t].pc = "undo" /\ UndoWipes(t))
  PROVE  CopyInv'
<1>. DEFINE o == op[t]
<1>0. PICK n \in Names : n = o.name
  BY Shapes DEF IInv, Changing, ChangeOps
<1>1. /\ o \in ChangeOps /\ receipt[t] = None /\ o.id = changes /\ changes \in Backups
      /\ o.backup \in {0, changes}
      /\ \A u \in Tasks : receipt[u] # None => receipt[u].backup # changes
      /\ \A u \in Tasks : u # t => op[u].pc = "idle"
      /\ (o.pc \in {"stage", "swap", "rm_swap"} => o.backup = 0)
  BY Shapes, Alone DEF IInv, ChangeInv, Changing
<1>2. /\ lockfile[n] = o.previous /\ (Whole(n) => Backed(o.previous, o.was, Spare, backups))
      /\ Located(t)
  BY <1>0 DEF CopyInv, ChangeCopy
<1>3. changes \in Spare'
  BY <1>1 DEF Spare, Idle, Changing, IInv, TypeInv
<1>4. \A b \in Spare : b \in Spare'
  BY <1>1, SpareStays DEF Idle, Changing, IInv, TypeInv
<1>5. \A e, d : Backed(e, d, Spare, backups) => Backed(e, d, Spare', backups')
  BY <1>4, BackedStays
<1>6. o.previous # None => o.previous.pkg # None
  BY <1>1, StoreAssumption DEF StoreAssumption, ChangeOps, Listings, Entries
<1>7. Kept(o.backup, o.was) \/ (dirs'[n] = o.was \/ o.previous = None)
  BY <1>0, <1>1, <1>2 DEF Located, Changing, UndoWipes
<1>8. Whole(n) => Backed(lockfile[n], dirs'[n], Spare', backups')
  <2>. SUFFICES ASSUME Whole(n) PROVE Backed(lockfile[n], dirs'[n], Spare', backups')
    OBVIOUS
  <2>1. Backed(o.previous, o.was, Spare', backups')
    BY <1>2, <1>5
  <2>2. CASE dirs'[n] = o.was \/ o.previous = None
    BY <1>2, <2>1, <2>2 DEF Backed
  <2>3. CASE Kept(o.backup, o.was) /\ o.backup = 0
    BY <1>2, <1>6, <2>1, <2>3 DEF Backed, Kept
  <2>4. CASE Kept(o.backup, o.was) /\ o.backup = changes
    BY <1>1, <1>2, <1>3, <2>1, <2>4 DEF Backed, Kept, Backups
  <2>. QED BY <1>1, <1>7, <2>2, <2>3, <2>4
<1>. QED BY <1>0, <1>1, <1>2, <1>8, EndingCopies DEF Whole

(* A process dies. *)
LEMMA CrashCopies ==
  ASSUME IInv, CopyInv, NEW t \in Tasks, Crash(t)
  PROVE  CopyInv'
<1>1. /\ op'[t] = Idle /\ receipt'[t] = None /\ receipt' = [receipt EXCEPT ![t] = None]
      /\ \A u \in Tasks : u # t => op'[u] = op[u] /\ receipt'[u] = receipt[u]
      /\ UNCHANGED <<lockfile, backups, changes>>
      /\ op[t].pc = "idle" <=> op[t] = Idle
      /\ op[t].pc \in {"idle"} \cup Changing \cup RollingBack
  BY Shapes DEF Crash, IInv, TypeInv
<1>2. CASE op[t].pc = "idle"
  <2>1. UNCHANGED <<dirs, broken>> /\ receipt[t] # None
    BY <1>1, <1>2 DEF Crash, Removing, At, Breaks, IInv, TypeInv
  <2>. QED BY <1>1, <1>2, <2>1, LosingCopies
<1>3. CASE op[t].pc \in Changing
  <2>1. /\ broken'.rollback = broken.rollback
        /\ \A m \in Names : m # op[t].name => dirs'[m] = dirs[m]
        /\ dirs' = dirs \/ (op[t].pc = "undo" /\ UndoWipes(t))
    BY <1>3 DEF Crash, Removing, At, Breaks, NameOf, Changing, IInv, TypeInv
  <2>. QED BY <1>1, <1>3, <2>1, CutCopies
<1>4. CASE op[t].pc \in RollingBack
  <2>1. op[t] \in RollbackOps /\ \A u \in Tasks : u # t => op[u].pc = "idle"
    BY <1>4, Shapes, Alone DEF IInv, RollingBack
  <2>2. PICK n \in Names : n = op[t].name
    BY <2>1 DEF RollbackOps
  <2>3. /\ n \in broken'.rollback /\ broken.rollback \subseteq broken'.rollback
        /\ \A m \in Names : m # n => dirs'[m] = dirs[m]
    BY <1>4, <2>2 DEF Crash, Removing, At, Breaks, NameOf, RollingBack, IInv, TypeInv
  <2>. QED BY <1>1, <2>1, <2>2, <2>3, EndingCopies DEF Whole
<1>. QED BY <1>1, <1>2, <1>3, <1>4

(* Undoing raises: a change is cut off, or a rollback, which leaves its receipt. *)
LEMMA UndoRaisesCopies ==
  ASSUME IInv, CopyInv, NEW t \in Tasks, UndoRaises(t)
  PROVE  CopyInv'
<1>1. /\ op'[t] = Idle /\ \A u \in Tasks : u # t => op'[u] = op[u] /\ receipt'[u] = receipt[u]
      /\ UNCHANGED <<lockfile, backups, changes>>
      /\ op[t].pc \in Changing \cup RollingBack
      /\ \A u \in Tasks : u # t => op[u].pc = "idle"
  BY Alone DEF UndoRaises, Release, IInv, TypeInv, Changing, RollingBack
<1>2. CASE op[t].pc \in Changing
  <2>1. op[t].kind # "rollback" /\ receipt[t] = None
    BY <1>2, Shapes DEF IInv, ChangeInv, ChangeOps
  <2>2. /\ broken'.rollback = broken.rollback /\ receipt' = receipt
        /\ \A m \in Names : m # op[t].name => dirs'[m] = dirs[m]
        /\ dirs' = dirs \/ (op[t].pc = "undo" /\ UndoWipes(t))
    BY <1>2, <2>1 DEF UndoRaises, Removing, At, Breaks, NameOf, Changing, IInv, TypeInv
  <2>. QED BY <1>1, <1>2, <2>1, <2>2, CutCopies
<1>3. CASE op[t].pc \in RollingBack
  <2>1. op[t] \in RollbackOps /\ op[t].kind = "rollback" /\ receipt[t] \in Receipts
    BY <1>3, Shapes DEF IInv, TypeInv, RollbackInv, RollbackOps
  <2>2. PICK n \in Names : n = op[t].name /\ receipt[t].name = n
    BY <1>3, <2>1 DEF RollbackOps, IInv, RollbackInv
  <2>3. /\ n \in broken'.rollback /\ broken.rollback \subseteq broken'.rollback
        /\ \A m \in Names : m # n => dirs'[m] = dirs[m]
    BY <1>3, <2>2 DEF UndoRaises, Removing, At, Breaks, NameOf, RollingBack, IInv, TypeInv
  <2>4. receipt' = [receipt EXCEPT ![t].tried = TRUE]
    BY <2>1 DEF UndoRaises
  <2>5. /\ receipt'[t].tried = TRUE /\ receipt'[t].name = n
        /\ receipt'[t].backup = receipt[t].backup
    BY <2>1, <2>2, <2>4 DEF Receipts, IInv, TypeInv
  <2>6. receipt[t] # None
    BY <1>3 DEF IInv, RollbackInv
  <2>7. \A b \in Spare : b \in Spare'
    BY <1>1, <2>5, <2>6, SpareStays DEF Idle, Changing, IInv, TypeInv
  <2>8. Others(t, n)
    BY <1>1, <2>2, <2>3, <2>7 DEF Others, Whole
  <2>9. ReceiptCopy(t)'
    BY <2>3, <2>5 DEF ReceiptCopy, Whole
  <2>10. ChangeCopy(t)' /\ RollbackCopy(t)' /\ RestCopy(n)'
    BY <1>1, <2>3 DEF ChangeCopy, RollbackCopy, RestCopy, Idle, Changing, RollingBack, Whole
  <2>. QED BY <2>8, <2>9, <2>10, OthersKeep
<1>. QED BY <1>1, <1>2, <1>3

(* Every step keeps a copy of every listed package that stays whole. *)
LEMMA StepCopies == ASSUME IInv, CopyInv, ~AsideMayFail, [Next]_vars PROVE CopyInv'
<1>1. CASE UNCHANGED vars
  <2>1. /\ lockfile' = lockfile /\ dirs' = dirs /\ backups' = backups /\ op' = op
        /\ receipt' = receipt /\ changes' = changes /\ broken' = broken
    BY <1>1 DEF vars, disk
  <2>2. Spare' = Spare
    BY <2>1 DEF Spare
  <2>3. ASSUME NEW t \in Tasks PROVE ChangeCopy(t)'
    BY <2>1, <2>2 DEF CopyInv, ChangeCopy, Located, Kept, Whole
  <2>4. ASSUME NEW t \in Tasks PROVE ReceiptCopy(t)'
    BY <2>1, <2>2 DEF CopyInv, ReceiptCopy, Kept, Whole
  <2>5. ASSUME NEW t \in Tasks PROVE RollbackCopy(t)'
    BY <2>1, <2>2 DEF CopyInv, RollbackCopy, Whole
  <2>6. ASSUME NEW n \in Names PROVE RestCopy(n)'
    BY <2>1, <2>2 DEF CopyInv, RestCopy, Whole
  <2>. QED BY <2>3, <2>4, <2>5, <2>6 DEF CopyInv
<1>2. ASSUME NEW t \in Tasks, \/ \E s \in Sources : Install(t, s)
                              \/ \E n \in Names : StageRemove(t, n)
                              \/ Stage(t) \/ StageRaises(t) \/ Aside(t) \/ RemoveAside(t)
                              \/ Place(t) \/ Record(t) \/ Unlist(t)
      PROVE  CopyInv'
  BY <1>2, BeginCopies, StageCopies, AsideCopies, PlaceCopies, RecordCopies
<1>3. ASSUME NEW t \in Tasks, Raise(t) \/ Undo(t) \/ Restore(t) PROVE CopyInv'
  BY <1>3, RaiseCopies, UndoCopies, RestoreCopies
<1>4. ASSUME NEW t \in Tasks, RollbackInstall(t) \/ RollbackRemoval(t) \/ RollbackWipe(t)
                               \/ RollbackRestore(t) \/ RollbackRecord(t) PROVE CopyInv'
  BY <1>4, RollbackBeginCopies, RollbackWipeCopies, RollbackRestoreCopies, RollbackRecordCopies
<1>5. ASSUME NEW t \in Tasks, Finalize(t) \/ Abandon(t) \/ Crash(t) \/ UndoRaises(t) PROVE CopyInv'
  BY <1>5, FinalizeCopies, AbandonCopies, CrashCopies, UndoRaisesCopies
<1>. QED BY <1>1, <1>2, <1>3, <1>4, <1>5 DEF Next

(* A package of which somebody is changing the directory has its files where the step says. *)
LEMMA InvariantRecovers == IInv /\ CopyInv => Recoverable
<1>. SUFFICES ASSUME IInv, CopyInv, NEW n \in Names, Listed(n), Whole(n),
                     \A t \in Tasks : op[t].pc \in {"rb_restore", "rb_record"} => op[t].name # n
              PROVE  lockfile[n].pkg \in {dirs[n]} \cup {backups[b] : b \in Backups}
  BY DEF Recoverable, Whole, NameOf
<1>1. \A d : d = dirs[n] /\ Backed(lockfile[n], d, Spare, backups) =>
        lockfile[n].pkg \in {dirs[n]} \cup {backups[b] : b \in Backups}
  BY DEF Backed, Spare, Listed
<1>2. CASE \A t \in Tasks : op[t].pc # "idle" => op[t].name # n
  BY <1>1, <1>2 DEF CopyInv, RestCopy
<1>3. ASSUME NEW t \in Tasks, op[t].pc \in Changing, op[t].name = n
      PROVE  lockfile[n].pkg \in {dirs[n]} \cup {backups[b] : b \in Backups}
  <2>. DEFINE o == op[t]
  <2>1. /\ lockfile[n] = o.previous /\ Backed(o.previous, o.was, Spare, backups) /\ Located(t)
    BY <1>3 DEF CopyInv, ChangeCopy
  <2>2. lockfile[n].pkg # None /\ o.previous # None
    BY <2>1, StoreAssumption DEF StoreAssumption, Listed, IInv, TypeInv, Listings, Entries
  <2>3. Kept(o.backup, o.was) \/ dirs[n] = o.was
    BY <1>3, <2>1, <2>2 DEF Located, Changing
  <2>. QED BY <1>1, <2>1, <2>2, <2>3 DEF Kept, Backed, Spare
<1>4. ASSUME NEW t \in Tasks, op[t].pc = "rb_wipe", op[t].name = n
      PROVE  lockfile[n].pkg \in {dirs[n]} \cup {backups[b] : b \in Backups}
  BY <1>1, <1>4 DEF CopyInv, RollbackCopy, RollingBack
<1>5. \A t \in Tasks : op[t].pc \in {"idle"} \cup Changing \cup {"rb_wipe", "rb_restore", "rb_record"}
  BY Shapes DEF IInv, RollingBack
<1>. QED BY <1>2, <1>3, <1>4, <1>5

(* What the lock file lists is there, or can be brought back (PackagesSafe): lock file and
   directories agree about every package that nobody is changing and no change of which was cut
   off, through installs over another version, removals, rollbacks of either, errors at every
   other step and crashes; and whatever an interruption leaves, the files of each listed package
   are on the disk, as its directory or as a backup (the order of the os.replace, rmtree and lock
   file writes of _install_sync and _stage_remove_sync, their except handlers, finalize and
   rollback). *)
THEOREM PackagesAreSafe == ASSUME ~AsideMayFail PROVE Spec => []PackagesSafe
<1>1. Init => IInv /\ CopyInv
  BY InitKeeps, InitCopies
<1>2. IInv /\ CopyInv /\ [Next]_vars => (IInv /\ CopyInv)'
  BY NextKeeps, StepCopies
<1>3. IInv /\ CopyInv => PackagesSafe
  BY InvariantAgrees, InvariantRecovers DEF PackagesSafe
<1>. QED BY <1>1, <1>2, <1>3, PTL DEF Spec

(* A step of one task leaves what another is doing alone. *)
LEMMA OwnSteps ==
  ASSUME IInv, Next, NEW t \in Tasks, op'[t] # op[t]
  PROVE  \/ \E s \in Sources : Install(t, s)
         \/ \E n \in Names : StageRemove(t, n)
         \/ Stage(t) \/ Aside(t) \/ Place(t) \/ Record(t)
         \/ RemoveAside(t) \/ Unlist(t)
         \/ StageRaises(t) \/ Raise(t) \/ Undo(t) \/ Restore(t)
         \/ Finalize(t) \/ RollbackInstall(t) \/ RollbackRemoval(t)
         \/ RollbackWipe(t) \/ RollbackRestore(t) \/ RollbackRecord(t)
         \/ Abandon(t) \/ Crash(t) \/ UndoRaises(t)
<1>1. \A u \in Tasks, n \in Names : StageRemove(u, n) => u = t
  BY DEF StageRemove, Take, IInv, TypeInv
<1>2. \A u \in Tasks, s \in Sources : Install(u, s) => u = t
  BY DEF Install, Take, IInv, TypeInv
<1>3. \A u \in Tasks : Stage(u) \/ StageRaises(u) \/ Place(u) \/ Record(u) \/ Unlist(u) => u = t
  BY DEF Stage, StageRaises, Place, Record, Unlist, Goto, Release, IInv, TypeInv
<1>4. \A u \in Tasks : Aside(u) \/ RemoveAside(u) => u = t
  BY DEF Aside, RemoveAside, MoveTarget, IInv, TypeInv
<1>5. \A u \in Tasks : Raise(u) \/ Undo(u) \/ Restore(u) => u = t
  BY DEF Raise, Undo, Restore, Goto, Release, IInv, TypeInv
<1>6. \A u \in Tasks : RollbackInstall(u) \/ RollbackRemoval(u) \/ RollbackWipe(u)
                        \/ RollbackRestore(u) \/ RollbackRecord(u) => u = t
  BY DEF RollbackInstall, RollbackRemoval, Undoing, RollbackWipe, RollbackRestore, RollbackRecord,
         Goto, Release, IInv, TypeInv
<1>7. \A u \in Tasks : ~ Finalize(u) /\ ~ Abandon(u) /\ (Crash(u) \/ UndoRaises(u) => u = t)
  BY DEF Finalize, Abandon, Crash, UndoRaises, Release, IInv, TypeInv
<1>. QED BY <1>1, <1>2, <1>3, <1>4, <1>5, <1>6, <1>7 DEF Next

(* The last step of a rollback is RollbackRecord, unless it is cut off. *)
LEMMA RollbackEnds ==
  ASSUME IInv, [Next]_vars, NEW t \in Tasks, op[t].pc = "rb_record", op'[t].pc = "idle",
         faults' = faults
  PROVE  RollbackRecord(t)
<1>1. Next /\ op'[t] # op[t]
  BY DEF vars
<1>2. op[t] # Idle /\ faults \in Nat
  BY DEF Idle, IInv, TypeInv
<1>3. ~ Crash(t) /\ ~ UndoRaises(t) /\ ~ Raise(t)
  BY <1>2 DEF Crash, UndoRaises, Raise
<1>4. /\ \A s \in Sources : ~ Install(t, s)
      /\ \A n \in Names : ~ StageRemove(t, n)
      /\ ~ Finalize(t) /\ ~ RollbackInstall(t) /\ ~ RollbackRemoval(t) /\ ~ Abandon(t)
  BY <1>2 DEF Install, StageRemove, Take, Finalize, RollbackInstall, RollbackRemoval, Undoing, Abandon
<1>5. /\ ~ Stage(t) /\ ~ Aside(t) /\ ~ Place(t) /\ ~ Record(t) /\ ~ RemoveAside(t) /\ ~ Unlist(t)
      /\ ~ StageRaises(t) /\ ~ Undo(t) /\ ~ Restore(t) /\ ~ RollbackWipe(t) /\ ~ RollbackRestore(t)
  BY DEF At, Stage, Aside, Place, Record, RemoveAside, Unlist, StageRaises, Undo, Restore,
         RollbackWipe, RollbackRestore
<1>. QED BY <1>1, <1>3, <1>4, <1>5, OwnSteps

(* The step that ends a rollback undoes the change of its receipt and no later one, and leaves
   the entry and the directory as they were when that change began (the rollback of
   PackageInstallReceipt and PackageRemovalReceipt). *)
THEOREM RollbacksRestore == ASSUME ~AsideMayFail PROVE Spec => RollbackRestores
<1>. DEFINE Ends(t) == LET n == NameOf(t) IN
                /\ lockfile[n] = receipt[t].entry
                /\ lockfile'[n] = receipt[t].previous /\ dirs'[n] = receipt[t].was
<1>1. Init => IInv /\ CopyInv
  BY InitKeeps, InitCopies
<1>2. IInv /\ CopyInv /\ [Next]_vars => (IInv /\ CopyInv)'
  BY NextKeeps, StepCopies
<1>3. ASSUME IInv, CopyInv, [Next]_vars, NEW t \in Tasks, op[t].pc = "rb_record",
             op'[t].pc = "idle", ~ receipt[t].tried, faults' = faults
      PROVE  Ends(t)
  <2>1. RollbackRecord(t) /\ op[t].name \in Names
    BY <1>3, RollbackEnds, Shapes DEF IInv, RollbackOps, RollingBack
  <2>2. lockfile[op[t].name] = receipt[t].entry /\ dirs[op[t].name] = receipt[t].was
    BY <1>3 DEF CopyInv, RollbackCopy, RollingBack
  <2>3. lockfile' = [lockfile EXCEPT ![op[t].name] = receipt[t].previous] /\ dirs' = dirs
    BY <2>1 DEF RollbackRecord, WriteLock, NameOf
  <2>4. lockfile'[op[t].name] = receipt[t].previous
    BY <2>1, <2>3, <1>3 DEF IInv, TypeInv
  <2>. QED BY <2>2, <2>3, <2>4 DEF NameOf
<1>4. IInv /\ CopyInv /\ [Next]_vars =>
        [\A t \in Tasks :
            op[t].pc = "rb_record" /\ op'[t].pc = "idle" /\ receipt'[t] = None
            /\ ~receipt[t].tried /\ faults' = faults => Ends(t)]_vars
  BY <1>3
<1>. QED BY <1>1, <1>2, <1>4, PTL DEF Spec, RollbackRestores

(***************************************************************************)
(* ExtensionRuntime.  Which operation may be where (StepInv), and which    *)
(* hosts have active extensions there (LeakInv, StartInv), tell that an    *)
(* exchange leaves nothing behind; what the agent has comes from the live  *)
(* host (HoldsInv); and how far a change has come (ProgressInv) tells that *)
(* it ends with the extensions of the packages, or with those of before.   *)
(***************************************************************************)

(* A set of numbers that is not empty has a least one. *)
LEMMA LeastOf ==
    ASSUME NEW S, S \subseteq Nat, S # {}
    PROVE  \E x \in S : \A y \in S : x <= y
<1> DEFINE R == OpToRel(<, Nat)
<1>1. IsWellFoundedOn(R, Nat)
  BY NatLessThanWellFounded
<1> HIDE DEF R
<1>2. \E x \in S : \A y \in S : ~ (<<y, x>> \in R)
  BY <1>1, WFMin
<1>3. ASSUME NEW y \in Nat, NEW x \in Nat, ~ (<<y, x>> \in R)
      PROVE  x <= y
  BY <1>3 DEF R, OpToRel
<1> QED
  BY <1>2, <1>3

(* ExtensionRuntime: the job and the values of the variables. *)
Hosts == 1 .. MaxHosts
Pairs == Hosts \X Exts
Kinds == {"start", "reload", "close", "install", "remove"}
Early == {"validate", "guard", "sync", "discover", "rollback"}
Staging == {"activate", "swap", "close_cand"}
Late == Staging \cup {"close_old", "finalize"}
Jobs == {j \in [kind : Kinds, pkg : Packages \cup {""}, pc : Early \cup Late \cup {"let_go"},
                todo : SUBSET Exts, cand : 0 .. MaxHosts, old : 0 .. MaxHosts, was : BOOLEAN,
                back : BOOLEAN] :
            j.kind \in {"install", "remove"} => j.pkg \in Packages}
RuntimeTypes ==
    /\ installed \subseteq Packages /\ host \in Hosts
    /\ active \subseteq Pairs /\ roots \subseteq Packages /\ tools \subseteq Pairs /\ prompt \subseteq Pairs
    /\ streaming \in BOOLEAN /\ started \in BOOLEAN /\ strict \in BOOLEAN
    /\ noted \in BOOLEAN /\ bare \in BOOLEAN /\ torn \in BOOLEAN
    /\ job \in Jobs \cup {NoJob}

(* Which operation may be where. *)
Changes == job.kind \in {"install", "remove"}
FirstTry == Changes /\ ~job.back
StepInv ==
    Running =>
        /\ job.pc = "validate" => FirstTry
        /\ job.pc = "guard" => Changes
        /\ job.pc = "finalize" => FirstTry
        /\ job.pc = "rollback" => Changes /\ job.back
        /\ job.kind = "close" => job.pc = "let_go"
        /\ job.pc = "let_go" => job.kind \in {"start", "close"}
        /\ job.kind # "start" => started
        /\ job.pc \in Staging => job.cand \in Hosts /\ job.cand # host
        /\ job.pc = "close_old" => job.old \in Hosts /\ job.old # host

(* There is a host left for each reload that the operation may still come to. *)
Vacant(h) == h \in Hosts /\ h \notin Used
SpareInv ==
    /\ Running /\ (job.pc \in Early \/ (FirstTry /\ job.pc \in Late)) => \E h \in Hosts : Vacant(h)
    /\ Running /\ FirstTry /\ job.pc \in Early => \E h, k \in Hosts : h # k /\ Vacant(h) /\ Vacant(k)

(* Which hosts have active extensions. *)
LeakInv ==
    \A x \in active :
        \/ x[1] \in {host} \cup collided
        \/ JobAt("close_old") /\ x[1] = job.old
        \/ Running /\ job.pc \in Staging /\ x[1] = job.cand
StartInv ==
    /\ ~started /\ ~Running => In(host) = {}
    /\ Running /\ job.kind = "start" /\ job.pc \in {"sync", "discover"} \cup Staging => In(host) = {}

(* What the agent has comes from the live host. *)
HoldsInv == torn \/ JobAt("let_go") \/ tools \cup prompt \subseteq In(host)

(* How far a change of the extensions has come, in a strict runtime. *)
Wanted == installed \cup Explicit
Served == NamesIn(host) = Wanted /\ tools = In(host) /\ roots = installed
ProgressInv ==
    strict /\ ~noted /\ ~torn =>
        /\ started /\ ~Running => Served /\ (prompt = In(host) \/ bare)
        /\ JobAt("sync") /\ job.kind = "reload" => Served /\ (prompt = In(host) \/ bare)
        /\ Running /\ job.kind = "reload" /\ job.pc \in {"discover"} \cup Staging => Served
        /\ Running /\ job.pc \in {"discover", "close_old", "finalize"} \cup Staging => roots = installed
        /\ JobAt("activate") => NamesIn(job.cand) \cup job.todo = Wanted
        /\ JobAt("swap") => NamesIn(job.cand) = Wanted
        /\ JobAt("close_old") \/ JobAt("finalize") => Served /\ prompt = In(host)
RuntimeInv == RuntimeTypes /\ StepInv /\ SpareInv /\ LeakInv /\ StartInv /\ HoldsInv /\ ProgressInv

-----------------------------------------------------------------------------
(* ExtensionRuntime: what its operators say. *)

(* No host has the number of those that are not there. *)
LEMMA SomeHost == MaxHosts \in Nat /\ 0 \in 0 .. MaxHosts /\ 1 \in Hosts /\ \A h \in Hosts : h # 0
<1>1. MaxHosts \in Nat \ {0}
  BY RuntimeAssumption, Zenon
<1> QED
  BY <1>1 DEF Hosts

(* An operation that runs is a job. *)
LEMMA RunningJob ==
    ASSUME RuntimeTypes
    PROVE  Running <=> job \in Jobs
<1>1. NoJob.kind = "none"
  BY DEF NoJob
<1>2. NoJob \notin Jobs
  BY <1>1 DEF Jobs, Kinds
<1> QED
  BY <1>2 DEF RuntimeTypes, Running

(* Throw by cases: start() lets go, a first try is rolled back, and all others end. *)
LEMMA Thrown ==
    ASSUME NEW o \in Jobs
    PROVE  /\ o.kind = "start" => Throw(o) = [o EXCEPT !.pc = "let_go"] /\ Throw(o) \in Jobs
           /\ o.kind \in {"install", "remove"} /\ ~o.back
              => Throw(o) = [o EXCEPT !.pc = "rollback", !.back = TRUE] /\ Throw(o) \in Jobs
           /\ o.kind # "start" /\ ~(o.kind \in {"install", "remove"} /\ ~o.back) => Throw(o) = NoJob
<1>1. ASSUME o.kind = "start"
      PROVE  Throw(o) = [o EXCEPT !.pc = "let_go"]
  BY <1>1 DEF Throw
<1>2. ASSUME o.kind = "start"
      PROVE  [o EXCEPT !.pc = "let_go"] \in Jobs
  BY <1>2 DEF Jobs
<1>3. ASSUME o.kind \in {"install", "remove"}, ~o.back
      PROVE  Throw(o) = [o EXCEPT !.pc = "rollback", !.back = TRUE]
  BY <1>3 DEF Throw
<1>4. ASSUME o.kind \in {"install", "remove"}, ~o.back
      PROVE  [o EXCEPT !.pc = "rollback", !.back = TRUE] \in Jobs
  BY <1>4 DEF Jobs, Early
<1>5. ASSUME o.kind # "start", ~(o.kind \in {"install", "remove"} /\ ~o.back)
      PROVE  Throw(o) = NoJob
  BY <1>5 DEF Throw
<1> QED
  BY <1>1, <1>2, <1>3, <1>4, <1>5

(* A step that changes the place of the job alone. *)
LEMMA Proceeds ==
    ASSUME NEW o \in Jobs, NEW pc \in Early \cup Late \cup {"let_go"}
    PROVE  LET n == [o EXCEPT !.pc = pc] IN
           /\ n \in Jobs /\ n # NoJob /\ n.pc = pc
           /\ n.kind = o.kind /\ n.back = o.back /\ n.cand = o.cand /\ n.old = o.old /\ n.todo = o.todo
<1>1. [o EXCEPT !.pc = pc] \in Jobs
  BY DEF Jobs
<1>2. NoJob.kind = "none"
  BY DEF NoJob
<1>3. [o EXCEPT !.pc = pc] # NoJob
  BY <1>1, <1>2 DEF Jobs, Kinds
<1> QED
  BY <1>1, <1>3 DEF Jobs

(* The pairs of a host, and their names. *)
LEMMA HostNames ==
    ASSUME active \subseteq Pairs, NEW h
    PROVE  /\ In(h) \subseteq Pairs /\ NamesIn(h) \subseteq Exts
           /\ \A e \in NamesIn(h) : <<h, e>> \in active
           /\ \A e : <<h, e>> \in active => e \in NamesIn(h) /\ <<h, e>> \in In(h)
           /\ In(h) = {} <=> NamesIn(h) = {}
  BY DEF In, NamesIn, Pairs

(* The first in order of what is left, and the last in order of a host, are of it. *)
LEMMA RanksAre ==
    ASSUME NEW e \in Exts
    PROVE  Rank(e) \in Nat /\ Rank(e) \in DOMAIN Order /\ Order[Rank(e)] = e
<1>1. Order \in Seq(Exts) /\ ToSet(Order) = Exts
  BY RuntimeAssumption
<1>2. \E i \in DOMAIN Order : Order[i] = e
  BY <1>1 DEF ToSet
<1>3. DOMAIN Order \subseteq Nat
  BY <1>1
<1> QED
  BY <1>2, <1>3 DEF Rank

LEMMA FirstLeft ==
    ASSUME job.todo \subseteq Exts, job.todo # {}
    PROVE  Foremost \in job.todo
<1> DEFINE R == {Rank(e) : e \in job.todo}
<1>1. R \subseteq Nat /\ R # {}
  BY RanksAre
<1>2. PICK least \in R : \A m \in R : least <= m
  BY <1>1, LeastOf
<1>3. PICK e \in job.todo : Rank(e) = least
  BY <1>2
<1>4. \A f \in job.todo : Rank(e) <= Rank(f)
  BY <1>2, <1>3
<1> QED
  BY <1>4 DEF Foremost

LEMMA LastInOrder ==
    ASSUME NEW h, active \subseteq Pairs, NamesIn(h) # {}
    PROVE  LastOf(h) \in NamesIn(h)
<1> DEFINE N == NamesIn(h)
           D == {n \in Nat : \E k \in Nat : n + k = Len(Order) /\ \E e \in N : Rank(e) = k}
<1>1. Order \in Seq(Exts)
  BY RuntimeAssumption
<1>2. N \subseteq Exts
  BY HostNames
<1>3. \A e \in N : Rank(e) \in Nat /\ Rank(e) <= Len(Order)
  BY <1>1, <1>2, RanksAre
<1>4. Len(Order) \in Nat
  BY <1>1
<1>5. D # {}
  <2>1. PICK e \in N : TRUE
    BY <1>2
  <2>2. Len(Order) - Rank(e) \in D
    BY <2>1, <1>3, <1>4
  <2> QED
    BY <2>2
<1>6. PICK least \in D : \A m \in D : least <= m
  BY <1>5, LeastOf
<1>7. PICK e \in N : Rank(e) = Len(Order) - least
  BY <1>6, <1>4
<1>8. \A f \in N : Len(Order) - Rank(f) \in D
  BY <1>3, <1>4
<1>9. D \subseteq Nat
  OBVIOUS
<1> HIDE DEF D
<1>10. ASSUME NEW f \in N
       PROVE  Rank(f) <= Rank(e)
  <2>1. Rank(f) \in Nat /\ least <= Len(Order) - Rank(f) /\ least \in Nat
    BY <1>3, <1>6, <1>8, <1>9
  <2> QED
    BY <2>1, <1>4, <1>7
<1> QED
  BY <1>10 DEF LastOf

(* Two hosts are free when an operation begins. *)
LEMMA TwoFree ==
    ASSUME CanHost
    PROVE  \E h, k \in Hosts : h # k /\ Vacant(h) /\ Vacant(k)
<1> DEFINE S == Hosts \ Used
<1>1. IsFiniteSet(Hosts)
  BY FS_Interval, RuntimeAssumption DEF Hosts
<1>2. IsFiniteSet(S)
  BY <1>1, FS_Difference
<1>3. Cardinality(S) \in Nat /\ Cardinality(S) >= 2
  BY <1>2, FS_CardinalityType DEF CanHost, Hosts
<1>4. PICK h \in S : TRUE
  BY <1>3, FS_EmptySet
<1>5. IsFiniteSet(S \ {h}) /\ Cardinality(S \ {h}) = Cardinality(S) - 1
  BY <1>2, <1>4, FS_RemoveElement
<1>6. PICK k \in S \ {h} : TRUE
  BY <1>3, <1>5, FS_EmptySet
<1> QED
  BY <1>4, <1>6 DEF Vacant

(* A host that is opened is not in use. *)
LEMMA Opened ==
    ASSUME \E h \in Hosts : Vacant(h)
    PROVE  Fresh \in Hosts /\ Fresh \notin Used
  BY DEF Fresh, Vacant, Hosts

-----------------------------------------------------------------------------
(* Its invariant. *)

(* An operation ends with an error: it is given up, or goes on to what undoes it. *)
LEMMA GivesUp ==
    ASSUME RuntimeInv, Running, job.pc # "let_go", Propagate,
           UNCHANGED <<installed, strict, host, active, torn>>,
           roots' = installed \/ roots' = roots, roots' \subseteq Packages,
           bare' \in BOOLEAN, streaming' \in BOOLEAN, started' \in BOOLEAN, started => started',
           collided \subseteq collided',
           \A x \in active : x[1] \in {host} \cup collided',
           tools' \cup prompt' \subseteq tools \cup prompt \cup active,
           job.kind = "start" \/ torn \/ tools' \cup prompt' \subseteq In(host),
           job.kind = "reload" /\ strict /\ ~noted /\ ~torn
           => /\ NamesIn(host) = Wanted /\ tools' = In(host) /\ roots' = installed
              /\ prompt' = In(host) \/ bare'
    PROVE  RuntimeInv'
<1>1. job \in Jobs
  BY RunningJob DEF RuntimeInv
<1>2. job' = Throw(job) /\ noted' = (noted \/ (job.kind \in {"install", "remove"} /\ job.back))
  BY DEF Propagate
<1>3. job.kind \in {"start", "reload", "install", "remove"}
  BY <1>1 DEF RuntimeInv, StepInv, Jobs, Kinds
<1>4. NoJob.kind = "none" /\ NoJob.pc = "idle" /\ NoJob.cand = 0 /\ NoJob.old = 0
  BY DEF NoJob
<1>5. In(host)' = In(host) /\ NamesIn(host)' = NamesIn(host)
  BY DEF In, NamesIn
<1>6. CASE job.kind = "start"
  <2>1. job' = [job EXCEPT !.pc = "let_go"] /\ job' \in Jobs
    BY <1>1, <1>2, <1>6, Thrown
  <2>2. job'.pc = "let_go" /\ job'.kind = "start" /\ job' # NoJob
    BY <2>1, <1>1, <1>4, <1>6 DEF Jobs
  <2>3. RuntimeTypes'
    BY <1>2, <2>1 DEF RuntimeInv, RuntimeTypes
  <2>4. StepInv'
    BY <2>2 DEF StepInv, Staging
  <2>5. SpareInv'
    BY <2>2 DEF SpareInv, Early, FirstTry, Changes
  <2>6. LeakInv'
    BY <2>2 DEF LeakInv
  <2>7. StartInv'
    BY <2>2 DEF StartInv, Running, Staging
  <2>8. HoldsInv'
    BY <2>2 DEF HoldsInv, JobAt, Running
  <2>9. ProgressInv'
    BY <2>2 DEF ProgressInv, JobAt, Running, Staging
  <2> QED
    BY <2>3, <2>4, <2>5, <2>6, <2>7, <2>8, <2>9 DEF RuntimeInv
<1>7. CASE FirstTry
  <2>1. job' = [job EXCEPT !.pc = "rollback", !.back = TRUE] /\ job' \in Jobs
    BY <1>1, <1>2, <1>7, Thrown DEF FirstTry, Changes
  <2>2. /\ job'.pc = "rollback" /\ job'.kind = job.kind /\ job' # NoJob
        /\ job'.back /\ job'.cand = job.cand /\ job'.old = job.old
    <3>1. job.kind # "none"
      BY <1>7 DEF FirstTry, Changes
    <3> QED
      BY <2>1, <3>1, <1>1, <1>4 DEF Jobs
  <2>3. RuntimeTypes'
    BY <1>2, <2>1 DEF RuntimeInv, RuntimeTypes
  <2>4. StepInv'
    BY <2>2, <1>7 DEF StepInv, Staging, FirstTry, Changes, RuntimeInv
  <2>5. SpareInv'
    <3>1. PICK h \in Hosts : Vacant(h)
      BY <1>7, <1>1 DEF RuntimeInv, SpareInv, Jobs
    <3>2. Used' \subseteq Used
      BY <2>2 DEF Used
    <3> QED
      BY <3>1, <3>2, <2>2 DEF SpareInv, FirstTry, Vacant
  <2>6. LeakInv'
    BY <2>2 DEF LeakInv
  <2>7. StartInv'
    BY <2>2, <1>7 DEF StartInv, Running, Staging, FirstTry, Changes
  <2>8. HoldsInv'
    BY <2>2, <1>5, <1>7 DEF HoldsInv, JobAt, Running, FirstTry, Changes
  <2>9. ProgressInv'
    BY <2>2, <1>7 DEF ProgressInv, JobAt, Running, Staging, FirstTry, Changes
  <2> QED
    BY <2>3, <2>4, <2>5, <2>6, <2>7, <2>8, <2>9 DEF RuntimeInv
<1>8. CASE job.kind # "start" /\ ~FirstTry
  <2>1. job' = NoJob
    BY <1>1, <1>2, <1>8, Thrown DEF FirstTry, Changes
  <2>2. started'
    BY <1>8 DEF RuntimeInv, StepInv
  <2>3. RuntimeTypes'
    BY <2>1, <1>2 DEF RuntimeInv, RuntimeTypes
  <2>4. StepInv'
    BY <2>1 DEF StepInv, Running
  <2>5. SpareInv'
    BY <2>1 DEF SpareInv, Running
  <2>6. LeakInv'
    BY <2>1 DEF LeakInv
  <2>7. StartInv'
    BY <2>1, <2>2 DEF StartInv, Running
  <2>8. HoldsInv'
    BY <2>1, <1>5, <1>8 DEF HoldsInv, JobAt, Running
  <2>9. ProgressInv'
    <3>1. noted' \/ job.kind = "reload"
      BY <1>1, <1>2, <1>3, <1>8 DEF FirstTry, Changes, Jobs
    <3>2. noted => noted'
      BY <1>2
    <3>3. strict' /\ ~noted' /\ ~torn' => Served' /\ (prompt' = In(host)' \/ bare')
      BY <3>1, <3>2, <1>5 DEF Served, Wanted
    <3> QED
      BY <3>3, <2>1 DEF ProgressInv, JobAt, Running
  <2> QED
    BY <2>3, <2>4, <2>5, <2>6, <2>7, <2>8, <2>9 DEF RuntimeInv
<1> QED
  BY <1>6, <1>7, <1>8

(* An operation begins. *)
LEMMA NewJob ==
    ASSUME NEW kind \in Kinds, NEW pkg \in Packages \cup {""}, NEW pc \in Early \cup {"let_go"},
           NEW was \in BOOLEAN, kind \in {"install", "remove"} => pkg \in Packages
    PROVE  [kind |-> kind, pkg |-> pkg, pc |-> pc, todo |-> {}, cand |-> 0, old |-> 0, was |-> was,
            back |-> FALSE] \in Jobs
  BY SomeHost DEF Jobs

LEMMA TruthIs ==
    ASSUME NEW e, NEW S
    PROVE  \E b \in BOOLEAN : b = (e \in S)
<1>1. CASE e \in S
  <2>1. TRUE = (e \in S)
    BY <1>1
  <2> QED
    BY <2>1
<1>2. CASE e \notin S
  <2>1. FALSE = (e \in S)
    BY <1>2
  <2> QED
    BY <2>1
<1> QED
  BY <1>1, <1>2

LEMMA BeginsJob ==
    ASSUME NEW kind \in Kinds, NEW pkg \in Packages \cup {""}, NEW pc \in Early \cup {"let_go"},
           kind \in {"install", "remove"} => pkg \in Packages, Begin(kind, pkg, pc)
    PROVE  /\ job' \in Jobs /\ job' # NoJob /\ ~Running
           /\ job'.kind = kind /\ job'.pc = pc /\ ~job'.back /\ job'.cand = 0 /\ job'.old = 0
<1>1. job' = [NoJob EXCEPT !.kind = kind, !.pkg = pkg, !.pc = pc, !.was = pkg \in installed]
  BY DEF Begin
<1>2. job' = [kind |-> kind, pkg |-> pkg, pc |-> pc, todo |-> {}, cand |-> 0, old |-> 0,
              was |-> pkg \in installed, back |-> FALSE]
  BY <1>1 DEF NoJob
<1>3. job' \in Jobs
  <2>1. PICK was \in BOOLEAN : was = (pkg \in installed)
    BY TruthIs
  <2>2. job' = [kind |-> kind, pkg |-> pkg, pc |-> pc, todo |-> {}, cand |-> 0, old |-> 0, was |-> was,
                back |-> FALSE]
    BY <1>2, <2>1
  <2> QED
    BY <2>2, NewJob
<1>4. NoJob.kind = "none" /\ "none" \notin Kinds
  BY DEF NoJob, Kinds
<1>5. ~Running
  BY DEF Begin, Running
<1>6. job' # NoJob
  <2>1. job'.kind = kind
    BY <1>2
  <2> QED
    BY <2>1, <1>4
<1> QED
  BY <1>2, <1>3, <1>5, <1>6

LEMMA Begins ==
    ASSUME RuntimeInv, NEW kind \in Kinds, NEW pkg \in Packages \cup {""},
           NEW pc \in {"sync", "validate", "guard", "let_go"}, Begin(kind, pkg, pc),
           kind \in {"install", "remove"} => pkg \in Packages,
           pc \in {"validate", "guard"} => kind \in {"install", "remove"},
           (kind = "close" => pc = "let_go") /\ (pc = "let_go" => kind \in {"start", "close"}),
           IF kind = "start" THEN ~started ELSE started,
           installed' \subseteq Packages, installed' = installed \/ kind \in {"install", "remove"},
           roots' = roots \/ kind = "start", roots' \subseteq Packages,
           UNCHANGED <<streaming, started, strict, host, active, tools, prompt, noted, bare, torn,
                       collided>>
    PROVE  RuntimeInv'
<1>1. /\ job' \in Jobs /\ job' # NoJob /\ ~Running
      /\ job'.kind = kind /\ job'.pc = pc /\ ~job'.back /\ job'.cand = 0 /\ job'.old = 0
  BY BeginsJob DEF Early
<1>2. In(host)' = In(host) /\ NamesIn(host)' = NamesIn(host)
  BY DEF In, NamesIn
<1>3. RuntimeTypes'
  BY <1>1 DEF RuntimeInv, RuntimeTypes
<1>4. StepInv'
  BY <1>1 DEF StepInv, Staging, FirstTry, Changes
<1>5. SpareInv'
  <2>1. PICK h \in Hosts, k \in Hosts : h # k /\ Vacant(h) /\ Vacant(k)
    BY TwoFree DEF Begin
  <2>2. Used' \subseteq Used \cup {0}
    BY <1>1 DEF Used
  <2>3. h # 0 /\ k # 0
    BY SomeHost
  <2>4. Vacant(h)' /\ Vacant(k)'
    BY <2>1, <2>2, <2>3 DEF Vacant
  <2> QED
    BY <2>1, <2>4 DEF SpareInv
<1>6. LeakInv'
  BY <1>1 DEF LeakInv, JobAt, RuntimeInv, Running
<1>7. StartInv'
  BY <1>1, <1>2 DEF StartInv, RuntimeInv, Running, Staging
<1>8. HoldsInv'
  BY <1>1, <1>2 DEF HoldsInv, JobAt, RuntimeInv, Running
<1>9. ProgressInv'
  BY <1>1, <1>2 DEF ProgressInv, JobAt, RuntimeInv, Running, Staging, Served, Wanted
<1> QED
  BY <1>3, <1>4, <1>5, <1>6, <1>7, <1>8, <1>9 DEF RuntimeInv

LEMMA EntryPoints ==
    ASSUME RuntimeInv, NEW p,
           Start \/ Reload \/ Close \/ (p \in Packages /\ (InstallPackage(p) \/ RemovePackage(p)))
    PROVE  RuntimeInv'
<1>1. installed \subseteq Packages /\ roots \subseteq Packages
  BY DEF RuntimeInv, RuntimeTypes
<1>2. CASE Start
  <2>1. /\ Begin("start", "", "sync") /\ ~started /\ roots' = {}
        /\ UNCHANGED <<installed, streaming, started, strict, host, active, tools, prompt, noted, bare,
                       torn, collided>>
    BY <1>2 DEF Start, historyVars
  <2> QED
    BY <2>1, <1>1, Begins DEF Kinds
<1>3. CASE Reload
  <2>1. /\ Begin("reload", "", "sync") /\ started
        /\ UNCHANGED <<installed, roots, streaming, started, strict, host, active, tools, prompt, noted,
                       bare, torn, collided>>
    BY <1>3 DEF Reload, historyVars, agentVars
  <2> QED
    BY <2>1, <1>1, Begins DEF Kinds
<1>4. CASE Close
  <2>1. /\ Begin("close", "", "let_go") /\ started
        /\ UNCHANGED <<installed, roots, streaming, started, strict, host, active, tools, prompt, noted,
                       bare, torn, collided>>
    BY <1>4 DEF Close, historyVars, agentVars
  <2> QED
    BY <2>1, <1>1, Begins DEF Kinds
<1>5. CASE p \in Packages /\ InstallPackage(p)
  <2>1. /\ Begin("install", p, "validate") /\ started /\ installed' = installed \cup {p}
        /\ UNCHANGED <<roots, streaming, started, strict, host, active, tools, prompt, noted, bare,
                       torn,
                       collided>>
    BY <1>5 DEF InstallPackage, historyVars, agentVars
  <2> QED
    BY <2>1, <1>1, <1>5, Begins DEF Kinds
<1>6. CASE p \in Packages /\ RemovePackage(p)
  <2>1. /\ Begin("remove", p, "guard") /\ started /\ installed' = installed \ {p}
        /\ UNCHANGED <<roots, streaming, started, strict, host, active, tools, prompt, noted, bare,
                       torn,
                       collided>>
    BY <1>6 DEF RemovePackage, historyVars, agentVars
  <2> QED
    BY <2>1, <1>1, <1>6, Begins DEF Kinds
<1> QED
  BY <1>2, <1>3, <1>4, <1>5, <1>6

(* What a job at a place is. *)
LEMMA AtJob ==
    ASSUME RuntimeInv, NEW pc, JobAt(pc)
    PROVE  Running /\ job \in Jobs /\ job.pc = pc
  BY RunningJob DEF RuntimeInv, JobAt

LEMMA ProceedsTo ==
    ASSUME RuntimeInv, Running, NEW pc \in Early \cup Late \cup {"let_go"}, Proceed(pc)
    PROVE  /\ job' \in Jobs /\ job' # NoJob /\ job'.pc = pc
           /\ job'.kind = job.kind /\ job'.back = job.back
           /\ job'.cand = job.cand /\ job'.old = job.old /\ job'.todo = job.todo
  BY RunningJob, Proceeds DEF RuntimeInv, Proceed

LEMMA ValidateKeeps ==
    ASSUME RuntimeInv, Validate
    PROVE  RuntimeInv'
<1>1. Running /\ job \in Jobs /\ job.pc = "validate"
  BY AtJob DEF Validate
<1>2. FirstTry
  BY <1>1 DEF RuntimeInv, StepInv
<1>3. UNCHANGED <<installed, streaming, started, strict, host, active, tools, prompt, roots, bare,
                  torn, collided>>
  BY DEF Validate, agentVars
<1>4. CASE Proceed("guard") /\ UNCHANGED noted
  <2>1. /\ job' \in Jobs /\ job' # NoJob /\ job'.pc = "guard"
        /\ job'.kind = job.kind /\ job'.back = job.back
        /\ job'.cand = job.cand /\ job'.old = job.old /\ job'.todo = job.todo
    BY <1>1, <1>4, ProceedsTo DEF Early
  <2>2. In(host)' = In(host) /\ NamesIn(host)' = NamesIn(host) /\ Used' = Used
    BY <1>3, <2>1 DEF In, NamesIn, Used
  <2>3. RuntimeTypes'
    BY <1>3, <1>4, <2>1 DEF RuntimeInv, RuntimeTypes
  <2>4. StepInv'
    BY <1>1, <1>2, <1>3, <2>1 DEF StepInv, Staging, FirstTry, Changes, RuntimeInv
  <2>5. SpareInv'
    BY <1>1, <1>2, <2>1, <2>2 DEF SpareInv, RuntimeInv, FirstTry, Changes, Vacant, Early
  <2>6. LeakInv'
    BY <1>1, <1>3, <2>1 DEF LeakInv, JobAt, RuntimeInv, Running, Staging
  <2>7. StartInv'
    BY <1>2, <2>1 DEF StartInv, Running, FirstTry, Changes
  <2>8. HoldsInv'
    BY <1>1, <1>3, <2>1, <2>2 DEF HoldsInv, JobAt, RuntimeInv, Running
  <2>9. ProgressInv'
    BY <2>1 DEF ProgressInv, JobAt, Running, Staging
  <2> QED
    BY <2>3, <2>4, <2>5, <2>6, <2>7, <2>8, <2>9 DEF RuntimeInv
<1>5. CASE Propagate
  <2>1. \A x \in active : x[1] \in {host} \cup collided
    BY <1>1 DEF LeakInv, JobAt, RuntimeInv, Staging
  <2>2. torn \/ tools \cup prompt \subseteq In(host)
    BY <1>1 DEF HoldsInv, JobAt, RuntimeInv
  <2> QED
    BY <1>1, <1>2, <1>3, <1>5, <2>1, <2>2, GivesUp DEF FirstTry, Changes, RuntimeInv, RuntimeTypes
<1> QED
  BY <1>4, <1>5 DEF Validate

LEMMA GuardKeeps ==
    ASSUME RuntimeInv, Guard
    PROVE  RuntimeInv'
<1>1. Running /\ job \in Jobs /\ job.pc = "guard"
  BY AtJob DEF Guard
<1>2. UNCHANGED <<installed, streaming, started, strict, host, active, tools, prompt, roots, bare,
                  torn, collided>>
  BY DEF Guard, agentVars
<1>3. Changes
  BY <1>1 DEF RuntimeInv, StepInv, Changes
<1>4. CASE Proceed("sync") /\ UNCHANGED noted
  <2>1. /\ job' \in Jobs /\ job' # NoJob /\ job'.pc = "sync"
        /\ job'.kind = job.kind /\ job'.back = job.back
        /\ job'.cand = job.cand /\ job'.old = job.old /\ job'.todo = job.todo
    BY <1>1, <1>4, ProceedsTo DEF Early
  <2>2. In(host)' = In(host) /\ NamesIn(host)' = NamesIn(host) /\ Used' = Used
    BY <1>2, <2>1 DEF In, NamesIn, Used
  <2>3. RuntimeTypes'
    BY <1>2, <1>4, <2>1 DEF RuntimeInv, RuntimeTypes
  <2>4. StepInv'
    BY <1>1, <1>2, <1>3, <2>1 DEF StepInv, Staging, FirstTry, Changes, RuntimeInv
  <2>5. SpareInv'
    BY <1>1, <2>1, <2>2 DEF SpareInv, RuntimeInv, FirstTry, Changes, Vacant, Early
  <2>6. LeakInv'
    BY <1>1, <1>2, <2>1 DEF LeakInv, JobAt, RuntimeInv, Running, Staging
  <2>7. StartInv'
    BY <1>3, <2>1 DEF StartInv, Running, Changes
  <2>8. HoldsInv'
    BY <1>1, <1>2, <2>1, <2>2 DEF HoldsInv, JobAt, RuntimeInv, Running
  <2>9. ProgressInv'
    BY <1>3, <2>1 DEF ProgressInv, JobAt, Running, Staging, Changes
  <2> QED
    BY <2>3, <2>4, <2>5, <2>6, <2>7, <2>8, <2>9 DEF RuntimeInv
<1>5. CASE Propagate
  <2>1. \A x \in active : x[1] \in {host} \cup collided
    BY <1>1 DEF LeakInv, JobAt, RuntimeInv, Staging
  <2>2. torn \/ tools \cup prompt \subseteq In(host)
    BY <1>1 DEF HoldsInv, JobAt, RuntimeInv
  <2> QED
    BY <1>1, <1>2, <1>3, <1>5, <2>1, <2>2, GivesUp DEF Changes, RuntimeInv, RuntimeTypes
<1> QED
  BY <1>4, <1>5 DEF Guard

LEMMA SyncKeeps ==
    ASSUME RuntimeInv, Sync
    PROVE  RuntimeInv'
<1>1. Running /\ job \in Jobs /\ job.pc = "sync"
  BY AtJob DEF Sync
<1>2. /\ UNCHANGED <<installed, streaming, started, strict, host, active, tools, bare, torn, collided>>
      /\ roots' = installed
  BY DEF Sync
<1>3. \A x \in active : x[1] \in {host} \cup collided
  BY <1>1 DEF LeakInv, JobAt, RuntimeInv, Staging
<1>4. torn \/ tools \cup prompt \subseteq In(host)
  BY <1>1 DEF HoldsInv, JobAt, RuntimeInv
<1>5. job.kind = "reload" /\ strict /\ ~noted /\ ~torn => Served /\ (prompt = In(host) \/ bare)
  BY <1>1 DEF ProgressInv, JobAt, RuntimeInv
<1>6. CASE streaming /\ Propagate /\ UNCHANGED prompt
  BY <1>1, <1>2, <1>3, <1>4, <1>5, <1>6, GivesUp DEF RuntimeInv, RuntimeTypes, Served
<1>7. CASE ~streaming /\ prompt' = {} /\ Proceed("discover") /\ UNCHANGED noted
  <2>1. /\ job' \in Jobs /\ job' # NoJob /\ job'.pc = "discover"
        /\ job'.kind = job.kind /\ job'.back = job.back
        /\ job'.cand = job.cand /\ job'.old = job.old /\ job'.todo = job.todo
    BY <1>1, <1>7, ProceedsTo DEF Early
  <2>2. In(host)' = In(host) /\ NamesIn(host)' = NamesIn(host) /\ Used' \subseteq Used
    BY <1>2, <1>7, <2>1 DEF In, NamesIn, Used
  <2>3. RuntimeTypes'
    BY <1>2, <1>7, <2>1 DEF RuntimeInv, RuntimeTypes
  <2>4. StepInv'
    BY <1>1, <1>2, <2>1 DEF StepInv, Staging, RuntimeInv
  <2>5. SpareInv'
    BY <1>1, <2>1, <2>2 DEF SpareInv, RuntimeInv, FirstTry, Changes, Vacant, Early
  <2>6. LeakInv'
    BY <1>2, <1>3 DEF LeakInv
  <2>7. StartInv'
    BY <1>1, <2>1, <2>2 DEF StartInv, RuntimeInv, Running
  <2>8. HoldsInv'
    BY <1>2, <1>4, <1>7, <2>2 DEF HoldsInv
  <2>9. ProgressInv'
    <3>1. (strict /\ ~noted /\ ~torn)' <=> strict /\ ~noted /\ ~torn
      BY <1>2, <1>7
    <3>2. job.kind = "reload" /\ strict /\ ~noted /\ ~torn => Served'
      BY <1>2, <1>5, <2>2 DEF Served, Wanted
    <3> QED
      BY <1>2, <2>1, <3>1, <3>2 DEF ProgressInv, JobAt, Running, Staging
  <2> QED
    BY <2>3, <2>4, <2>5, <2>6, <2>7, <2>8, <2>9 DEF RuntimeInv
<1> QED
  BY <1>6, <1>7 DEF Sync

LEMMA DiscoverKeeps ==
    ASSUME RuntimeInv, Discover
    PROVE  RuntimeInv'
<1>1. Running /\ job \in Jobs /\ job.pc = "discover"
  BY AtJob DEF Discover
<1>2. UNCHANGED <<installed, streaming, started, strict, host, active, tools, prompt, roots, torn,
                  collided>>
  BY DEF Discover, agentVars
<1>3. \A x \in active : x[1] \in {host} \cup collided
  BY <1>1 DEF LeakInv, JobAt, RuntimeInv, Staging
<1>4. torn \/ tools \cup prompt \subseteq In(host)
  BY <1>1 DEF HoldsInv, JobAt, RuntimeInv
<1>5. job.kind = "reload" /\ strict /\ ~noted /\ ~torn => Served
  BY <1>1 DEF ProgressInv, RuntimeInv
<1>6. CASE Propagate /\ bare' = TRUE
  BY <1>1, <1>2, <1>3, <1>4, <1>5, <1>6, GivesUp DEF RuntimeInv, RuntimeTypes, Served
<1>7. CASE /\ job' = [job EXCEPT !.pc = "activate", !.cand = Fresh, !.todo = installed \cup Explicit]
           /\ UNCHANGED <<errors, noted, bare>>
  <2>1. Fresh \in Hosts /\ Fresh \notin Used
    <3>1. \E h \in Hosts : Vacant(h)
      BY <1>1 DEF RuntimeInv, SpareInv, Early
    <3> QED
      BY <3>1, Opened
  <2>2. /\ job' \in Jobs /\ job'.pc = "activate" /\ job'.kind = job.kind /\ job'.back = job.back
        /\ job'.cand = Fresh /\ job'.old = job.old /\ job'.todo = installed \cup Explicit
    <3>1. Fresh \in 0 .. MaxHosts
      BY <2>1, SomeHost DEF Hosts
    <3>2. installed \cup Explicit \in SUBSET Exts
      BY DEF RuntimeInv, RuntimeTypes, Exts
    <3> QED
      BY <1>1, <1>7, <3>1, <3>2 DEF Jobs, Late, Staging
  <2>3. job' # NoJob
    <3>1. NoJob.pc = "idle"
      BY DEF NoJob
    <3> QED
      BY <2>2, <3>1
  <2>4. In(host)' = In(host) /\ NamesIn(host)' = NamesIn(host)
    BY <1>2 DEF In, NamesIn
  <2>5. Used' \subseteq Used \cup {Fresh}
    BY <1>2, <2>2 DEF Used
  <2>6. In(Fresh) = {} /\ Fresh # host
    BY <2>1 DEF In, Used
  <2>7. RuntimeTypes'
    BY <1>2, <1>7, <2>2 DEF RuntimeInv, RuntimeTypes
  <2>8. StepInv'
    BY <1>1, <1>2, <2>1, <2>2, <2>6 DEF StepInv, Staging, RuntimeInv
  <2>9. SpareInv'
    <3>1. ASSUME FirstTry
          PROVE  \E h \in Hosts : Vacant(h)'
      <4>1. PICK h \in Hosts, k \in Hosts : h # k /\ Vacant(h) /\ Vacant(k)
        BY <1>1, <3>1 DEF RuntimeInv, SpareInv, Early
      <4> QED
        BY <4>1, <2>5 DEF Vacant
    <3> QED
      BY <2>2, <3>1 DEF SpareInv, FirstTry, Changes, Early
  <2>10. LeakInv'
    BY <1>2, <1>3 DEF LeakInv
  <2>11. StartInv'
    BY <1>1, <2>2, <2>3, <2>4 DEF StartInv, RuntimeInv, Running
  <2>12. HoldsInv'
    BY <1>2, <1>4, <2>4 DEF HoldsInv
  <2>13. ProgressInv'
    <3>1. (strict /\ ~noted /\ ~torn)' <=> strict /\ ~noted /\ ~torn
      BY <1>2, <1>7
    <3>2. job.kind = "reload" /\ strict /\ ~noted /\ ~torn => Served'
      BY <1>2, <1>5, <2>4 DEF Served, Wanted
    <3>3. NamesIn(job.cand)' = {} /\ Wanted' = installed \cup Explicit
      BY <1>2, <2>2, <2>6 DEF NamesIn, In, Wanted
    <3>4. strict /\ ~noted /\ ~torn => roots' = installed'
      BY <1>1, <1>2 DEF RuntimeInv, ProgressInv
    <3> QED
      BY <2>2, <2>3, <3>1, <3>2, <3>3, <3>4 DEF ProgressInv, JobAt, Running, Staging
  <2> QED
    BY <2>7, <2>8, <2>9, <2>10, <2>11, <2>12, <2>13 DEF RuntimeInv
<1> QED
  BY <1>6, <1>7 DEF Discover

LEMMA ActivateKeeps ==
    ASSUME RuntimeInv, Activate
    PROVE  RuntimeInv'
<1>1. Running /\ job \in Jobs /\ job.pc = "activate"
  BY AtJob DEF Activate
<1>2. /\ UNCHANGED <<installed, streaming, started, strict, host, tools, prompt, roots, noted, bare,
                     torn, collided>>
      /\ active' = active \cup {<<job.cand, Foremost>>} /\ job' = [job EXCEPT !.todo = @ \ {Foremost}]
      /\ job.todo # {}
  BY DEF Activate, agentVars, historyVars
<1>3. Foremost \in job.todo /\ job.todo \subseteq Exts
  BY <1>1, <1>2, FirstLeft DEF Jobs
<1>4. job.cand \in Hosts /\ job.cand # host
  BY <1>1 DEF RuntimeInv, StepInv, Staging
<1>5. /\ job' \in Jobs /\ job'.pc = "activate" /\ job'.kind = job.kind /\ job'.back = job.back
      /\ job'.cand = job.cand /\ job'.old = job.old /\ job'.todo = job.todo \ {Foremost}
  BY <1>1, <1>2 DEF Jobs
<1>6. job' # NoJob
  <2>1. NoJob.pc = "idle"
    BY DEF NoJob
  <2> QED
    BY <1>5, <2>1
<1>7. In(host)' = In(host)
  BY <1>2, <1>4 DEF In
<1>8. NamesIn(host)' = NamesIn(host)
  BY <1>7 DEF NamesIn
<1>9. NamesIn(job.cand)' = NamesIn(job.cand) \cup {Foremost}
  <2>1. PICK c, e : c = job.cand /\ e = Foremost
    OBVIOUS
  <2>2. In(c)' = In(c) \cup {<<c, e>>}
    BY <1>2, <2>1 DEF In
  <2>3. NamesIn(c)' = NamesIn(c) \cup {e}
    <3>1. NamesIn(c) = {x[2] : x \in In(c)} /\ NamesIn(c)' = {x[2] : x \in In(c)'}
      BY DEF NamesIn
    <3>2. PICK p : p = <<c, e>>
      OBVIOUS
    <3>3. p[2] = e
      BY <3>2
    <3>4. {x[2] : x \in In(c) \cup {p}} = {x[2] : x \in In(c)} \cup {p[2]}
      OBVIOUS
    <3> QED
      BY <2>2, <3>1, <3>2, <3>3, <3>4
  <2> QED
    BY <1>5, <2>1, <2>3
<1>10. Used' = Used
  BY <1>2, <1>5 DEF Used
<1>11. RuntimeTypes'
  <2>1. <<job.cand, Foremost>> \in Pairs
    BY <1>3, <1>4 DEF Pairs
  <2> QED
    BY <1>2, <1>5, <2>1 DEF RuntimeInv, RuntimeTypes
<1>12. StepInv'
  BY <1>1, <1>2, <1>5 DEF StepInv, Staging, RuntimeInv
<1>13. SpareInv'
  BY <1>1, <1>5, <1>10 DEF SpareInv, RuntimeInv, FirstTry, Changes, Vacant
<1>14. LeakInv'
  BY <1>1, <1>2, <1>5, <1>6 DEF LeakInv, RuntimeInv, JobAt, Running, Staging
<1>15. StartInv'
  BY <1>1, <1>2, <1>5, <1>6, <1>7 DEF StartInv, RuntimeInv, Running
<1>16. HoldsInv'
  BY <1>1, <1>2, <1>5, <1>7 DEF HoldsInv, JobAt, RuntimeInv
<1>17. ProgressInv'
  <2>1. Served' <=> Served
    BY <1>2, <1>7, <1>8 DEF Served, Wanted
  <2> QED
    BY <1>1, <1>2, <1>3, <1>5, <1>6, <1>9, <2>1 DEF ProgressInv, RuntimeInv, JobAt, Running, Staging, Wanted
<1> QED
  BY <1>11, <1>12, <1>13, <1>14, <1>15, <1>16, <1>17 DEF RuntimeInv

(* An extension that cannot be activated is passed over, or ends the candidate. *)
LEMMA ActivateFailsKeeps ==
    ASSUME RuntimeInv, ActivateFails
    PROVE  RuntimeInv'
<1>1. Running /\ job \in Jobs /\ job.pc = "activate"
  BY AtJob DEF ActivateFails
<1>2. /\ UNCHANGED <<installed, streaming, started, strict, host, active, tools, prompt, roots, noted,
                     bare, torn, collided>>
      /\ IF strict THEN Proceed("close_cand") ELSE job' = [job EXCEPT !.todo = @ \ {Foremost}]
  BY DEF ActivateFails, agentVars, historyVars
<1>3. /\ job' \in Jobs /\ job' # NoJob /\ job'.pc \in {"activate", "close_cand"}
      /\ job'.kind = job.kind /\ job'.back = job.back /\ job'.cand = job.cand /\ job'.old = job.old
      /\ strict => job'.pc = "close_cand"
  <2>1. CASE strict
    BY <1>1, <1>2, <2>1, ProceedsTo DEF Late, Staging
  <2>2. CASE ~strict
    <3>1. job' = [job EXCEPT !.todo = @ \ {Foremost}]
      BY <1>2, <2>2
    <3>2. job' \in Jobs /\ job'.pc = "activate"
      BY <1>1, <3>1 DEF Jobs
    <3>3. job' # NoJob
      <4>1. NoJob.pc = "idle"
        BY DEF NoJob
      <4> QED
        BY <3>2, <4>1
    <3> QED
      BY <1>1, <2>2, <3>1, <3>2, <3>3 DEF Jobs
  <2> QED
    BY <2>1, <2>2
<1>4. In(host)' = In(host) /\ NamesIn(host)' = NamesIn(host) /\ Used' = Used
  BY <1>2, <1>3 DEF In, NamesIn, Used
<1>5. RuntimeTypes'
  BY <1>2, <1>3 DEF RuntimeInv, RuntimeTypes
<1>6. StepInv'
  BY <1>1, <1>2, <1>3 DEF StepInv, Staging, RuntimeInv
<1>7. SpareInv'
  BY <1>1, <1>3, <1>4 DEF SpareInv, RuntimeInv, FirstTry, Changes, Vacant, Early, Late, Staging
<1>8. LeakInv'
  BY <1>1, <1>2, <1>3 DEF LeakInv, RuntimeInv, JobAt, Running, Staging
<1>9. StartInv'
  BY <1>1, <1>2, <1>3, <1>4 DEF StartInv, RuntimeInv, Running, Staging
<1>10. HoldsInv'
  BY <1>1, <1>2, <1>3, <1>4 DEF HoldsInv, JobAt, RuntimeInv
<1>11. ProgressInv'
  <2>1. Served' <=> Served
    BY <1>2, <1>4 DEF Served, Wanted
  <2> QED
    BY <1>1, <1>2, <1>3, <2>1 DEF ProgressInv, RuntimeInv, JobAt, Running, Staging
<1> QED
  BY <1>5, <1>6, <1>7, <1>8, <1>9, <1>10, <1>11 DEF RuntimeInv

(* The contributions of the live host once more. *)
LEMMA Reapplied ==
    ASSUME RuntimeInv, Reapply, Running, job.pc \in Staging, UNCHANGED <<host, active>>
    PROVE  /\ tools' \cup prompt' \subseteq tools \cup prompt \cup active /\ bare' \in BOOLEAN
           /\ job.kind = "start" \/ torn \/ tools' \cup prompt' \subseteq In(host)
           /\ job.kind = "reload" /\ strict /\ ~noted /\ ~torn
              => NamesIn(host) = Wanted /\ tools' = In(host) /\ (prompt' = In(host) \/ bare')
<1>1. torn \/ tools \cup prompt \subseteq In(host)
  BY DEF HoldsInv, JobAt, RuntimeInv, Staging
<1>2. job.kind = "reload" /\ strict /\ ~noted /\ ~torn => Served
  BY DEF ProgressInv, RuntimeInv
<1>3. bare' \in BOOLEAN
  BY DEF Reapply, RuntimeInv, RuntimeTypes
<1>4. In(host) \subseteq active
  BY DEF In
<1>5. CASE job.kind = "start" \/ streaming
  <2>1. UNCHANGED <<tools, prompt>> /\ bare' = (streaming \/ (bare /\ job.kind = "start"))
    BY <1>5 DEF Reapply
  <2> QED
    BY <1>1, <1>2, <1>3, <1>5, <2>1 DEF Served
<1>6. CASE ~(job.kind = "start" \/ streaming)
  <2>1. tools' = In(host) /\ prompt' = In(host)
    BY <1>6 DEF Reapply
  <2> QED
    BY <1>2, <1>3, <1>4, <2>1 DEF Served
<1> QED
  BY <1>5, <1>6

LEMMA CheckKeeps ==
    ASSUME RuntimeInv, Check
    PROVE  RuntimeInv'
<1>1. Running /\ job \in Jobs /\ job.pc = "activate" /\ job.todo = {}
  BY AtJob DEF Check
<1>2. UNCHANGED <<installed, streaming, started, strict, host, active, roots, torn>>
  BY DEF Check
<1>3. CASE Proceed("swap") /\ UNCHANGED <<tools, prompt, noted, bare, collided>>
  <2>1. /\ job' \in Jobs /\ job' # NoJob /\ job'.pc = "swap"
        /\ job'.kind = job.kind /\ job'.back = job.back
        /\ job'.cand = job.cand /\ job'.old = job.old /\ job'.todo = job.todo
    BY <1>1, <1>3, ProceedsTo DEF Late, Staging
  <2>2. In(host)' = In(host) /\ NamesIn(host)' = NamesIn(host) /\ Used' = Used
    BY <1>2, <1>3, <2>1 DEF In, NamesIn, Used
  <2>3. RuntimeTypes'
    BY <1>2, <1>3, <2>1 DEF RuntimeInv, RuntimeTypes
  <2>4. StepInv'
    BY <1>1, <1>2, <2>1 DEF StepInv, Staging, RuntimeInv
  <2>5. SpareInv'
    BY <1>1, <2>1, <2>2 DEF SpareInv, RuntimeInv, FirstTry, Changes, Vacant, Early, Late, Staging
  <2>6. LeakInv'
    BY <1>1, <1>2, <1>3, <2>1 DEF LeakInv, RuntimeInv, JobAt, Running, Staging
  <2>7. StartInv'
    BY <1>1, <1>2, <2>1, <2>2 DEF StartInv, RuntimeInv, Running, Staging
  <2>8. HoldsInv'
    BY <1>1, <1>2, <1>3, <2>1, <2>2 DEF HoldsInv, JobAt, RuntimeInv
  <2>9. ProgressInv'
    <3>1. Served' <=> Served
      BY <1>2, <1>3, <2>2 DEF Served, Wanted
    <3>2. NamesIn(job.cand)' = NamesIn(job.cand) /\ Wanted' = Wanted
      BY <1>2, <2>1 DEF NamesIn, In, Wanted
    <3> QED
      BY <1>1, <1>2, <1>3, <2>1, <3>1, <3>2 DEF ProgressInv, RuntimeInv, JobAt, Running, Staging
  <2> QED
    BY <2>3, <2>4, <2>5, <2>6, <2>7, <2>8, <2>9 DEF RuntimeInv
<1>4. CASE collided' = collided \cup {job.cand} /\ Reapply /\ Propagate
  <2>1. \A x \in active : x[1] \in {host} \cup collided'
    BY <1>1, <1>4 DEF LeakInv, JobAt, RuntimeInv
  <2>2. /\ tools' \cup prompt' \subseteq tools \cup prompt \cup active /\ bare' \in BOOLEAN
        /\ job.kind = "start" \/ torn \/ tools' \cup prompt' \subseteq In(host)
        /\ job.kind = "reload" /\ strict /\ ~noted /\ ~torn
           => NamesIn(host) = Wanted /\ tools' = In(host) /\ (prompt' = In(host) \/ bare')
    BY <1>1, <1>2, <1>4, Reapplied DEF Staging
  <2>3. job.kind = "reload" /\ strict /\ ~noted /\ ~torn => roots' = installed
    BY <1>1, <1>2 DEF ProgressInv, RuntimeInv, Staging
  <2>4. roots \subseteq Packages /\ streaming \in BOOLEAN /\ started \in BOOLEAN
    BY DEF RuntimeInv, RuntimeTypes
  <2> QED
    BY <1>1, <1>2, <1>4, <2>1, <2>2, <2>3, <2>4, GivesUp
<1> QED
  BY <1>3, <1>4 DEF Check

LEMMA SwapKeeps ==
    ASSUME RuntimeInv, Swap
    PROVE  RuntimeInv'
<1>1. Running /\ job \in Jobs /\ job.pc = "swap"
  BY AtJob DEF Swap
<1>2. UNCHANGED <<installed, streaming, started, strict, active, roots, noted, bare, torn, collided>>
  BY DEF Swap, historyVars
<1>3. job.cand \in Hosts /\ job.cand # host
  BY <1>1 DEF RuntimeInv, StepInv, Staging
<1>4. \A h \in 0 .. MaxHosts : In(h)' = In(h) /\ NamesIn(h)' = NamesIn(h)
  BY <1>2 DEF In, NamesIn
<1>5. host \in 0 .. MaxHosts /\ host \in Hosts
  BY SomeHost DEF RuntimeInv, RuntimeTypes, Hosts
<1>6. NoJob.pc = "idle"
  BY DEF NoJob
<1>7. CASE streaming /\ job.kind = "start"
  <2>1. host' = job.cand /\ UNCHANGED <<tools, prompt>> /\ job' = [job EXCEPT !.pc = "let_go"]
    BY <1>7 DEF Swap
  <2>2. job' \in Jobs /\ job' # NoJob /\ job'.pc = "let_go" /\ job'.kind = "start"
    BY <1>1, <1>6, <1>7, <2>1 DEF Jobs
  <2>3. In(host) = {}
    BY <1>1, <1>7 DEF RuntimeInv, StartInv, Staging
  <2>4. RuntimeTypes'
    BY <1>2, <1>3, <2>1, <2>2 DEF RuntimeInv, RuntimeTypes
  <2>5. StepInv'
    BY <2>2 DEF StepInv, Staging
  <2>6. SpareInv'
    BY <2>2 DEF SpareInv, FirstTry, Changes, Early
  <2>7. LeakInv'
    BY <1>1, <1>2, <2>1, <2>3 DEF LeakInv, RuntimeInv, JobAt, In
  <2>8. StartInv'
    BY <2>2 DEF StartInv, Running, Staging
  <2>9. HoldsInv'
    BY <2>2 DEF HoldsInv, JobAt, Running
  <2>10. ProgressInv'
    BY <2>2 DEF ProgressInv, JobAt, Running, Staging
  <2> QED
    BY <2>4, <2>5, <2>6, <2>7, <2>8, <2>9, <2>10 DEF RuntimeInv
<1>8. CASE streaming /\ job.kind # "start"
  <2>1. host' = host /\ UNCHANGED <<tools, prompt>> /\ job' = [job EXCEPT !.pc = "close_cand"]
    BY <1>8 DEF Swap
  <2>2. /\ job' \in Jobs /\ job' # NoJob /\ job'.pc = "close_cand" /\ job'.kind = job.kind
        /\ job'.back = job.back /\ job'.cand = job.cand /\ job'.old = job.old
    BY <1>1, <1>6, <2>1 DEF Jobs, Late, Staging
  <2>3. Used' = Used /\ In(host)' = In(host) /\ NamesIn(host)' = NamesIn(host)
    BY <1>2, <2>1, <2>2 DEF Used, In, NamesIn
  <2>4. RuntimeTypes'
    BY <1>2, <2>1, <2>2 DEF RuntimeInv, RuntimeTypes
  <2>5. StepInv'
    BY <1>1, <1>2, <2>1, <2>2 DEF StepInv, Staging, RuntimeInv
  <2>6. SpareInv'
    BY <1>1, <2>2, <2>3 DEF SpareInv, RuntimeInv, FirstTry, Changes, Vacant, Early, Late, Staging
  <2>7. LeakInv'
    BY <1>1, <1>2, <2>1, <2>2 DEF LeakInv, RuntimeInv, JobAt, Running, Staging
  <2>8. StartInv'
    BY <1>8, <2>2 DEF StartInv, Running
  <2>9. HoldsInv'
    BY <1>1, <1>2, <2>1, <2>2, <2>3 DEF HoldsInv, JobAt, RuntimeInv
  <2>10. ProgressInv'
    <3>1. Served' <=> Served
      BY <1>2, <2>1, <2>3 DEF Served, Wanted
    <3> QED
      BY <1>1, <1>2, <2>2, <3>1 DEF ProgressInv, RuntimeInv, JobAt, Running, Staging
  <2> QED
    BY <2>4, <2>5, <2>6, <2>7, <2>8, <2>9, <2>10 DEF RuntimeInv
<1>9. CASE ~streaming
  <2>1. /\ host' = job.cand /\ tools' = In(job.cand) /\ prompt' = In(job.cand)
        /\ job' = [job EXCEPT !.pc = "close_old", !.old = host]
    BY <1>9 DEF Swap
  <2>2. /\ job' \in Jobs /\ job' # NoJob /\ job'.pc = "close_old" /\ job'.kind = job.kind
        /\ job'.back = job.back /\ job'.cand = job.cand /\ job'.old = host
    BY <1>1, <1>5, <1>6, <2>1 DEF Jobs, Late
  <2>3. In(host)' = In(job.cand) /\ NamesIn(host)' = NamesIn(job.cand)
    BY <1>2, <2>1 DEF In, NamesIn
  <2>4. In(job.cand) \subseteq active
    BY DEF In
  <2>5. RuntimeTypes'
    BY <1>2, <1>3, <2>1, <2>2, <2>4 DEF RuntimeInv, RuntimeTypes
  <2>6. StepInv'
    BY <1>1, <1>2, <1>3, <1>5, <2>1, <2>2 DEF StepInv, Staging, RuntimeInv
  <2>7. SpareInv'
    <3>1. Used' \subseteq Used
      BY <1>2, <2>1, <2>2, <2>4 DEF Used
    <3> QED
      BY <1>1, <2>2, <3>1 DEF SpareInv, RuntimeInv, FirstTry, Changes, Vacant, Early, Late, Staging
  <2>8. LeakInv'
    BY <1>1, <1>2, <2>1, <2>2 DEF LeakInv, RuntimeInv, JobAt, Running, Staging
  <2>9. StartInv'
    BY <2>2 DEF StartInv, Running, Staging
  <2>10. HoldsInv'
    BY <2>1, <2>3 DEF HoldsInv
  <2>11. ProgressInv'
    <3>1. strict /\ ~noted /\ ~torn => NamesIn(job.cand) = Wanted /\ roots = installed
      BY <1>1 DEF ProgressInv, RuntimeInv, JobAt, Staging
    <3>2. strict /\ ~noted /\ ~torn => Served' /\ prompt' = In(host)'
      BY <1>2, <2>1, <2>3, <3>1 DEF Served, Wanted
    <3> QED
      BY <1>2, <2>2, <3>1, <3>2 DEF ProgressInv, JobAt, Running, Staging
  <2> QED
    BY <2>5, <2>6, <2>7, <2>8, <2>9, <2>10, <2>11 DEF RuntimeInv
<1> QED
  BY <1>7, <1>8, <1>9 DEF RuntimeInv, RuntimeTypes

(* One extension is deactivated: not one of the live host, unless the agent is let go. *)
LEMMA DeactivateKeeps ==
    ASSUME RuntimeInv, Deactivate
    PROVE  RuntimeInv'
<1>1. /\ UNCHANGED <<installed, streaming, started, strict, host, tools, prompt, roots, job, noted,
                     bare, torn, collided>>
      /\ active' = active \ {<<Closing, LastOf(Closing)>>} /\ Closing # 0
  BY DEF Deactivate, agentVars, historyVars
<1>2. /\ Running /\ job \in Jobs
      /\ \/ JobAt("let_go")
         \/ Closing # host /\ job.pc = "close_cand" /\ Closing = job.cand
         \/ Closing # host /\ job.pc = "close_old"
  <2>1. CASE JobAt("close_old")
    <3>1. Closing = job.old
      BY <2>1 DEF Closing, JobAt
    <3> QED
      BY <2>1, <3>1, AtJob DEF RuntimeInv, StepInv
  <2>2. CASE JobAt("close_cand")
    <3>1. Closing = job.cand
      BY <2>2 DEF Closing, JobAt
    <3> QED
      BY <2>2, <3>1, AtJob DEF RuntimeInv, StepInv, Staging
  <2>3. CASE JobAt("let_go")
    BY <2>3, AtJob
  <2>4. CASE ~JobAt("close_old") /\ ~JobAt("close_cand") /\ ~JobAt("let_go")
    BY <1>1, <2>4 DEF Closing
  <2> QED
    BY <2>1, <2>2, <2>3, <2>4
<1>3. PICK gone : gone = <<Closing, LastOf(Closing)>>
  OBVIOUS
<1>4. active' = active \ {gone}
  BY <1>1, <1>3
<1>5. gone[1] = Closing
  BY <1>3
<1>6. JobAt("let_go") \/ (In(host)' = In(host) /\ NamesIn(host)' = NamesIn(host))
  <2>1. Closing # host => In(host)' = In(host)
    BY <1>1, <1>4, <1>5 DEF In
  <2>2. In(host)' = In(host) => NamesIn(host)' = NamesIn(host)
    BY DEF NamesIn
  <2> QED
    BY <1>2, <2>1, <2>2
<1>7. RuntimeTypes'
  BY <1>1, <1>4 DEF RuntimeInv, RuntimeTypes
<1>8. StepInv'
  BY <1>1 DEF StepInv, RuntimeInv, Running, FirstTry, Changes
<1>9. SpareInv'
  <2>1. Used' \subseteq Used
    BY <1>1, <1>4 DEF Used
  <2> QED
    BY <1>1, <2>1 DEF SpareInv, RuntimeInv, Running, FirstTry, Changes, Vacant
<1>10. LeakInv'
  BY <1>1, <1>4 DEF LeakInv, RuntimeInv, JobAt, Running
<1>11. StartInv'
  <2>1. In(host) = {} => In(host)' = {}
    BY <1>1, <1>4 DEF In
  <2> QED
    BY <1>1, <2>1 DEF StartInv, RuntimeInv, Running
<1>12. HoldsInv'
  BY <1>1, <1>6 DEF HoldsInv, RuntimeInv, JobAt, Running
<1>13. ProgressInv'
  <2>1. CASE JobAt("let_go")
    BY <1>1, <2>1 DEF ProgressInv, JobAt, Running, Staging
  <2>2. CASE ~JobAt("let_go")
    <3>1. (Served' <=> Served) /\ In(host)' = In(host)
      BY <1>1, <1>6, <2>2 DEF Served, Wanted
    <3>2. job.pc \in {"close_cand", "close_old"}
      BY <1>2, <2>2
    <3> QED
      BY <1>1, <1>2, <3>1, <3>2 DEF ProgressInv, RuntimeInv, JobAt, Running, Staging
  <2> QED
    BY <2>1, <2>2
<1> QED
  BY <1>7, <1>8, <1>9, <1>10, <1>11, <1>12, <1>13 DEF RuntimeInv

LEMMA CandidateClosedKeeps ==
    ASSUME RuntimeInv, CandidateClosed
    PROVE  RuntimeInv'
<1>1. Running /\ job \in Jobs /\ job.pc = "close_cand" /\ In(job.cand) = {}
  BY AtJob DEF CandidateClosed
<1>2. UNCHANGED <<installed, streaming, started, strict, host, active, roots, torn,
                  collided>> /\ Reapply /\ Propagate
  BY DEF CandidateClosed
<1>3. \A x \in active : x[1] \in {host} \cup collided'
  BY <1>1, <1>2 DEF LeakInv, JobAt, RuntimeInv, In
<1>4. /\ tools' \cup prompt' \subseteq tools \cup prompt \cup active /\ bare' \in BOOLEAN
      /\ job.kind = "start" \/ torn \/ tools' \cup prompt' \subseteq In(host)
      /\ job.kind = "reload" /\ strict /\ ~noted /\ ~torn
         => NamesIn(host) = Wanted /\ tools' = In(host) /\ (prompt' = In(host) \/ bare')
  BY <1>1, <1>2, Reapplied DEF Staging
<1>5. job.kind = "reload" /\ strict /\ ~noted /\ ~torn => roots' = installed
  BY <1>1, <1>2 DEF ProgressInv, RuntimeInv, Staging
<1>6. roots \subseteq Packages /\ streaming \in BOOLEAN /\ started \in BOOLEAN
  BY DEF RuntimeInv, RuntimeTypes
<1> QED
  BY <1>1, <1>2, <1>3, <1>4, <1>5, <1>6, GivesUp

LEMMA ReloadedKeeps ==
    ASSUME RuntimeInv, Reloaded
    PROVE  RuntimeInv'
<1>1. Running /\ job \in Jobs /\ job.pc = "close_old" /\ In(job.old) = {}
  BY AtJob DEF Reloaded
<1>2. /\ UNCHANGED <<installed, streaming, strict, host, active, tools, prompt, roots, torn, collided>>
      /\ started' = TRUE /\ bare' = FALSE
  BY DEF Reloaded, agentVars
<1>3. \A x \in active : x[1] \in {host} \cup collided
  BY <1>1 DEF LeakInv, JobAt, RuntimeInv, Staging, In
<1>4. torn \/ tools \cup prompt \subseteq In(host)
  BY <1>1 DEF HoldsInv, JobAt, RuntimeInv
<1>5. strict /\ ~noted /\ ~torn => Served /\ prompt = In(host)
  BY <1>1 DEF ProgressInv, JobAt, RuntimeInv
<1>6. In(host)' = In(host) /\ NamesIn(host)' = NamesIn(host)
  BY <1>2 DEF In, NamesIn
<1>7. strict /\ ~noted /\ ~torn => Served' /\ (prompt = In(host))'
  BY <1>2, <1>5, <1>6 DEF Served, Wanted
<1>8. CASE Propagate
  BY <1>1, <1>2, <1>3, <1>4, <1>5, <1>8, GivesUp DEF RuntimeInv, RuntimeTypes, Served
<1>9. CASE FirstTry /\ Proceed("finalize") /\ UNCHANGED noted
  <2>1. /\ job' \in Jobs /\ job' # NoJob /\ job'.pc = "finalize"
        /\ job'.kind = job.kind /\ job'.back = job.back
        /\ job'.cand = job.cand /\ job'.old = job.old /\ job'.todo = job.todo
    BY <1>1, <1>9, ProceedsTo DEF Late
  <2>2. Used' = Used
    BY <1>2, <2>1 DEF Used
  <2>3. RuntimeTypes'
    BY <1>2, <1>9, <2>1 DEF RuntimeInv, RuntimeTypes
  <2>4. StepInv'
    BY <1>2, <1>9, <2>1 DEF StepInv, Staging, FirstTry, Changes
  <2>5. SpareInv'
    BY <1>1, <2>1, <2>2 DEF SpareInv, RuntimeInv, FirstTry, Changes, Vacant, Early, Late
  <2>6. LeakInv'
    BY <1>2, <1>3 DEF LeakInv
  <2>7. StartInv'
    BY <1>2, <1>9, <2>1 DEF StartInv, Running, FirstTry, Changes
  <2>8. HoldsInv'
    BY <1>2, <1>4, <1>6 DEF HoldsInv
  <2>9. ProgressInv'
    BY <1>2, <1>7, <1>9, <2>1 DEF ProgressInv, JobAt, Running, Staging, Served
  <2> QED
    BY <2>3, <2>4, <2>5, <2>6, <2>7, <2>8, <2>9 DEF RuntimeInv
<1>10. CASE job' = NoJob /\ UNCHANGED noted
  <2>1. RuntimeTypes'
    BY <1>2, <1>10 DEF RuntimeInv, RuntimeTypes
  <2>2. StepInv' /\ SpareInv'
    BY <1>10 DEF StepInv, SpareInv, Running
  <2>3. LeakInv'
    BY <1>2, <1>3 DEF LeakInv
  <2>4. StartInv'
    BY <1>2, <1>10 DEF StartInv, Running
  <2>5. HoldsInv'
    BY <1>2, <1>4, <1>6 DEF HoldsInv
  <2>6. ProgressInv'
    BY <1>2, <1>7, <1>10 DEF ProgressInv, JobAt, Running
  <2> QED
    BY <2>1, <2>2, <2>3, <2>4, <2>5, <2>6 DEF RuntimeInv
<1> QED
  BY <1>8, <1>9, <1>10 DEF Reloaded, FirstTry, Changes

LEMMA FinalizeReceiptKeeps ==
    ASSUME RuntimeInv, FinalizeReceipt
    PROVE  RuntimeInv'
<1>1. Running /\ job \in Jobs /\ job.pc = "finalize"
  BY AtJob DEF FinalizeReceipt
<1>2. UNCHANGED <<installed, started, streaming, strict, host, active, tools, prompt, roots, bare,
                  torn, collided>>
  BY DEF FinalizeReceipt, agentVars
<1>3. FirstTry /\ started
  BY <1>1 DEF RuntimeInv, StepInv, FirstTry, Changes
<1>4. \A x \in active : x[1] \in {host} \cup collided
  BY <1>1 DEF LeakInv, JobAt, RuntimeInv, Staging
<1>5. torn \/ tools \cup prompt \subseteq In(host)
  BY <1>1 DEF HoldsInv, JobAt, RuntimeInv
<1>6. CASE Propagate
  BY <1>1, <1>2, <1>3, <1>4, <1>5, <1>6, GivesUp DEF RuntimeInv, RuntimeTypes, FirstTry, Changes
<1>7. CASE job' = NoJob /\ UNCHANGED noted
  <2>1. In(host)' = In(host) /\ NamesIn(host)' = NamesIn(host)
    BY <1>2 DEF In, NamesIn
  <2>2. RuntimeTypes'
    BY <1>2, <1>7 DEF RuntimeInv, RuntimeTypes
  <2>3. StepInv' /\ SpareInv'
    BY <1>7 DEF StepInv, SpareInv, Running
  <2>4. LeakInv'
    BY <1>2, <1>4 DEF LeakInv
  <2>5. StartInv'
    BY <1>2, <1>3, <1>7 DEF StartInv, Running
  <2>6. HoldsInv'
    BY <1>2, <1>5, <2>1 DEF HoldsInv
  <2>7. ProgressInv'
    <3>1. strict /\ ~noted /\ ~torn => Served /\ prompt = In(host)
      BY <1>1 DEF ProgressInv, JobAt, RuntimeInv
    <3>2. strict /\ ~noted /\ ~torn => Served' /\ (prompt = In(host))'
      BY <1>2, <2>1, <3>1 DEF Served, Wanted
    <3> QED
      BY <1>2, <1>7, <3>2 DEF ProgressInv, JobAt, Running
  <2> QED
    BY <2>2, <2>3, <2>4, <2>5, <2>6, <2>7 DEF RuntimeInv
<1> QED
  BY <1>6, <1>7 DEF FinalizeReceipt

LEMMA RollbackKeeps ==
    ASSUME RuntimeInv, Rollback
    PROVE  RuntimeInv'
<1>1. Running /\ job \in Jobs /\ job.pc = "rollback"
  BY AtJob DEF Rollback
<1>2. UNCHANGED <<started, streaming, strict, host, active, tools, prompt, roots, bare, torn, collided>>
  BY DEF Rollback, agentVars
<1>3. Changes /\ job.back
  BY <1>1 DEF RuntimeInv, StepInv
<1>4. \A x \in active : x[1] \in {host} \cup collided
  BY <1>1 DEF LeakInv, JobAt, RuntimeInv, Staging
<1>5. torn \/ tools \cup prompt \subseteq In(host)
  BY <1>1 DEF HoldsInv, JobAt, RuntimeInv
<1>6. CASE Propagate /\ UNCHANGED installed
  BY <1>1, <1>2, <1>3, <1>4, <1>5, <1>6, GivesUp DEF RuntimeInv, RuntimeTypes, Changes
<1>7. CASE /\ ReceiptCurrent
           /\ installed' = IF job.was THEN installed \cup {job.pkg} ELSE installed \ {job.pkg}
           /\ Proceed("guard") /\ UNCHANGED noted
  <2>1. /\ job' \in Jobs /\ job' # NoJob /\ job'.pc = "guard"
        /\ job'.kind = job.kind /\ job'.back = job.back
        /\ job'.cand = job.cand /\ job'.old = job.old /\ job'.todo = job.todo
    BY <1>1, <1>7, ProceedsTo DEF Early
  <2>2. In(host)' = In(host) /\ NamesIn(host)' = NamesIn(host) /\ Used' = Used
    BY <1>2, <2>1 DEF In, NamesIn, Used
  <2>3. installed' \subseteq Packages
    <3>1. job.pkg \in Packages
      BY <1>1, <1>3 DEF Jobs, Changes
    <3> QED
      BY <1>7, <3>1 DEF RuntimeInv, RuntimeTypes
  <2>4. RuntimeTypes'
    BY <1>2, <1>7, <2>1, <2>3 DEF RuntimeInv, RuntimeTypes
  <2>5. StepInv'
    BY <1>1, <1>2, <1>3, <2>1 DEF StepInv, Staging, FirstTry, Changes, RuntimeInv
  <2>6. SpareInv'
    BY <1>1, <1>3, <2>1, <2>2 DEF SpareInv, RuntimeInv, FirstTry, Vacant, Early
  <2>7. LeakInv'
    BY <1>2, <1>4 DEF LeakInv
  <2>8. StartInv'
    BY <1>3, <2>1 DEF StartInv, Running, Changes
  <2>9. HoldsInv'
    BY <1>2, <1>5, <2>2 DEF HoldsInv
  <2>10. ProgressInv'
    BY <2>1 DEF ProgressInv, JobAt, Running, Staging
  <2> QED
    BY <2>4, <2>5, <2>6, <2>7, <2>8, <2>9, <2>10 DEF RuntimeInv
<1> QED
  BY <1>6, <1>7 DEF Rollback

LEMMA LetGoKeeps ==
    ASSUME RuntimeInv, LetGo
    PROVE  RuntimeInv'
<1>1. Running /\ job \in Jobs /\ job.pc = "let_go" /\ In(host) = {}
  BY AtJob DEF LetGo
<1>2. /\ UNCHANGED <<installed, streaming, strict, host, active, noted, bare, collided>>
      /\ job' = NoJob /\ roots' = {}
  BY DEF LetGo
<1>3. IF streaming
      THEN torn' = TRUE /\ UNCHANGED <<tools, prompt, started>>
      ELSE /\ tools' = {} /\ prompt' = {}
           /\ started' = (started /\ job.kind # "close") /\ torn' = (torn \/ started')
  BY DEF LetGo
<1>4. In(host)' = {}
  BY <1>1, <1>2 DEF In
<1>5. RuntimeTypes'
  BY <1>2, <1>3 DEF RuntimeInv, RuntimeTypes
<1>6. StepInv' /\ SpareInv'
  BY <1>2 DEF StepInv, SpareInv, Running
<1>7. LeakInv'
  BY <1>1, <1>2 DEF LeakInv, JobAt, RuntimeInv, Staging
<1>8. StartInv'
  BY <1>2, <1>4 DEF StartInv, Running
<1>9. HoldsInv'
  BY <1>2, <1>3 DEF HoldsInv
<1>10. ProgressInv'
  BY <1>2, <1>3 DEF ProgressInv, JobAt, Running
<1> QED
  BY <1>5, <1>6, <1>7, <1>8, <1>9, <1>10 DEF RuntimeInv

(* Around the runtime: a run of the agent, and another process. *)
LEMMA RunsKeep ==
    ASSUME RuntimeInv, streaming' \in BOOLEAN,
           UNCHANGED <<installed, started, strict, host, active, tools, prompt, roots, job, noted,
                       bare, torn,
                       collided>>
    PROVE  RuntimeInv'
<1>1. /\ streaming' \in BOOLEAN
      /\ UNCHANGED <<installed, started, strict, host, active, tools, prompt, roots, job, noted, bare,
                     torn, collided>>
  OBVIOUS
<1>2. \A h : In(h)' = In(h) /\ NamesIn(h)' = NamesIn(h)
  BY <1>1 DEF In, NamesIn
<1>3. Used' = Used /\ Running' = Running /\ \A pc : JobAt(pc)' = JobAt(pc)
  BY <1>1 DEF Used, Running, JobAt
<1>4. RuntimeTypes'
  BY <1>1 DEF RuntimeInv, RuntimeTypes
<1>5. StepInv' /\ SpareInv' /\ LeakInv'
  BY <1>1, <1>3 DEF StepInv, SpareInv, LeakInv, RuntimeInv, FirstTry, Changes, Vacant, JobAt
<1>6. StartInv' /\ HoldsInv'
  BY <1>1, <1>2, <1>3 DEF StartInv, HoldsInv, RuntimeInv, JobAt
<1>7. ProgressInv'
  <2>1. (Served' <=> Served) /\ Wanted' = Wanted
    BY <1>1, <1>2 DEF Served, Wanted
  <2> QED
    BY <1>1, <1>2, <1>3, <2>1 DEF ProgressInv, RuntimeInv, JobAt
<1> QED
  BY <1>4, <1>5, <1>6, <1>7 DEF RuntimeInv

LEMMA ExternalKeeps ==
    ASSUME RuntimeInv, NEW p \in Packages, External(p)
    PROVE  RuntimeInv'
<1>1. /\ UNCHANGED <<streaming, started, strict, host, active, tools, prompt, roots, job, bare, torn,
                     collided>>
      /\ noted' = TRUE
      /\ installed' = IF p \in installed THEN installed \ {p} ELSE installed \cup {p}
  BY DEF External, agentVars
<1>2. \A h : In(h)' = In(h)
  BY <1>1 DEF In
<1>3. Used' = Used /\ Running' = Running /\ \A pc : JobAt(pc)' = JobAt(pc)
  BY <1>1 DEF Used, Running, JobAt
<1>4. RuntimeTypes'
  BY <1>1 DEF RuntimeInv, RuntimeTypes
<1>5. StepInv' /\ SpareInv' /\ LeakInv'
  BY <1>1, <1>3 DEF StepInv, SpareInv, LeakInv, RuntimeInv, FirstTry, Changes, Vacant, JobAt
<1>6. StartInv' /\ HoldsInv'
  BY <1>1, <1>2, <1>3 DEF StartInv, HoldsInv, RuntimeInv, JobAt
<1>7. ProgressInv'
  BY <1>1 DEF ProgressInv
<1> QED
  BY <1>4, <1>5, <1>6, <1>7 DEF RuntimeInv

LEMMA RuntimeInitially == RuntimeInit => RuntimeInv
<1> SUFFICES ASSUME RuntimeInit
             PROVE  RuntimeInv
  OBVIOUS
<1>1. 1 \in Hosts
  BY SomeHost
<1>2. ~Running /\ In(host) = {}
  BY DEF RuntimeInit, Running, In
<1>3. RuntimeTypes
  BY <1>1 DEF RuntimeInit, RuntimeTypes
<1>4. StepInv /\ SpareInv
  BY <1>2 DEF StepInv, SpareInv
<1>5. LeakInv /\ HoldsInv
  BY DEF RuntimeInit, LeakInv, HoldsInv
<1>6. StartInv
  BY <1>2 DEF StartInv
<1>7. ProgressInv
  BY <1>2 DEF RuntimeInit, ProgressInv, JobAt
<1> QED
  BY <1>3, <1>4, <1>5, <1>6, <1>7 DEF RuntimeInv

(* What the invariant is for. *)
LEMMA RuntimeInvSound == RuntimeInv => HostSound
<1> SUFFICES ASSUME RuntimeInv
             PROVE  HostSound
  OBVIOUS
<1>1. ToolsLive
  BY DEF RuntimeInv, HoldsInv, ToolsLive, In
<1>2. NothingLeaks
  BY DEF RuntimeInv, LeakInv, NothingLeaks, JobAt
<1>3. Consistent
  BY DEF RuntimeInv, ProgressInv, Consistent, Settled, Served, Wanted
<1> QED
  BY <1>1, <1>2, <1>3 DEF HostSound

(* The extensions at work are those of the packages (HostSound): the agent never holds a tool or a
   prompt fragment of an extension that has been disposed, no way out of an operation forgets an
   active extension, and between the operations of a strict runtime the extensions, the tools and
   the resource roots are those of the packages installed. *)
THEOREM ExtensionsAreThoseInstalled == RuntimeSpec => []HostSound
<1>1. RuntimeInit => RuntimeInv
  BY RuntimeInitially
<1>2. RuntimeInv /\ [RuntimeNext]_runtimeVars => RuntimeInv'
  <2> SUFFICES ASSUME RuntimeInv, [RuntimeNext]_runtimeVars
               PROVE  RuntimeInv'
    OBVIOUS
  <2>1. ASSUME NEW p \in Packages, InstallPackage(p) \/ RemovePackage(p)
        PROVE  RuntimeInv'
    BY <2>1, EntryPoints
  <2>2. CASE Start \/ Reload \/ Close
    BY <2>2, EntryPoints
  <2>3. ASSUME NEW p \in Packages, External(p)
        PROVE  RuntimeInv'
    BY <2>3, ExternalKeeps
  <2>4. CASE Validate \/ Guard \/ Sync \/ Discover
    BY <2>4, ValidateKeeps, GuardKeeps, SyncKeeps, DiscoverKeeps
  <2>5. CASE Activate \/ ActivateFails \/ Check \/ Swap
    BY <2>5, ActivateKeeps, ActivateFailsKeeps, CheckKeeps, SwapKeeps
  <2>6. CASE Deactivate \/ CandidateClosed \/ Reloaded
    BY <2>6, DeactivateKeeps, CandidateClosedKeeps, ReloadedKeeps
  <2>7. CASE FinalizeReceipt \/ Rollback \/ LetGo \/ AgentRun
    <3>1. CASE AgentRun
      BY <3>1, RunsKeep DEF AgentRun, historyVars
    <3> QED
      BY <2>7, <3>1, FinalizeReceiptKeeps, RollbackKeeps, LetGoKeeps
  <2>8. CASE UNCHANGED runtimeVars
    <3>1. UNCHANGED <<installed, streaming, started, strict, host, active, tools, prompt, roots, job,
                      noted, bare, torn, collided>>
      BY <2>8 DEF runtimeVars, agentVars, historyVars
    <3> QED
      BY <3>1, RunsKeep DEF RuntimeInv, RuntimeTypes
  <2> QED
    BY <2>1, <2>2, <2>3, <2>4, <2>5, <2>6, <2>7, <2>8 DEF RuntimeNext
<1> QED
  BY <1>1, <1>2, RuntimeInvSound, PTL DEF RuntimeSpec
=============================================================================
