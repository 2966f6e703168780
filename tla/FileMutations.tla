--------------------------- MODULE FileMutations ---------------------------
(***************************************************************************)
(* The write and edit tools over with_file_mutation_queue                  *)
(* (harness/mutation_queue.py) and the file operations of the local        *)
(* environment (harness/environment.py), which run in threads: cancelling  *)
(* the task that waits for a thread does not stop the thread.              *)
(*                                                                         *)
(* One file, which a call names directly or by way of a linked directory.  *)
(* A content is the set of calls whose text is in it.  A batch runs these  *)
(* tools one by one, so calls that overlap belong to several agents with   *)
(* one environment, or one of them outlived its run.                       *)
(***************************************************************************)
EXTENDS FiniteSets, WaitingLine

CONSTANTS
    Calls,          \* tool calls, of one agent or several
    Writers,        \* those of the write tool; the others are of the edit tool
    Absent,         \* no file
    MaxFaults       \* bound: writes that fail, cancelled tasks and cancelled tokens

ASSUME MutationAssumption == IsFiniteSet(Calls) /\ Writers \subseteq Calls /\ MaxFaults \in Nat

VARIABLES
    file,           \* the file: a set of calls, or Absent
    call,           \* per call: where it is, the way it names the file, the key it took and
                    \* whether it took it before the file was there, its lock, what it
                    \* read; and for an edit the calls that have written since it read
    thread,         \* per call: the write under way in a thread, as <<content>>, or <<>>
    paths,          \* state.paths: per key the number of its lock, 0 for none
    users, waiting, \* per lock: _PathLock.users; the calls that asked for it, its holder first
    locks,          \* locks made so far
    signalled,      \* calls whose token is cancelled
    result,         \* per call: "none", "ok" or "error"
    left, lost,     \* history: calls that left a thread behind; <<d, c>>: what d wrote after
                    \* c, an edit, had read was gone after c
    faults          \* for the bound

queue == <<paths, users, waiting, locks>>
vars == <<file, call, thread, queue, signalled, result, left, lost, faults>>

Routes == {"direct", "linked"}
Locks == 1 .. Cardinality(Calls)
NewCall ==
    [pc |-> "new", route |-> "direct", key |-> "direct", lock |-> 0, blind |-> FALSE,
     seen |-> {}, since |-> {}]

Init ==
    /\ file \in {Absent, {}}
    /\ call = [c \in Calls |-> NewCall]
    /\ thread = [c \in Calls |-> <<>>]
    /\ paths = [k \in Routes |-> 0]
    /\ users = [l \in Locks |-> 0] /\ waiting = [l \in Locks |-> <<>>] /\ locks = 0
    /\ signalled = {} /\ result = [c \in Calls |-> "none"]
    /\ left = {} /\ lost = {} /\ faults = 0

At(c, pc) == call[c].pc = pc
Goto(c, pc) == call' = [call EXCEPT ![c].pc = pc]

(* The end of with_file_mutation_queue: the lock goes to the next in line, and the entry of
   the path goes with its last user. *)
Leave(c) ==
    LET l == call[c].lock IN
    /\ users' = [users EXCEPT ![l] = @ - 1]
    /\ waiting' = [waiting EXCEPT ![l] = Without(@, c)]
    /\ paths' = IF users[l] = 1 /\ paths[call[c].key] = l THEN [paths EXCEPT ![call[c].key] = 0]
                ELSE paths
    /\ UNCHANGED locks

(* A write whose task is cancelled: a thread that had not begun never does, one that had
   goes on. *)
LeaveThread(c) ==
    \E begun \in {b \in BOOLEAN : b => thread[c] # <<>>} :
        /\ thread' = [thread EXCEPT ![c] = IF begun THEN @ ELSE <<>>]
        /\ left' = IF begun THEN left \cup {c} ELSE left

End(c, outcome) == Goto(c, "done") /\ result' = [result EXCEPT ![c] = outcome]

-----------------------------------------------------------------------------
(* Variants with a mistake in them.  No specification uses them: the checks put each one in
   the place of the definition it resembles, to see that a property notices. *)

(* The path is used as it was given. *)
KeyAsGiven(c) ==
    /\ At(c, "keying")
    /\ call' = [call EXCEPT ![c].pc = "keyed", ![c].key = call[c].route, ![c].blind = file = Absent]
    /\ UNCHANGED <<file, thread, queue, signalled, result, left, lost, faults>>

-----------------------------------------------------------------------------
(* execute *)

Begin(c, route) ==
    /\ At(c, "new")
    /\ call' = [call EXCEPT ![c] = [NewCall EXCEPT !.pc = "keying", !.route = route]]
    /\ UNCHANGED <<file, thread, queue, signalled, result, left, lost, faults>>

(* The canonical path if the file is there, else the absolute one; neither looks at the token. *)
Key(c) ==
    /\ At(c, "keying")
    /\ call' = [call EXCEPT ![c].pc = "keyed",
                            ![c].key = IF file = Absent THEN call[c].route ELSE "direct",
                            ![c].blind = file = Absent]
    /\ UNCHANGED <<file, thread, queue, signalled, result, left, lost, faults>>

(* The entry of the key, a new one if there is none, and a place in the line for its lock:
   nothing suspends in between. *)
Register(c) ==
    /\ At(c, "keyed")
    /\ LET k == call[c].key
           l == IF paths[k] = 0 THEN locks + 1 ELSE paths[k]
       IN /\ paths' = [paths EXCEPT ![k] = l]
          /\ locks' = IF paths[k] = 0 THEN l ELSE locks
          /\ users' = [users EXCEPT ![l] = @ + 1]
          /\ waiting' = [waiting EXCEPT ![l] = Append(@, c)]
          /\ call' = [call EXCEPT ![c].pc = "queued", ![c].lock = l]
    /\ UNCHANGED <<file, thread, signalled, result, left, lost, faults>>

Holds(c) == call[c].lock # 0 /\ Head(waiting[call[c].lock]) = c

(* The operation begins with a file operation, which a cancelled token refuses. *)
Enter(c) ==
    /\ At(c, "queued") /\ Holds(c)
    /\ IF c \in signalled THEN End(c, "error") /\ Leave(c)
       ELSE Goto(c, "reading") /\ UNCHANGED <<queue, result>>
    /\ UNCHANGED <<file, thread, signalled, left, lost, faults>>

(* edit reads the file, write asks whether it is there. *)
Read(c) ==
    /\ At(c, "reading")
    /\ call' = [call EXCEPT ![c].pc = "read", ![c].seen = IF file = Absent THEN {} ELSE file]
    /\ UNCHANGED <<file, thread, queue, signalled, result, left, lost, faults>>

(* The tool has an answer without a write: no file to edit, the text to replace is not there,
   nothing changes, or the token is cancelled. *)
Refuse(c) ==
    /\ At(c, "read")
    /\ c \in signalled \/ c \notin Writers
    /\ \E outcome \in IF c \in signalled THEN {"error"} ELSE {"ok", "error"} : End(c, outcome)
    /\ Leave(c)
    /\ UNCHANGED <<file, thread, signalled, left, lost, faults>>

(* write_file: a temporary file, written and moved over the target by a thread. *)
Submit(c) ==
    /\ At(c, "read") /\ c \notin signalled
    /\ thread' = [thread EXCEPT ![c] =
                    <<IF c \notin Writers THEN call[c].seen \cup {c} ELSE {c}>>]
    /\ Goto(c, "writing")
    /\ UNCHANGED <<file, queue, signalled, result, left, lost, faults>>

(* An edit that has read the file and may still write it. *)
Editing(c) == c \notin Writers /\ (At(c, "read") \/ thread[c] # <<>>)

(* A text that the edit does not know and that its caller put there is gone.  (One that another
   stale write brought back, after it had been overwritten, is not what its caller put there.) *)
Gone(c) == IF file = Absent \/ c \in Writers THEN {} ELSE (call[c].since \cap file) \ Head(thread[c])

(* os.replace in the thread, whether or not anybody still waits for it. *)
Land(c) ==
    /\ thread[c] # <<>>
    /\ file' = Head(thread[c])
    /\ lost' = lost \cup {<<d, c>> : d \in Gone(c)}
    /\ call' = [d \in Calls |-> IF Editing(d) THEN [call[d] EXCEPT !.since = @ \cup {c}] ELSE call[d]]
    /\ thread' = [thread EXCEPT ![c] = <<>>]
    /\ UNCHANGED <<queue, signalled, result, left, faults>>

(* The thread raises: the temporary file goes, the target stays. *)
LandFails(c) ==
    /\ thread[c] # <<>> /\ faults < MaxFaults /\ faults' = faults + 1
    /\ thread' = [thread EXCEPT ![c] = <<>>]
    /\ IF At(c, "writing") THEN End(c, "error") /\ Leave(c) ELSE UNCHANGED <<call, result, queue>>
    /\ UNCHANGED <<file, signalled, left, lost>>

(* The call hears of it; a token cancelled in the meantime makes an error of what was done. *)
Written(c) ==
    /\ At(c, "writing") /\ thread[c] = <<>>
    /\ End(c, IF c \in signalled THEN "error" ELSE "ok")
    /\ Leave(c)
    /\ UNCHANGED <<file, thread, signalled, left, lost, faults>>

(* The task is cancelled while it waits: the file operation makes an error of it, the queue
   lets the next one in. *)
CancelTask(c) ==
    /\ faults < MaxFaults /\ faults' = faults + 1
    /\ call[c].pc \in {"keying", "keyed", "queued", "reading", "read", "writing"}
    /\ End(c, "error")
    /\ IF call[c].lock # 0 THEN Leave(c) ELSE UNCHANGED queue
    /\ LeaveThread(c)
    /\ UNCHANGED <<file, signalled, lost>>

(* The token of the call's run is cancelled. *)
Signal(c) ==
    /\ faults < MaxFaults /\ faults' = faults + 1
    /\ c \notin signalled /\ call[c].pc \notin {"new", "done"}
    /\ signalled' = signalled \cup {c}
    /\ UNCHANGED <<file, call, thread, queue, result, left, lost>>

(* What the event loop and the threads do by themselves. *)
Step(c) == Key(c) \/ Register(c) \/ Enter(c) \/ Read(c) \/ Refuse(c) \/ Submit(c) \/ Written(c)

Next ==
    \E c \in Calls :
        \/ \E route \in Routes : Begin(c, route)
        \/ Step(c) \/ Land(c) \/ LandFails(c) \/ CancelTask(c) \/ Signal(c)

Spec == Init /\ [][Next]_vars

-----------------------------------------------------------------------------
(* mutation_queue.py:34 promises to serialize the mutations of one canonical path: no edit
   undoes what another call reported as done.  Two cases are left out, in both of which two
   calls do run together: an edit whose cancelled task left its thread behind, and calls with
   two keys for the file, one of them taken by way of the link before the file was there. *)
NoLostEdit ==
    \A p \in lost : LET d == p[1] c == p[2] IN
        result[d] = "error" \/ c \in left \/ (call[c].key # call[d].key /\ (call[c].blind \/ call[d].blind))

(* An entry is kept for a path as long as somebody uses it, and no longer: every caller of a
   key gets the same lock, and none is left when all are through. *)
EntriesReleased ==
    /\ \A k \in Routes : paths[k] # 0 => waiting[paths[k]] # <<>>
    /\ \A c \in Calls : At(c, "queued") => paths[call[c].key] = call[c].lock

(* Both: mutations of one path are serial for as long as somebody wants to mutate it. *)
MutationsSerial == NoLostEdit /\ EntriesReleased
=============================================================================
