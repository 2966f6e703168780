--------------------------- MODULE CredentialStore ---------------------------
(***************************************************************************)
(* AuthStorage and CredentialResolver (coding_agent/auth.py): auth.json,   *)
(* read and replaced as a whole by threads of several processes under one  *)
(* file lock, and refresh of an expired credential, which a process does   *)
(* once however many of its calls wait for it.                             *)
(*                                                                         *)
(* A call is a task that awaits one method.  The thread that reads or      *)
(* writes for it is not stopped when the task is cancelled: it goes on     *)
(* without the locks the task held.  A credential is the number of its     *)
(* secret; the provider takes a refresh token once.                        *)
(***************************************************************************)
EXTENDS Naturals, FiniteSets

CONSTANTS
    Calls,          \* calls of get, set, remove, resolve and api_key
    ProcessOf,      \* the process of each call
    Providers,
    MaxSecrets,     \* bound: credentials made by logins and refreshes
    MaxMishaps,     \* bound: failing writes and refreshes, cancelled calls, crashes
    Nil

Processes == {ProcessOf[c] : c \in Calls}

ASSUME CredentialAssumption ==
    /\ Providers # {} /\ MaxSecrets \in Nat /\ MaxMishaps \in Nat
    /\ Nil \notin Calls /\ Nil \notin [secret : Nat, renewable : BOOLEAN]

VARIABLES
    file,           \* auth.json: per provider its credential, or Nil
    expired,        \* secrets whose time is over
    call,           \* per call: where it is, its method, provider and credential at hand
    thread,         \* per call: what the thread it awaits is doing
    seen,           \* per call: auth.json as its thread read it
    fileHolder,     \* the call whose thread holds the file lock, or Nil
    storageLock,    \* per process: _async_lock
    refreshLock,    \* per process and provider: _refresh_locks
    secrets, mishaps,\* for the bounds; secrets also numbers the credentials
    written,        \* history: what the last write about each provider stored for it
    spent           \* history: per process the secrets it has refreshed, and stored the outcome

locks == <<fileHolder, storageLock, refreshLock>>
credentialVars == <<file, expired, call, thread, seen, locks, secrets, mishaps, written, spent>>

Secrets == 0 .. MaxSecrets
Credentials == [secret : Secrets, renewable : BOOLEAN]
Nothing == [p \in Providers |-> Nil]

(* At most one provider is logged in; its credential may be renewable, and old. *)
CredentialInit ==
    /\ \/ file = Nothing
       \/ \E p \in Providers, r \in BOOLEAN : file = [Nothing EXCEPT ![p] = [secret |-> 0, renewable |-> r]]
    /\ expired \in SUBSET {0}
    /\ call = [c \in Calls |-> [at |-> "ready"]]
    /\ thread = [c \in Calls |-> "none"] /\ seen = [c \in Calls |-> Nothing]
    /\ fileHolder = Nil /\ storageLock = [x \in Processes |-> Nil]
    /\ refreshLock = [x \in Processes |-> Nothing]
    /\ secrets = 0 /\ mishaps = 0
    /\ written = file /\ spent = [x \in Processes |-> {}]

CallAt(c, at) == call[c].at = at
Advance(c, at) == call' = [call EXCEPT ![c].at = at]
End(c) == call' = [call EXCEPT ![c] = [at |-> "done"]]
Expired(x) == x.secret \in expired

(* is_expired, kind, refresh_token: what resolve looks at before it refreshes. *)
NeedsRefresh(x) == x # Nil /\ Expired(x) /\ x.renewable

(* Awaiting the storage: get, list, set and remove hold _async_lock around a thread. *)
Accessing(c) == call[c].at \in {"get", "reget", "set", "remove"}

-----------------------------------------------------------------------------
(* Tasks *)

(* A method is called; a login brings a credential of its own.  get and list are the first
   look of resolve, with nothing after it. *)
StartCall(c, method, p) ==
    LET start(at, x) == [at |-> at, method |-> method, provider |-> p, cred |-> x, old |-> Nil] IN
    /\ CallAt(c, "ready")
    /\ \/ /\ method \in {"resolve", "remove"}
          /\ call' = [call EXCEPT ![c] = start(IF method = "remove" THEN "remove" ELSE "get", Nil)]
          /\ UNCHANGED secrets
       \/ /\ method = "set" /\ secrets < MaxSecrets
          /\ secrets' = secrets + 1
          /\ \E r \in BOOLEAN :
                call' = [call EXCEPT ![c] = start("set", [secret |-> secrets + 1, renewable |-> r])]
    /\ UNCHANGED <<file, expired, thread, seen, locks, mishaps, written, spent>>

(* api_key: an explicit key or one in the environment is taken before the storage is asked. *)
Elsewhere(c) ==
    /\ CallAt(c, "ready")
    /\ End(c)
    /\ UNCHANGED <<file, expired, thread, seen, locks, secrets, mishaps, written, spent>>

(* async with _async_lock: asyncio.to_thread(...) *)
TakeStorage(c) ==
    /\ Accessing(c) /\ thread[c] = "none" /\ storageLock[ProcessOf[c]] = Nil
    /\ storageLock' = [storageLock EXCEPT ![ProcessOf[c]] = c]
    /\ thread' = [thread EXCEPT ![c] = "queued"]
    /\ UNCHANGED <<file, expired, call, seen, fileHolder, refreshLock, secrets, mishaps, written, spent>>

LeaveStorage(c) == storageLock' = [storageLock EXCEPT ![ProcessOf[c]] = IF @ = c THEN Nil ELSE @]
LeaveBoth(c) ==
    /\ LeaveStorage(c)
    /\ refreshLock' = [refreshLock EXCEPT ![ProcessOf[c]] =
                          [p \in Providers |-> IF @[p] = c THEN Nil ELSE @[p]]]

(* What the thread of c found about its provider. *)
Found(c) == seen[c][call[c].provider]

(* The thread has ended and the task goes on: get, and the first look of resolve, *)
Looked(c) ==
    /\ CallAt(c, "get") /\ thread[c] = "done"
    /\ thread' = [thread EXCEPT ![c] = "none"]
    /\ LeaveStorage(c)
    /\ seen' = [seen EXCEPT ![c] = Nothing]
    /\ IF NeedsRefresh(Found(c))
       THEN call' = [call EXCEPT ![c].at = "wait", ![c].cred = Found(c)]
       ELSE End(c)
    /\ UNCHANGED <<file, expired, fileHolder, refreshLock, secrets, mishaps, written, spent>>

-----------------------------------------------------------------------------
(* Variants with a mistake in them.  No specification uses them: the checks put each one in
   the place of the definition it resembles, to see that a property notices. *)

(* The file is read although another thread, of another process maybe, is about to replace it. *)
ReadsBesideWrites(c) ==
    /\ thread[c] = "queued"
    /\ fileHolder' = c
    /\ seen' = [seen EXCEPT ![c] = file]
    /\ thread' = [thread EXCEPT ![c] = "read"]
    /\ UNCHANGED <<file, expired, call, storageLock, refreshLock, secrets, mishaps, written, spent>>

-----------------------------------------------------------------------------
(* async with lock: the refreshes of one provider wait for each other, *)
TakeRefresh(c) ==
    /\ CallAt(c, "wait") /\ refreshLock[ProcessOf[c]][call[c].provider] = Nil
    /\ refreshLock' = [refreshLock EXCEPT ![ProcessOf[c]][call[c].provider] = c]
    /\ Advance(c, "reget")
    /\ UNCHANGED <<file, expired, thread, seen, fileHolder, storageLock, secrets, mishaps, written, spent>>

(* and look again: another one may have done it, or the provider is logged out. *)
LookedAgain(c) ==
    /\ CallAt(c, "reget") /\ thread[c] = "done"
    /\ thread' = [thread EXCEPT ![c] = "none"]
    /\ IF Found(c) = Nil \/ ~Expired(Found(c))
       THEN LeaveBoth(c) /\ End(c)
       ELSE LeaveStorage(c) /\ call' = [call EXCEPT ![c].cred = Found(c), ![c].at = "refreshing"]
            /\ UNCHANGED refreshLock
    /\ seen' = [seen EXCEPT ![c] = Nothing]
    /\ UNCHANGED <<file, expired, fileHolder, secrets, mishaps, written, spent>>

(* refresh(latest) answers, *)
Refreshed(c) ==
    /\ CallAt(c, "refreshing") /\ secrets < MaxSecrets
    /\ secrets' = secrets + 1
    /\ call' = [call EXCEPT ![c].at = "set", ![c].old = call[c].cred,
                            ![c].cred = [secret |-> secrets + 1, renewable |-> TRUE]]
    /\ UNCHANGED <<file, expired, thread, seen, locks, mishaps, written, spent>>

(* raises, or answers for another provider. *)
RefreshFails(c) ==
    /\ CallAt(c, "refreshing") /\ mishaps < MaxMishaps
    /\ mishaps' = mishaps + 1
    /\ LeaveBoth(c) /\ End(c)
    /\ UNCHANGED <<file, expired, thread, seen, fileHolder, secrets, written, spent>>

(* set, remove and the set of a refreshed credential return. *)
Stored(c) ==
    /\ call[c].at \in {"set", "remove"} /\ thread[c] = "done"
    /\ thread' = [thread EXCEPT ![c] = "none"]
    /\ LeaveBoth(c) /\ End(c)
    /\ spent' = IF call[c].method = "resolve"
                THEN [spent EXCEPT ![ProcessOf[c]] = @ \cup {call[c].old.secret}] ELSE spent
    /\ UNCHANGED <<file, expired, seen, fileHolder, secrets, mishaps, written>>

(* The thread raised, and so does the call. *)
Raised(c) ==
    /\ Accessing(c) /\ thread[c] = "raised"
    /\ thread' = [thread EXCEPT ![c] = "none"]
    /\ LeaveBoth(c) /\ End(c)
    /\ UNCHANGED <<file, expired, seen, fileHolder, secrets, mishaps, written, spent>>

(* The task is cancelled while it waits; its thread is not, and method says what it is for. *)
CancelCall(c) ==
    /\ mishaps < MaxMishaps /\ call[c].at \notin {"ready", "done", "left"}
    /\ mishaps' = mishaps + 1
    /\ LeaveBoth(c)
    /\ IF thread[c] \in {"queued", "read"}
       THEN call' = [call EXCEPT ![c].at = "left", ![c].method = call[c].at] /\ UNCHANGED thread
       ELSE End(c) /\ thread' = [thread EXCEPT ![c] = "none"]
    /\ UNCHANGED <<file, expired, seen, fileHolder, secrets, written, spent>>

-----------------------------------------------------------------------------
(* Threads, processes and time *)

(* What the thread of c is for, whether or not its task still waits for it. *)
Purpose(c) == IF CallAt(c, "left") THEN call[c].method ELSE call[c].at

(* with _thread_lock, _file_lock: the file is read, *)
ReadFile(c) ==
    /\ thread[c] = "queued" /\ fileHolder = Nil
    /\ fileHolder' = c
    /\ seen' = [seen EXCEPT ![c] = file]
    /\ thread' = [thread EXCEPT ![c] = "read"]
    /\ UNCHANGED <<file, expired, call, storageLock, refreshLock, secrets, mishaps, written, spent>>

(* and, by set and remove, replaced with one entry changed; os.replace makes that one step. *)
Write(c) ==
    LET p == call[c].provider
        entry == IF Purpose(c) = "set" THEN call[c].cred ELSE Nil
    IN
    /\ thread[c] = "read"
    /\ IF Purpose(c) \in {"set", "remove"}
       THEN /\ file' = [seen[c] EXCEPT ![p] = entry]
            /\ written' = [written EXCEPT ![p] = entry]
            /\ seen' = [seen EXCEPT ![c] = Nothing]
       ELSE UNCHANGED <<file, written, seen>>
    /\ fileHolder' = Nil
    /\ thread' = [thread EXCEPT ![c] = "done"]
    /\ UNCHANGED <<expired, call, storageLock, refreshLock, secrets, mishaps, spent>>

(* Reading or writing raises: the temporary file goes, auth.json stays. *)
Fail(c) ==
    /\ thread[c] = "read" /\ mishaps < MaxMishaps
    /\ mishaps' = mishaps + 1
    /\ fileHolder' = Nil
    /\ thread' = [thread EXCEPT ![c] = "raised"]
    /\ UNCHANGED <<file, expired, call, seen, storageLock, refreshLock, secrets, written, spent>>

(* A process dies, and its calls, threads and locks with it. *)
Die(x) ==
    LET gone == {c \in Calls : ProcessOf[c] = x /\ call[c].at # "ready"} IN
    /\ mishaps < MaxMishaps /\ \E c \in gone : call[c].at # "done"
    /\ mishaps' = mishaps + 1
    /\ call' = [c \in Calls |-> IF c \in gone THEN [at |-> "done"] ELSE call[c]]
    /\ thread' = [c \in Calls |-> IF c \in gone THEN "none" ELSE thread[c]]
    /\ fileHolder' = IF fileHolder \in gone THEN Nil ELSE fileHolder
    /\ storageLock' = [storageLock EXCEPT ![x] = Nil]
    /\ refreshLock' = [refreshLock EXCEPT ![x] = Nothing]
    /\ seen' = [c \in Calls |-> IF c \in gone THEN Nothing ELSE seen[c]]
    /\ UNCHANGED <<file, expired, secrets, written, spent>>

(* Time is over for a credential that is in the file, or was when someone read it. *)
Expire(k) ==
    /\ k \notin expired
    /\ \E p \in Providers, at \in {file} \cup {seen[c] : c \in Calls} : at[p] # Nil /\ at[p].secret = k
    /\ expired' = expired \cup {k}
    /\ UNCHANGED <<file, call, thread, seen, locks, secrets, mishaps, written, spent>>

CredentialNext ==
    \/ \E c \in Calls :
        \/ \E method \in {"resolve", "set", "remove"}, p \in Providers : StartCall(c, method, p)
        \/ Elsewhere(c) \/ TakeStorage(c) \/ Looked(c) \/ TakeRefresh(c) \/ LookedAgain(c)
        \/ Refreshed(c) \/ RefreshFails(c) \/ Stored(c) \/ Raised(c) \/ CancelCall(c)
        \/ ReadFile(c) \/ Write(c) \/ Fail(c)
    \/ \E x \in Processes : Die(x)
    \/ \E k \in Secrets : Expire(k)

CredentialSpec == CredentialInit /\ [][CredentialNext]_credentialVars

-----------------------------------------------------------------------------
(* The file holds for every provider what was written last about it, whichever process or
   abandoned thread wrote, and whatever was changed about other providers meanwhile.  A
   process refreshes one provider at a time, and never with a credential the refresh of which
   it has already stored. *)
CredentialsSound ==
    /\ file = written
    /\ \A c \in Calls : CallAt(c, "refreshing") =>
        /\ call[c].cred.secret \notin spent[ProcessOf[c]]
        /\ \A d \in Calls \ {c} :
            CallAt(d, "refreshing") /\ ProcessOf[d] = ProcessOf[c] => call[d].provider # call[c].provider
=============================================================================
