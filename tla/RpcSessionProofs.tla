--------------------------- MODULE RpcSessionProofs ---------------------------
(* Theorems about RpcSession, for any number of requests, sessions, models and faults. *)
EXTENDS RpcSession, SequenceTheorems, WellFoundedInduction, TLAPS

Places == {"read", "bash", "spawn", "draining", "closing", "closed", "wait"}
Notes == [kind : {"response", "event", "error", "settled"}, of : Requests]
Said == Requests \X (1 .. Messages)

ControlTypes ==
    /\ mode \in {"stdio", "buffered", "print"}
    /\ reader \in [pc : Places, on : 0 .. MaxLines]
    /\ lines \in 0 .. MaxLines
    /\ task \in [Requests -> {"none", "ready", "running", "done"}]
    /\ running \in 0 .. MaxLines
    /\ said \in [Requests -> 0 .. Messages]
    /\ shutdown \in BOOLEAN /\ cancelled \in BOOLEAN /\ persistence \in BOOLEAN
    /\ pipe \in BOOLEAN /\ exit \in 0 .. 2 /\ faults \in Nat

StoreTypes ==
    /\ sessions \in 1 .. MaxSessions /\ session \in 1 .. sessions
    /\ path \in [1 .. MaxSessions -> Seq(Models \cup Said)]
    /\ stored \in [1 .. MaxSessions -> SUBSET Said]
    /\ model \in Models /\ torn \in BOOLEAN

TypeOK == ControlTypes /\ out \in Seq(Notes) /\ StoreTypes

(* Where the reader and the tasks are. *)
Control ==
    /\ \A r \in Requests : task[r] = "running" <=> running = r
    /\ \A r \in Requests : r > lines => task[r] = "none"
    /\ reader.pc = "spawn" =>
            reader.on \in Requests /\ reader.on <= lines /\ task[reader.on] = "none"
    /\ reader.pc = "bash" => reader.on = lines /\ lines > 0
    /\ reader.pc \in {"bash", "spawn", "draining", "closing"} => mode # "print"
    /\ reader.pc = "wait" => mode = "print" /\ reader.on = lines /\ lines > 0
    /\ reader.pc = "closed" => \A r \in Requests : task[r] \in {"none", "done"}
    /\ mode = "print" => \A r \in Requests :
            r < lines \/ (r <= lines /\ reader.pc = "read") => task[r] = "done"
    /\ exit # 2 => mode = "print" /\ reader.pc = "closed"

(* A task, or one about to be made, is acknowledged; it is done exactly when its client has
   been told the outcome, if the client is still there. *)
Outputs ==
    /\ mode # "print" => \A r \in Requests :
            task[r] # "none" \/ (reader.pc = "spawn" /\ reader.on = r) =>
                Told(Response(r), Len(out))
    /\ \A i \in DOMAIN out : Over(out[i]) => task[out[i].of] = "done"
    /\ pipe => \A r \in Requests :
            task[r] = "done" => \E i \in DOMAIN out : out[i].of = r /\ Over(out[i])

AllStored(r) == \A k \in 1 .. said[r] : \E s \in 1 .. sessions : <<r, k>> \in stored[s]

(* While no append of a run failed its messages are there, and so they are ever after. *)
Outcomes ==
    /\ \A r \in Requests : running = r /\ ~persistence => AllStored(r)
    /\ \A i \in DOMAIN out : out[i].kind = "settled" => AllStored(out[i].of)
    /\ mode = "print" => \A r \in Requests :
            r < lines \/ (r <= lines /\ (reader.pc = "read" \/ exit = 0)) => AllStored(r)

(* A prompt has no message before it runs, and then in the current session alone. *)
Stores ==
    /\ \A r \in Requests : task[r] \in {"none", "ready"} =>
            said[r] = 0 /\ \A s \in 1 .. MaxSessions, k \in 1 .. Messages : <<r, k>> \notin stored[s]
    /\ \A r \in Requests : running = r =>
            \A s \in 1 .. MaxSessions, k \in 1 .. Messages : s # session => <<r, k>> \notin stored[s]
    /\ \A s \in 1 .. MaxSessions : s > sessions => stored[s] = {} /\ path[s] = <<>>
    /\ \A s, u \in 1 .. MaxSessions : \A e \in stored[s], f \in stored[u] : e[1] = f[1] => s = u

(* Opening a session with path p would leave the model m. *)
Leaves(p, m) == ModelChanges(p) # {} => p[Max(ModelChanges(p))] = m

SettingsInv == torn \/ Leaves(path[session], model)

RpcInv == TypeOK /\ Control /\ Outputs /\ InOrder /\ Outcomes /\ Stores /\ SettingsInv

-----------------------------------------------------------------------------
(* Sequences. *)

LEMMA LeastNatural ==
    ASSUME NEW S, S \subseteq Nat, S # {}
    PROVE  \E n \in S : \A m \in S : n <= m
<1> DEFINE R == OpToRel(<, Nat)
<1>1. IsWellFoundedOn(R, Nat)
  BY NatLessThanWellFounded
<1> HIDE DEF R
<1>2. \E n \in S : \A m \in S : ~ (<<m, n>> \in R)
  BY <1>1, WFMin
<1>3. ASSUME NEW m \in Nat, NEW n \in Nat, ~ (<<m, n>> \in R) PROVE n <= m
  BY <1>3 DEF R, OpToRel
<1> QED
  BY <1>2, <1>3

(* The greatest of the numbers up to n that are in S. *)
LEMMA GreatestUpTo ==
    ASSUME NEW n \in Nat, NEW S, S \subseteq 1 .. n, S # {}
    PROVE  Max(S) \in S /\ \A i \in S : i <= Max(S)
<1> DEFINE C == {n - i : i \in S}
<1>1. C \subseteq Nat /\ C # {}
  <2>1. \A i \in S : i \in 1 .. n
    OBVIOUS
  <2>2. \A i \in S : n - i \in Nat
    BY <2>1
  <2> QED
    BY <2>2
<1>2. PICK c \in C : \A d \in C : c <= d
  BY <1>1, LeastNatural
<1>3. PICK g \in S : c = n - g
  OBVIOUS
<1>4. ASSUME NEW i \in S PROVE g >= i
  <2>1. n - i \in C
    OBVIOUS
  <2>2. c <= n - i
    BY <1>2, <2>1
  <2> QED
    BY <1>3, <2>2
<1>5. \E x \in S : \A y \in S : x >= y
  BY <1>4
<1>6. Max(S) \in S /\ \A y \in S : Max(S) >= y
  BY <1>5 DEF Max
<1> QED
  BY <1>6

LEMMA GreatestIs ==
    ASSUME NEW n \in Nat, NEW S, S \subseteq 1 .. n, NEW g \in S, \A i \in S : i <= g
    PROVE  Max(S) = g
<1>1. Max(S) \in S /\ \A i \in S : i <= Max(S)
  BY GreatestUpTo
<1>2. Max(S) \in 1 .. n /\ g \in 1 .. n
  BY <1>1
<1>3. g <= Max(S) /\ Max(S) <= g
  BY <1>1
<1> HIDE DEF Max
<1> QED
  BY <1>2, <1>3

LEMMA Appended ==
    ASSUME NEW S, NEW s \in Seq(S), NEW e \in S
    PROVE  /\ Append(s, e) \in Seq(S)
           /\ Len(s) \in Nat /\ DOMAIN s = 1 .. Len(s)
           /\ Len(Append(s, e)) = Len(s) + 1 /\ DOMAIN Append(s, e) = 1 .. Len(s) + 1
           /\ \A i \in 1 .. Len(s) : Append(s, e)[i] = s[i]
           /\ Append(s, e)[Len(s) + 1] = e
  BY AppendProperties, LenProperties

-----------------------------------------------------------------------------
(* The last model change of a path. *)

LEMMA LeavesNothing == \A m : Leaves(<<>>, m)
  BY DEF Leaves, ModelChanges

LEMMA LastChange ==
    ASSUME NEW p \in Seq(Models \cup Said), ModelChanges(p) # {}
    PROVE  p[Max(ModelChanges(p))] \in Models
<1>1. Len(p) \in Nat /\ ModelChanges(p) \subseteq 1 .. Len(p)
  BY LenProperties DEF ModelChanges
<1>2. Max(ModelChanges(p)) \in ModelChanges(p)
  BY <1>1, GreatestUpTo
<1> QED
  BY <1>2 DEF ModelChanges

LEMMA LeavesRestored ==
    ASSUME NEW p \in Seq(Models \cup Said), model \in Models
    PROVE  Restored(p) \in Models /\ Leaves(p, Restored(p))
  BY LastChange DEF Restored, Leaves

LEMMA LeavesChange ==
    ASSUME NEW p \in Seq(Models \cup Said), NEW m \in Models
    PROVE  Leaves(Append(p, m), m)
<1> DEFINE a == Append(p, m)
<1>1. Len(p) \in Nat /\ DOMAIN a = 1 .. Len(p) + 1 /\ a[Len(p) + 1] = m
  BY Appended
<1> HIDE DEF a
<1>2. Len(p) + 1 \in ModelChanges(a) /\ ModelChanges(a) \subseteq 1 .. Len(p) + 1
  BY <1>1 DEF ModelChanges
<1>3. Max(ModelChanges(a)) = Len(p) + 1
  <2>1. \A i \in ModelChanges(a) : i <= Len(p) + 1
    BY <1>1, <1>2
  <2> QED
    BY <1>1, <1>2, <2>1, GreatestIs
<1> QED
  BY <1>1, <1>3 DEF Leaves, a

LEMMA LeavesMessage ==
    ASSUME NEW p \in Seq(Models \cup Said), NEW e \in Said, NEW m, Leaves(p, m)
    PROVE  Leaves(Append(p, e), m)
<1> DEFINE a == Append(p, e)
<1>1. /\ Len(p) \in Nat /\ DOMAIN p = 1 .. Len(p) /\ DOMAIN a = 1 .. Len(p) + 1
      /\ \A i \in 1 .. Len(p) : a[i] = p[i]
      /\ a[Len(p) + 1] = e
  BY Appended
<1> HIDE DEF a
<1>2. e \notin Models
  <2>1. PICK r \in Requests, k \in 1 .. Messages : e = <<r, k>>
    BY DEF Said
  <2> QED
    BY <2>1, EntriesAssumption
<1>3. ModelChanges(a) = ModelChanges(p)
  BY <1>1, <1>2 DEF ModelChanges
<1>4. CASE ModelChanges(p) = {}
  BY <1>3, <1>4 DEF Leaves, a
<1>5. CASE ModelChanges(p) # {}
  <2>1. Max(ModelChanges(p)) \in 1 .. Len(p)
    <3>1. ModelChanges(p) \subseteq 1 .. Len(p)
      BY <1>1 DEF ModelChanges
    <3> QED
      BY <1>1, <1>5, <3>1, GreatestUpTo
  <2> QED
    BY <1>1, <1>3, <1>5, <2>1 DEF Leaves, a
<1> QED
  BY <1>4, <1>5

-----------------------------------------------------------------------------
(* What the client was told.  The clauses of InOrder, for any sequence of notes. *)

Before(s, o, n) == \E i \in 1 .. n : s[i] = o

Answering(s) ==
    \A i \in DOMAIN s : s[i].kind = "response" =>
        /\ ~Before(s, s[i], i - 1)
        /\ \A r \in 1 .. s[i].of - 1 : Before(s, Response(r), i - 1)

Telling(s, print) ==
    \A i \in DOMAIN s : s[i].kind # "response" =>
        /\ print \/ Before(s, Response(s[i].of), i - 1)
        /\ \A j \in 1 .. i - 1 : s[j].of = s[i].of => ~Over(s[j])

Answered ==
    pipe /\ mode # "print" => \A r \in Requests :
        Before(out, Response(r), Len(out)) <=> r <= lines - (IF reader.pc = "bash" THEN 1 ELSE 0)

LEMMA InOrderParts == InOrder <=> Answering(out) /\ Answered /\ Telling(out, mode = "print")
  BY DEF InOrder, Answering, Answered, Telling, Told, Before

LEMMA ResponseIs ==
    ASSUME NEW r \in Requests
    PROVE  Response(r) \in Notes /\ Response(r).kind = "response" /\ Response(r).of = r /\ ~Over(Response(r))
  BY DEF Response, Notes, Over

LEMMA AppendedNote ==
    ASSUME NEW s \in Seq(Notes), NEW e \in Notes
    PROVE  /\ \A o : \A n \in 0 .. Len(s) : Before(Append(s, e), o, n) <=> Before(s, o, n)
           /\ \A o : Before(Append(s, e), o, Len(s) + 1) <=> Before(s, o, Len(s)) \/ o = e
<1> DEFINE a == Append(s, e)
<1>1. /\ Len(s) \in Nat
      /\ \A i \in 1 .. Len(s) : a[i] = s[i]
      /\ a[Len(s) + 1] = e
  BY Appended
<1> HIDE DEF a
<1>2. \A o : \A n \in 0 .. Len(s) : Before(a, o, n) <=> Before(s, o, n)
  BY <1>1 DEF Before
<1>3. \A o : Before(a, o, Len(s) + 1) <=> Before(s, o, Len(s)) \/ o = e
  <2>1. 1 .. Len(s) + 1 = (1 .. Len(s)) \cup {Len(s) + 1}
    BY <1>1
  <2> QED
    BY <1>1, <2>1 DEF Before
<1> QED
  BY <1>2, <1>3 DEF a

LEMMA AnsweringResponse ==
    ASSUME NEW s \in Seq(Notes), NEW r \in Requests, Answering(s),
           ~Before(s, Response(r), Len(s)),
           \A q \in 1 .. r - 1 : Before(s, Response(q), Len(s))
    PROVE  Answering(Append(s, Response(r)))
<1> DEFINE e == Response(r)
           a == Append(s, e)
<1>0. e \in Notes /\ e.kind = "response" /\ e.of = r
  BY ResponseIs
<1>1. /\ Len(s) \in Nat /\ DOMAIN s = 1 .. Len(s) /\ DOMAIN a = 1 .. Len(s) + 1
      /\ \A i \in 1 .. Len(s) : a[i] = s[i]
      /\ a[Len(s) + 1] = e
  BY <1>0, Appended
<1>2. \A o : \A n \in 0 .. Len(s) : Before(a, o, n) <=> Before(s, o, n)
  BY <1>0, AppendedNote
<1> HIDE DEF e, a
<1>3. SUFFICES ASSUME NEW i \in 1 .. Len(s) + 1, a[i].kind = "response"
               PROVE  /\ ~Before(a, a[i], i - 1)
                      /\ \A q \in 1 .. a[i].of - 1 : Before(a, Response(q), i - 1)
  BY <1>1 DEF Answering, a, e
<1>4. CASE i = Len(s) + 1
  <2>1. a[i] = e /\ a[i].of = r /\ i - 1 = Len(s) /\ Len(s) \in 0 .. Len(s)
    BY <1>0, <1>1, <1>4
  <2>2. ~Before(s, e, Len(s)) /\ \A q \in 1 .. r - 1 : Before(s, Response(q), Len(s))
    BY DEF e
  <2> QED
    BY <1>2, <2>1, <2>2
<1>5. CASE i \in 1 .. Len(s)
  <2>1. a[i] = s[i] /\ i \in DOMAIN s /\ i - 1 \in 0 .. Len(s)
    BY <1>1, <1>5
  <2>2. ~Before(s, s[i], i - 1) /\ \A q \in 1 .. s[i].of - 1 : Before(s, Response(q), i - 1)
    BY <1>3, <2>1 DEF Answering
  <2> QED
    BY <1>2, <2>1, <2>2
<1> QED
  BY <1>1, <1>3, <1>4, <1>5

LEMMA AnsweringOther ==
    ASSUME NEW s \in Seq(Notes), NEW e \in Notes, Answering(s), e.kind # "response"
    PROVE  Answering(Append(s, e))
<1> DEFINE a == Append(s, e)
<1>1. /\ Len(s) \in Nat /\ DOMAIN s = 1 .. Len(s) /\ DOMAIN a = 1 .. Len(s) + 1
      /\ \A i \in 1 .. Len(s) : a[i] = s[i]
      /\ a[Len(s) + 1] = e
  BY Appended
<1>2. \A o : \A n \in 0 .. Len(s) : Before(a, o, n) <=> Before(s, o, n)
  BY AppendedNote
<1> HIDE DEF a
<1>3. SUFFICES ASSUME NEW i \in 1 .. Len(s) + 1, a[i].kind = "response"
               PROVE  /\ ~Before(a, a[i], i - 1)
                      /\ \A q \in 1 .. a[i].of - 1 : Before(a, Response(q), i - 1)
  BY <1>1 DEF Answering, a
<1>4. i # Len(s) + 1
  BY <1>1, <1>3
<1>5. a[i] = s[i] /\ i \in DOMAIN s /\ i - 1 \in 0 .. Len(s)
  BY <1>1, <1>4
<1>6. ~Before(s, s[i], i - 1) /\ \A q \in 1 .. s[i].of - 1 : Before(s, Response(q), i - 1)
  BY <1>3, <1>5 DEF Answering
<1> QED
  BY <1>2, <1>5, <1>6

LEMMA TellingResponse ==
    ASSUME NEW s \in Seq(Notes), NEW e \in Notes, NEW print \in BOOLEAN,
           Telling(s, print), e.kind = "response"
    PROVE  Telling(Append(s, e), print)
<1> DEFINE a == Append(s, e)
<1>1. /\ Len(s) \in Nat /\ DOMAIN s = 1 .. Len(s) /\ DOMAIN a = 1 .. Len(s) + 1
      /\ \A i \in 1 .. Len(s) : a[i] = s[i]
      /\ a[Len(s) + 1] = e
  BY Appended
<1>2. \A o : \A n \in 0 .. Len(s) : Before(a, o, n) <=> Before(s, o, n)
  BY AppendedNote
<1> HIDE DEF a
<1>3. SUFFICES ASSUME NEW i \in 1 .. Len(s) + 1, a[i].kind # "response"
               PROVE  /\ print \/ Before(a, Response(a[i].of), i - 1)
                      /\ \A j \in 1 .. i - 1 : a[j].of = a[i].of => ~Over(a[j])
  BY <1>1 DEF Telling, a
<1>4. i # Len(s) + 1
  BY <1>1, <1>3
<1>5. a[i] = s[i] /\ i \in DOMAIN s /\ i - 1 \in 0 .. Len(s) /\ \A j \in 1 .. i - 1 : a[j] = s[j]
  BY <1>1, <1>4
<1>6. /\ print \/ Before(s, Response(s[i].of), i - 1)
      /\ \A j \in 1 .. i - 1 : s[j].of = s[i].of => ~Over(s[j])
  BY <1>3, <1>5 DEF Telling
<1> QED
  BY <1>2, <1>5, <1>6

LEMMA TellingOther ==
    ASSUME NEW s \in Seq(Notes), NEW e \in Notes, NEW print \in BOOLEAN, Telling(s, print),
           print \/ Before(s, Response(e.of), Len(s)),
           \A j \in DOMAIN s : s[j].of = e.of => ~Over(s[j])
    PROVE  Telling(Append(s, e), print)
<1> DEFINE a == Append(s, e)
<1>1. /\ Len(s) \in Nat /\ DOMAIN s = 1 .. Len(s) /\ DOMAIN a = 1 .. Len(s) + 1
      /\ \A i \in 1 .. Len(s) : a[i] = s[i]
      /\ a[Len(s) + 1] = e
  BY Appended
<1>2. \A o : \A n \in 0 .. Len(s) : Before(a, o, n) <=> Before(s, o, n)
  BY AppendedNote
<1> HIDE DEF a
<1>3. SUFFICES ASSUME NEW i \in 1 .. Len(s) + 1, a[i].kind # "response"
               PROVE  /\ print \/ Before(a, Response(a[i].of), i - 1)
                      /\ \A j \in 1 .. i - 1 : a[j].of = a[i].of => ~Over(a[j])
  BY <1>1 DEF Telling, a
<1>4. CASE i = Len(s) + 1
  <2>1. a[i] = e /\ i - 1 = Len(s) /\ Len(s) \in 0 .. Len(s) /\ \A j \in 1 .. Len(s) : a[j] = s[j]
    BY <1>1, <1>4
  <2> QED
    BY <1>1, <1>2, <2>1
<1>5. CASE i \in 1 .. Len(s)
  <2>1. a[i] = s[i] /\ i \in DOMAIN s /\ i - 1 \in 0 .. Len(s) /\ \A j \in 1 .. i - 1 : a[j] = s[j]
    BY <1>1, <1>5
  <2>2. /\ print \/ Before(s, Response(s[i].of), i - 1)
        /\ \A j \in 1 .. i - 1 : s[j].of = s[i].of => ~Over(s[j])
    BY <1>3, <2>1 DEF Telling
  <2> QED
    BY <1>2, <2>1, <2>2
<1> QED
  BY <1>1, <1>3, <1>4, <1>5

-----------------------------------------------------------------------------
(* Steps in which request r gets its response. *)

Turned(r) ==
    /\ mode # "print"
    /\ \/ reader.pc = "read" /\ lines < MaxLines /\ lines' = lines + 1 /\ r = lines + 1
       \/ reader.pc = "bash" /\ lines' = lines /\ r = reader.on
    /\ reader' \in [pc : {"read", "spawn", "draining", "closing"}, on : 0 .. MaxLines]
    /\ reader'.pc = "spawn" => pipe /\ reader'.on = r /\ reader.pc = "read"
    /\ out' = IF pipe THEN Append(out, Response(r)) ELSE out
    /\ shutdown' \in BOOLEAN /\ cancelled' \in BOOLEAN /\ faults' \in Nat
    /\ UNCHANGED <<mode, task, running, said, persistence, pipe, exit, stored>>

LEMMA ReadingIs ==
    ASSUME ControlTypes, Reading
    PROVE  /\ mode # "print" /\ reader.pc = "read" /\ lines < MaxLines /\ lines' = lines + 1
           /\ lines + 1 \in Requests /\ lines \in Nat
<1>1. lines \in 0 .. MaxLines /\ lines < MaxLines
  BY DEF ControlTypes, Reading
<1>2. MaxLines \in Nat
  BY RpcAssumption
<1>3. lines + 1 \in Requests /\ lines \in Nat
  BY <1>1, <1>2 DEF Requests
<1> QED
  BY <1>1, <1>3 DEF Reading

LEMMA Responds ==
    ASSUME ControlTypes, NEW r \in Requests, NEW pc \in {"read", "spawn", "draining"},
           Respond(r, pc)
    PROVE  /\ reader' \in [pc : {"read", "spawn", "draining", "closing"}, on : 0 .. MaxLines]
           /\ reader'.pc = "spawn" => pipe /\ reader'.on = r /\ pc = "spawn"
           /\ out' = IF pipe THEN Append(out, Response(r)) ELSE out
<1>1. r \in 0 .. MaxLines /\ running \in 0 .. MaxLines /\ 0 \in 0 .. MaxLines
  BY RpcAssumption DEF Requests, ControlTypes
<1>2. CASE pipe
  BY <1>1, <1>2 DEF Respond, Goto, Tell, Response
<1>3. CASE ~pipe
  BY <1>1, <1>3 DEF Respond, Goto, Tell
<1> QED
  BY <1>2, <1>3

LEMMA Turning ==
    ASSUME ControlTypes, Control,
           \/ Answer \/ BashDone \/ Accept \/ Abort \/ Shutdown
           \/ \E m \in Models : SetModel(m)
           \/ NewSession
           \/ \E s \in 1 .. MaxSessions : SwitchSession(s)
           \/ \E k \in 0 .. MaxLines + Messages * MaxLines : Fork(k)
    PROVE  \E r \in Requests : Turned(r)
<1>1. /\ shutdown \in BOOLEAN /\ cancelled \in BOOLEAN /\ faults \in Nat /\ faults + 1 \in Nat
      /\ (running # 0) \in BOOLEAN
  BY DEF ControlTypes
<1>2. ASSUME NEW pc \in {"read", "spawn", "draining"}, Reading, Respond(lines + 1, pc),
             shutdown' \in BOOLEAN, cancelled' \in BOOLEAN, faults' \in Nat,
             UNCHANGED <<mode, task, running, said, persistence, pipe, exit, stored>>
      PROVE  \E r \in Requests : Turned(r)
  <2>1. /\ mode # "print" /\ reader.pc = "read" /\ lines < MaxLines /\ lines' = lines + 1
        /\ lines + 1 \in Requests
    BY <1>2, ReadingIs
  <2>2. /\ reader' \in [pc : {"read", "spawn", "draining", "closing"}, on : 0 .. MaxLines]
        /\ reader'.pc = "spawn" => pipe /\ reader'.on = lines + 1
        /\ out' = IF pipe THEN Append(out, Response(lines + 1)) ELSE out
    BY <1>2, <2>1, Responds
  <2>3. Turned(lines + 1)
    BY <1>2, <2>1, <2>2 DEF Turned
  <2> QED
    BY <2>1, <2>3
<1>3. CASE Answer
  BY <1>1, <1>2, <1>3 DEF Answer, agent
<1>4. CASE BashDone
  <2>1. /\ mode # "print" /\ reader.pc = "bash" /\ reader.on = lines /\ lines > 0 /\ lines' = lines
        /\ Respond(reader.on, "read")
        /\ UNCHANGED <<mode, task, running, said, persistence, pipe, exit, stored>>
        /\ UNCHANGED <<shutdown, cancelled, faults>>
    BY <1>4 DEF BashDone, Control, agent
  <2>2. lines \in Requests
    BY <2>1, RpcAssumption DEF ControlTypes, Requests
  <2>3. /\ reader' \in [pc : {"read", "spawn", "draining", "closing"}, on : 0 .. MaxLines]
        /\ reader'.pc # "spawn"
        /\ out' = IF pipe THEN Append(out, Response(lines)) ELSE out
    BY <2>1, <2>2, Responds
  <2>4. Turned(lines)
    BY <1>1, <2>1, <2>3 DEF Turned
  <2> QED
    BY <2>2, <2>4
<1>5. CASE Accept
  BY <1>1, <1>2, <1>5 DEF Accept, agent
<1>6. CASE Abort
  BY <1>1, <1>2, <1>6 DEF Abort, Cancel
<1>7. CASE Shutdown
  BY <1>1, <1>2, <1>7 DEF Shutdown, Cancel
<1>8. ASSUME NEW m \in Models, SetModel(m) PROVE \E r \in Requests : Turned(r)
  BY <1>1, <1>2, <1>8 DEF SetModel, agent
<1>9. CASE NewSession
  BY <1>1, <1>2, <1>9 DEF NewSession, agent
<1>10. ASSUME NEW s \in 1 .. MaxSessions, SwitchSession(s) PROVE \E r \in Requests : Turned(r)
  BY <1>1, <1>2, <1>10 DEF SwitchSession, agent
<1>11. ASSUME NEW k \in 0 .. MaxLines + Messages * MaxLines, Fork(k)
       PROVE  \E r \in Requests : Turned(r)
  BY <1>1, <1>2, <1>11 DEF Fork, agent
<1> QED
  BY <1>3, <1>4, <1>5, <1>6, <1>7, <1>8, <1>9, <1>10, <1>11

-----------------------------------------------------------------------------
(* Where the reader and the tasks are. *)

LEMMA TurnedControl ==
    ASSUME ControlTypes, Control, NEW r \in Requests, Turned(r)
    PROVE  ControlTypes' /\ Control'
<1>1. /\ mode # "print" /\ mode' = mode /\ task' = task /\ running' = running /\ said' = said
      /\ persistence' = persistence /\ pipe' = pipe /\ exit' = exit /\ exit = 2
      /\ reader.pc # "closed"
  BY DEF Turned, Control
<1>2. lines' \in 0 .. MaxLines /\ lines <= lines' /\ lines \in 0 .. MaxLines /\ MaxLines \in Nat
  BY RpcAssumption DEF Turned, ControlTypes
<1>3. ControlTypes'
  BY <1>1, <1>2 DEF ControlTypes, Turned, Places
<1>4. ASSUME reader'.pc = "spawn"
      PROVE  reader'.on \in Requests /\ reader'.on <= lines' /\ task[reader'.on] = "none"
  <2>1. lines' = lines + 1 /\ r = lines + 1 /\ reader'.on = r
    BY <1>4 DEF Turned
  <2>2. r > lines /\ r <= lines'
    BY <1>2, <2>1
  <2> QED
    BY <2>1, <2>2 DEF Control
<1>5. /\ \A q \in Requests : task[q] = "running" <=> running = q
      /\ \A q \in Requests : q > lines' => task[q] = "none"
  <2>1. \A q \in Requests : q > lines' => q > lines
    BY <1>2 DEF Requests
  <2> QED
    BY <2>1 DEF Control
<1>6. reader'.pc \in {"read", "spawn", "draining", "closing"}
  BY DEF Turned
<1> QED
  BY <1>1, <1>3, <1>4, <1>5, <1>6 DEF Control

LEMMA ControlStep ==
    ASSUME ControlTypes, Control, [Next]_vars
    PROVE  ControlTypes' /\ Control'
<1>0. MaxLines \in Nat /\ lines \in 0 .. MaxLines /\ 0 \in 0 .. MaxLines
  BY RpcAssumption DEF ControlTypes
<1>1. ASSUME NEW r \in Requests, Turned(r) PROVE ControlTypes' /\ Control'
  BY <1>1, TurnedControl
<1>2. CASE Bash
  <2>1. /\ mode # "print" /\ reader.pc = "read" /\ lines' = lines + 1 /\ lines + 1 \in Requests
        /\ reader' = [pc |-> "bash", on |-> lines + 1]
        /\ UNCHANGED <<mode, shutdown, task, running, cancelled, said, persistence, pipe, exit, faults>>
    BY <1>2, ReadingIs DEF Bash, Goto, agent
  <2>2. lines + 1 \in 0 .. MaxLines /\ lines + 1 > 0 /\ \A q \in Requests : q > lines + 1 => q > lines
    BY <1>0, <2>1 DEF Requests
  <2>3. ControlTypes'
    BY <2>1, <2>2 DEF ControlTypes, Places
  <2> QED
    BY <2>1, <2>2, <2>3 DEF Control
<1>3. CASE Spawn
  <2>1. /\ reader.pc = "spawn" /\ mode # "print" /\ reader' = [pc |-> "read", on |-> 0]
        /\ reader.on \in Requests /\ reader.on <= lines /\ task[reader.on] = "none"
        /\ task' = [task EXCEPT ![reader.on] = "ready"]
        /\ UNCHANGED <<mode, lines, shutdown, running, cancelled, said, persistence, pipe, exit, faults>>
    BY <1>3 DEF Spawn, Goto, Control, agent
  <2>2. task' \in [Requests -> {"none", "ready", "running", "done"}]
    BY <2>1 DEF ControlTypes
  <2>3. ControlTypes'
    BY <1>0, <2>1, <2>2 DEF ControlTypes, Places
  <2>4. \A q \in Requests : task'[q] = IF q = reader.on THEN "ready" ELSE task[q]
    BY <2>1 DEF ControlTypes
  <2>5. \A q \in Requests : q > lines => q # reader.on
    BY <1>0, <2>1 DEF Requests
  <2> QED
    BY <2>1, <2>3, <2>4, <2>5 DEF Control
<1>4. CASE EndOfInput
  <2>1. /\ mode # "print" /\ reader.pc = "read" /\ reader' = [pc |-> "draining", on |-> running]
        /\ UNCHANGED <<mode, lines, shutdown, task, running, cancelled, said, persistence, pipe, exit, faults>>
    BY <1>4 DEF EndOfInput, Goto, agent
  <2> QED
    BY <2>1 DEF ControlTypes, Control, Places
<1>5. CASE Drain
  <2>1. /\ mode # "print" /\ reader.pc = "draining" /\ reader' = [pc |-> "closing", on |-> 0]
        /\ UNCHANGED <<mode, lines, shutdown, task, running, cancelled, said, persistence, pipe, exit, faults>>
    BY <1>5 DEF Drain, Goto, agent, Control
  <2> QED
    BY <1>0, <2>1 DEF ControlTypes, Control, Places
<1>6. CASE Close
  <2>1. /\ mode # "print" /\ reader.pc = "closing" /\ reader' = [pc |-> "closed", on |-> 0]
        /\ \A q \in Requests : task[q] \in {"none", "done"}
        /\ UNCHANGED <<mode, lines, shutdown, task, running, cancelled, said, persistence, pipe, exit, faults>>
    BY <1>6 DEF Close, Goto, agent, Control
  <2> QED
    BY <1>0, <2>1 DEF ControlTypes, Control, Places
<1>7. CASE PrintPrompt
  <2>1. /\ mode = "print" /\ reader.pc = "read" /\ lines < MaxLines /\ lines' = lines + 1
        /\ task' = [task EXCEPT ![lines + 1] = "ready"]
        /\ reader' = [pc |-> "wait", on |-> lines + 1]
        /\ UNCHANGED <<mode, shutdown, running, cancelled, said, persistence, pipe, exit, faults>>
    BY <1>7 DEF PrintPrompt, Goto, agent
  <2>2. /\ lines + 1 \in Requests /\ lines + 1 \in 0 .. MaxLines /\ lines + 1 > 0 /\ lines + 1 > lines
        /\ \A q \in Requests : q > lines + 1 => q > lines /\ q # lines + 1
        /\ \A q \in Requests : q < lines + 1 => q <= lines /\ q # lines + 1
    BY <1>0, <2>1 DEF Requests
  <2>3. task[lines + 1] = "none" /\ running # lines + 1
    BY <2>2 DEF Control
  <2>4. task' \in [Requests -> {"none", "ready", "running", "done"}]
    BY <2>1 DEF ControlTypes
  <2>5. ControlTypes'
    BY <2>1, <2>2, <2>4 DEF ControlTypes, Places
  <2>6. \A q \in Requests : task'[q] = IF q = lines + 1 THEN "ready" ELSE task[q]
    BY <2>1 DEF ControlTypes
  <2> QED
    BY <2>1, <2>2, <2>3, <2>5, <2>6 DEF Control
<1>8. CASE PrintReturned
  <2>1. /\ mode = "print" /\ reader.pc = "wait" /\ reader.on = lines /\ task[lines] = "done" /\ lines > 0
        /\ \/ reader' = [pc |-> "closed", on |-> 0] /\ exit' = 1
           \/ reader' = [pc |-> "read", on |-> 0] /\ exit' = exit
        /\ UNCHANGED <<mode, lines, shutdown, task, running, cancelled, said, persistence, pipe, faults>>
    BY <1>8 DEF PrintReturned, Goto, agent, Control
  <2>2. ControlTypes'
    BY <1>0, <2>1 DEF ControlTypes, Places
  <2>3. \A q \in Requests : q <= lines => task[q] = "done"
    <3>1. \A q \in Requests : q <= lines => q < lines \/ q = lines
      BY <1>0 DEF Requests
    <3> QED
      BY <2>1, <3>1 DEF Control
  <2>4. \A q \in Requests : task[q] \in {"none", "done"}
    <3>1. \A q \in Requests : q <= lines \/ q > lines
      BY <1>0 DEF Requests
    <3> QED
      BY <2>3, <3>1 DEF Control
  <2> QED
    BY <2>1, <2>2, <2>3, <2>4 DEF Control
<1>9. CASE PrintEnd
  <2>1. /\ mode = "print" /\ reader.pc = "read" /\ exit' \in {0, 1}
        /\ reader' = [pc |-> "closed", on |-> 0]
        /\ UNCHANGED <<mode, lines, shutdown, task, running, cancelled, said, persistence, pipe, faults>>
    BY <1>9 DEF PrintEnd, Goto, agent
  <2>2. ControlTypes'
    BY <1>0, <2>1 DEF ControlTypes, Places
  <2>3. \A q \in Requests : task[q] \in {"none", "done"}
    <3>1. \A q \in Requests : q <= lines \/ q > lines
      BY <1>0 DEF Requests
    <3> QED
      BY <2>1, <3>1 DEF Control
  <2> QED
    BY <2>1, <2>2, <2>3 DEF Control
<1>10. ASSUME NEW r \in Requests, Start(r) PROVE ControlTypes' /\ Control'
  <2>1. /\ task[r] = "ready"
        /\ UNCHANGED <<mode, reader, lines, shutdown, said, pipe, exit, faults>>
    BY <1>10 DEF Start
  <2>2. r \in 0 .. MaxLines /\ r # 0
    BY <1>0 DEF Requests
  <2>3. ~(r > lines) /\ reader.pc # "closed" /\ (reader.pc = "spawn" => reader.on # r)
        /\ running # r
    BY <2>1 DEF Control
  <2>4. CASE Idle
    <3>1. /\ running = 0 /\ task' = [task EXCEPT ![r] = "running"]
          /\ running' = r /\ cancelled' = FALSE /\ persistence' = FALSE
      BY <1>10, <2>4 DEF Start, Idle
    <3>2. task' \in [Requests -> {"none", "ready", "running", "done"}]
      BY <3>1 DEF ControlTypes
    <3>3. ControlTypes'
      BY <2>1, <2>2, <3>1, <3>2 DEF ControlTypes
    <3>4. \A q \in Requests : task'[q] = IF q = r THEN "running" ELSE task[q]
      BY <3>1 DEF ControlTypes
    <3>5. \A q \in Requests : q # 0
      BY DEF Requests
    <3>6. \A q \in Requests : task'[q] = "running" <=> running' = q
      BY <3>1, <3>4, <3>5 DEF Control
    <3> QED
      BY <2>1, <2>3, <3>3, <3>4, <3>6 DEF Control
  <2>5. CASE ~Idle
    <3>1. /\ task' = [task EXCEPT ![r] = "done"]
          /\ UNCHANGED <<running, cancelled, persistence>>
      BY <1>10, <2>5 DEF Start
    <3>2. task' \in [Requests -> {"none", "ready", "running", "done"}]
      BY <3>1 DEF ControlTypes
    <3>3. ControlTypes'
      BY <2>1, <3>1, <3>2 DEF ControlTypes
    <3>4. \A q \in Requests : task'[q] = IF q = r THEN "done" ELSE task[q]
      BY <3>1 DEF ControlTypes
    <3> QED
      BY <2>1, <2>3, <3>1, <3>3, <3>4 DEF Control
  <2> QED
    BY <2>4, <2>5
<1>11. ASSUME NEW r \in Requests, Say(r) PROVE ControlTypes' /\ Control'
  <2>1. /\ said[r] < Messages /\ said' = [said EXCEPT ![r] = @ + 1]
        /\ persistence' \in BOOLEAN
        /\ faults' = faults \/ faults' = faults + 1
        /\ UNCHANGED <<mode, reader, lines, shutdown, task, running, cancelled, pipe, exit>>
    BY <1>11 DEF Say, ControlTypes
  <2>2. said' \in [Requests -> 0 .. Messages]
    <3>1. said[r] \in 0 .. Messages /\ said[r] + 1 \in 0 .. Messages
      BY <2>1 DEF ControlTypes, Messages
    <3> QED
      BY <2>1, <3>1 DEF ControlTypes
  <2>3. ControlTypes'
    BY <2>1, <2>2 DEF ControlTypes
  <2> QED
    BY <2>1, <2>3 DEF Control
<1>12. ASSUME NEW r \in Requests, Finish(r) PROVE ControlTypes' /\ Control'
  <2>1. /\ running = r /\ running' = 0 /\ cancelled' = FALSE /\ persistence' = FALSE
        /\ task' = [task EXCEPT ![r] = "done"]
        /\ UNCHANGED <<mode, reader, lines, shutdown, said, pipe, exit, faults>>
    BY <1>12 DEF Finish
  <2>2. task' \in [Requests -> {"none", "ready", "running", "done"}]
    BY <2>1 DEF ControlTypes
  <2>3. ControlTypes'
    BY <1>0, <2>1, <2>2 DEF ControlTypes
  <2>4. \A q \in Requests : task'[q] = IF q = r THEN "done" ELSE task[q]
    BY <2>1 DEF ControlTypes
  <2>5. task[r] = "running"
    BY <2>1 DEF Control
  <2>6. \A q \in Requests : q # 0
    BY DEF Requests
  <2>7. \A q \in Requests : task'[q] = "running" <=> running' = q
    BY <2>1, <2>4, <2>6 DEF Control
  <2> QED
    BY <2>1, <2>3, <2>4, <2>5, <2>7 DEF Control
<1>13. CASE Hangup
  <2>1. /\ pipe' = FALSE /\ faults' = faults + 1
        /\ UNCHANGED <<mode, reader, lines, shutdown, task, running, cancelled, said, persistence, exit>>
    BY <1>13 DEF Hangup, agent
  <2>2. pipe' \in BOOLEAN /\ faults' \in Nat
    <3>1. pipe' \in BOOLEAN
      BY <2>1, Zenon
    <3>2. faults \in Nat /\ faults' = faults + 1
      BY <2>1 DEF ControlTypes
    <3> QED
      BY <3>1, <3>2
  <2>3. ControlTypes'
    <3>1. UNCHANGED <<mode, reader, lines, shutdown, task, running, cancelled, said, persistence, exit>>
      BY <2>1
    <3> QED
      BY <2>2, <3>1 DEF ControlTypes
  <2>4. Control'
    BY <2>1 DEF Control
  <2> QED
    BY <2>3, <2>4
<1>14. CASE UNCHANGED vars
  BY <1>14 DEF vars, ControlTypes, Control
<1> QED
  BY <1>1, <1>2, <1>3, <1>4, <1>5, <1>6, <1>7, <1>8, <1>9, <1>10, <1>11, <1>12, <1>13, <1>14, Turning
     DEF Next

-----------------------------------------------------------------------------
(* What the client is told: a response, a note from the task of a prompt, or nothing. *)

LEMMA InOrderThere ==
    InOrder' <=> Answering(out') /\ Answered' /\ Telling(out', (mode' = "print"))
  BY DEF InOrder, Answering, Answered, Telling, Told, Before

LEMMA TurnedOutputs ==
    ASSUME ControlTypes, out \in Seq(Notes), Control, Outputs, InOrder,
           NEW r \in Requests, Turned(r)
    PROVE  out' \in Seq(Notes) /\ Outputs' /\ InOrder'
<1> DEFINE e == Response(r)
<1>1. /\ mode # "print" /\ mode' = mode /\ task' = task /\ pipe' = pipe
      /\ out' = IF pipe THEN Append(out, e) ELSE out
      /\ reader'.pc = "spawn" => pipe /\ reader'.on = r
      /\ reader'.pc # "bash"
  BY DEF Turned
<1>2. Answering(out) /\ Answered /\ Telling(out, mode = "print")
  BY InOrderParts
<1>3. CASE ~pipe
  <2>1. out' = out /\ reader'.pc # "spawn"
    BY <1>1, <1>3
  <2>2. Outputs'
    BY <1>1, <1>3, <2>1 DEF Outputs, Told
  <2>3. Answered'
    BY <1>1, <1>3 DEF Answered
  <2> QED
    BY <1>1, <1>2, <2>1, <2>2, <2>3, InOrderThere
<1>4. CASE pipe
  <2>1. e \in Notes /\ e.kind = "response" /\ e.of = r /\ ~Over(e) /\ out' = Append(out, e)
    BY <1>1, <1>4, ResponseIs
  <2>2. /\ Len(out) \in Nat /\ DOMAIN out = 1 .. Len(out)
        /\ Len(out') = Len(out) + 1 /\ DOMAIN out' = 1 .. Len(out) + 1 /\ out' \in Seq(Notes)
        /\ \A i \in 1 .. Len(out) : out'[i] = out[i]
        /\ out'[Len(out) + 1] = e
    BY <2>1, Appended
  <2>3. \A o : Before(out', o, Len(out) + 1) <=> Before(out, o, Len(out)) \/ o = e
    BY <2>1, AppendedNote
  <2> HIDE DEF e
  <2>4. lines' = r /\ lines' \in Nat /\ lines \in Nat
        /\ \A q \in Requests : q <= lines - (IF reader.pc = "bash" THEN 1 ELSE 0) <=> q < r
    <3>1. lines \in Nat /\ r \in Nat /\ \A q \in Requests : q \in Nat
      BY RpcAssumption DEF ControlTypes, Requests
    <3>2. CASE reader.pc = "read" /\ lines' = lines + 1 /\ r = lines + 1
      BY <3>1, <3>2
    <3>3. CASE reader.pc = "bash" /\ lines' = lines /\ r = reader.on
      BY <3>1, <3>3 DEF Control
    <3> QED
      BY <3>2, <3>3 DEF Turned
  <2>5. \A q \in Requests : Before(out, Response(q), Len(out)) <=> q < r
    BY <1>1, <1>2, <1>4, <2>4 DEF Answered
  <2>6. Answering(out')
    <3>1. ~Before(out, Response(r), Len(out))
      BY <2>4, <2>5
    <3>2. \A q \in 1 .. r - 1 : q \in Requests /\ q < r
      BY RpcAssumption DEF Requests
    <3> QED
      BY <1>2, <2>1, <2>5, <3>1, <3>2, AnsweringResponse DEF e
  <2>7. Telling(out', (mode' = "print"))
    <3>1. (mode = "print") \in BOOLEAN
      OBVIOUS
    <3> QED
      BY <1>1, <1>2, <2>1, <3>1, TellingResponse
  <2>8. Answered'
    <3>1. \A q \in Requests : Response(q) = e <=> q = r
      BY DEF e, Response
    <3>2. \A q \in Requests : Before(out', Response(q), Len(out')) <=> q < r \/ q = r
      BY <2>2, <2>3, <2>5, <3>1
    <3>3. \A q \in Requests : (q < r \/ q = r) <=> q <= lines' - 0
      BY <2>4 DEF Requests
    <3>4. Answered' = (pipe' /\ mode' # "print" => \A q \in Requests :
                Before(out', Response(q), Len(out')) <=> q <= lines' - (IF reader'.pc = "bash" THEN 1 ELSE 0))
      BY DEF Answered
    <3> QED
      BY <1>1, <3>2, <3>3, <3>4
  <2>9. Outputs'
    <3>1. \A q \in Requests :
            task'[q] # "none" \/ (reader'.pc = "spawn" /\ reader'.on = q) =>
                Before(out', Response(q), Len(out'))
      <4>1. \A q \in Requests : task[q] # "none" => Before(out, Response(q), Len(out))
        BY <1>1 DEF Outputs, Told, Before
      <4> QED
        BY <1>1, <2>2, <2>3, <4>1 DEF e
    <3>2. \A i \in DOMAIN out' : Over(out'[i]) => task'[out'[i].of] = "done"
      <4>1. \A i \in 1 .. Len(out) : Over(out[i]) => task[out[i].of] = "done"
        BY <2>2 DEF Outputs
      <4> QED
        BY <1>1, <2>1, <2>2, <4>1
    <3>3. \A q \in Requests : task'[q] = "done" => \E i \in DOMAIN out' : out'[i].of = q /\ Over(out'[i])
      <4>1. \A q \in Requests : task[q] = "done" => \E i \in 1 .. Len(out) : out[i].of = q /\ Over(out[i])
        BY <1>4, <2>2 DEF Outputs
      <4> QED
        BY <1>1, <2>2, <4>1
    <3> QED
      BY <3>1, <3>2, <3>3 DEF Outputs, Told, Before
  <2> QED
    BY <2>2, <2>6, <2>7, <2>8, <2>9, InOrderThere
<1> QED
  BY <1>3, <1>4

(* The task of prompt r tells e. *)
Noted(r, e) ==
    /\ e \in Notes /\ e.kind # "response" /\ e.of = r
    /\ task[r] \in {"ready", "running"} /\ task'[r] # "none"
    /\ \A q \in Requests : q # r => task'[q] = task[q]
    /\ Over(e) <=> task'[r] = "done"
    /\ out' = IF pipe THEN Append(out, e) ELSE out
    /\ UNCHANGED <<mode, reader, lines, pipe>>

LEMMA NotedOutputs ==
    ASSUME out \in Seq(Notes), Outputs, InOrder, NEW r \in Requests, NEW e, Noted(r, e),
           reader.pc = "spawn" => task[reader.on] = "none"
    PROVE  out' \in Seq(Notes) /\ Outputs' /\ InOrder'
<1>1. /\ mode' = mode /\ reader' = reader /\ lines' = lines /\ pipe' = pipe
      /\ task[r] \in {"ready", "running"} /\ task'[r] # "none"
      /\ \A q \in Requests : q # r => task'[q] = task[q]
      /\ out' = IF pipe THEN Append(out, e) ELSE out
      /\ e \in Notes /\ e.kind # "response" /\ e.of = r
      /\ Over(e) <=> task'[r] = "done"
  BY DEF Noted
<1>2. Answering(out) /\ Answered /\ Telling(out, mode = "print")
  BY InOrderParts
<1>3. /\ \A i \in DOMAIN out : Over(out[i]) => task[out[i].of] = "done"
      /\ \A i \in DOMAIN out : out[i].of \in Requests
      /\ \A i \in DOMAIN out : Over(out[i]) => out[i].of # r
  <2>1. \A i \in DOMAIN out : out[i] \in Notes
    BY ElementOfSeq, LenProperties
  <2> QED
    BY <1>1, <2>1 DEF Outputs, Notes
<1>4. mode # "print" => \A q \in Requests :
            task'[q] # "none" \/ (reader'.pc = "spawn" /\ reader'.on = q) =>
                Before(out, Response(q), Len(out))
  BY <1>1 DEF Outputs, Told, Before
<1>5. CASE ~pipe
  <2>1. out' = out
    BY <1>1, <1>5
  <2>2. Outputs'
    BY <1>1, <1>3, <1>4, <1>5, <2>1 DEF Outputs, Told, Before
  <2>3. Answered'
    BY <1>1, <1>5 DEF Answered
  <2> QED
    BY <1>1, <1>2, <2>1, <2>2, <2>3, InOrderThere
<1>6. CASE pipe
  <2>1. out' = Append(out, e)
    BY <1>1, <1>6
  <2>2. /\ Len(out) \in Nat /\ DOMAIN out = 1 .. Len(out)
        /\ Len(out') = Len(out) + 1 /\ DOMAIN out' = 1 .. Len(out) + 1 /\ out' \in Seq(Notes)
        /\ \A i \in 1 .. Len(out) : out'[i] = out[i]
        /\ out'[Len(out) + 1] = e
    BY <1>1, <2>1, Appended
  <2>3. \A o : Before(out', o, Len(out) + 1) <=> Before(out, o, Len(out)) \/ o = e
    BY <1>1, <2>1, AppendedNote
  <2>4. \A q \in Requests : Before(out', Response(q), Len(out')) <=> Before(out, Response(q), Len(out))
    BY <1>1, <2>2, <2>3, ResponseIs
  <2>5. Answering(out')
    BY <1>1, <1>2, <2>1, AnsweringOther
  <2>6. Telling(out', (mode' = "print"))
    <3>1. (mode = "print") \in BOOLEAN
      OBVIOUS
    <3>2. mode = "print" \/ Before(out, Response(e.of), Len(out))
      BY <1>1, <1>4
    <3>3. \A j \in DOMAIN out : out[j].of = e.of => ~Over(out[j])
      BY <1>1, <1>3
    <3> QED
      BY <1>1, <1>2, <2>1, <3>1, <3>2, <3>3, TellingOther
  <2>7. Answered'
    <3>1. Answered' = (pipe' /\ mode' # "print" => \A q \in Requests :
                Before(out', Response(q), Len(out')) <=> q <= lines' - (IF reader'.pc = "bash" THEN 1 ELSE 0))
      BY DEF Answered
    <3> QED
      BY <1>1, <1>2, <2>4, <3>1 DEF Answered
  <2>8. Outputs'
    <3>1. mode' # "print" => \A q \in Requests :
            task'[q] # "none" \/ (reader'.pc = "spawn" /\ reader'.on = q) =>
                Before(out', Response(q), Len(out'))
      BY <1>1, <1>4, <2>4
    <3>2. \A i \in DOMAIN out' : Over(out'[i]) => task'[out'[i].of] = "done"
      <4>1. \A i \in 1 .. Len(out) : Over(out[i]) => task'[out[i].of] = "done"
        BY <1>1, <1>3, <2>2
      <4> QED
        BY <1>1, <2>2, <4>1
    <3>3. \A q \in Requests : task'[q] = "done" => \E i \in DOMAIN out' : out'[i].of = q /\ Over(out'[i])
      <4>1. \A q \in Requests : task[q] = "done" => \E i \in 1 .. Len(out) : out[i].of = q /\ Over(out[i])
        BY <1>6, <2>2 DEF Outputs
      <4>2. Len(out) + 1 \in DOMAIN out'
        BY <2>2
      <4> QED
        BY <1>1, <2>2, <4>1, <4>2
    <3> QED
      BY <3>1, <3>2, <3>3 DEF Outputs, Told, Before
  <2> QED
    BY <2>2, <2>5, <2>6, <2>7, <2>8, InOrderThere
<1> QED
  BY <1>5, <1>6

(* Nothing is told, and no prompt is over. *)
Silent ==
    /\ out' = out /\ mode' = mode /\ (pipe' => pipe)
    /\ \A q \in Requests : task'[q] = "done" <=> task[q] = "done"
    /\ mode # "print" =>
        /\ \A q \in Requests :
                task'[q] # "none" \/ (reader'.pc = "spawn" /\ reader'.on = q) =>
                    task[q] # "none" \/ (reader.pc = "spawn" /\ reader.on = q)
        /\ lines' - (IF reader'.pc = "bash" THEN 1 ELSE 0) =
                lines - (IF reader.pc = "bash" THEN 1 ELSE 0)

LEMMA SilentOutputs ==
    ASSUME out \in Seq(Notes), Outputs, InOrder, Silent
    PROVE  out' \in Seq(Notes) /\ Outputs' /\ InOrder'
<1>1. /\ out' = out /\ mode' = mode /\ (pipe' => pipe)
      /\ \A q \in Requests : task'[q] = "done" <=> task[q] = "done"
  BY DEF Silent
<1>2. Answering(out) /\ Answered /\ Telling(out, mode = "print")
  BY InOrderParts
<1>3. Answered'
  <2>1. Answered' = (pipe' /\ mode' # "print" => \A q \in Requests :
            Before(out', Response(q), Len(out')) <=> q <= lines' - (IF reader'.pc = "bash" THEN 1 ELSE 0))
    BY DEF Answered
  <2> QED
    BY <1>1, <1>2, <2>1 DEF Answered, Silent
<1>4. Outputs'
  <2>1. mode # "print" => \A q \in Requests :
            task'[q] # "none" \/ (reader'.pc = "spawn" /\ reader'.on = q) => Told(Response(q), Len(out))
    BY DEF Silent, Outputs
  <2>2. \A i \in DOMAIN out : Over(out[i]) => task'[out[i].of] = "done"
    <3>1. \A i \in DOMAIN out : out[i].of \in Requests
      <4>1. \A i \in DOMAIN out : out[i] \in Notes
        BY ElementOfSeq, LenProperties
      <4> QED
        BY <4>1 DEF Notes
    <3> QED
      BY <1>1, <3>1 DEF Outputs
  <2>3. pipe' => \A q \in Requests :
            task'[q] = "done" => \E i \in DOMAIN out : out[i].of = q /\ Over(out[i])
    BY <1>1 DEF Outputs
  <2> QED
    BY <1>1, <2>1, <2>2, <2>3 DEF Outputs, Told
<1> QED
  BY <1>1, <1>2, <1>3, <1>4, InOrderThere

(* What a step of a prompt's task tells. *)
LEMMA TaskSteps ==
    ASSUME ControlTypes, Control, NEW r \in Requests
    PROVE  /\ Start(r) => \E e : Noted(r, e) /\ e.kind \in {"event", "error"}
           /\ Say(r) => Silent \/ \E e : Noted(r, e) /\ e.kind = "event"
           /\ Finish(r) => \E e : Noted(r, e) /\ (e.kind = "error" \/ (e.kind = "settled" /\ ~persistence))
<1> DEFINE N(kind) == [kind |-> kind, of |-> r]
<1>1. /\ \A kind \in {"event", "error", "settled"} :
            N(kind) \in Notes /\ N(kind).kind = kind /\ N(kind).kind # "response" /\ N(kind).of = r
      /\ ~Over(N("event")) /\ Over(N("error")) /\ Over(N("settled"))
  BY DEF Notes, Over
<1>2. \A kind : Tell(kind, r) => out' = IF pipe THEN Append(out, N(kind)) ELSE out
  BY DEF Tell
<1>3. ASSUME NEW x, task' = [task EXCEPT ![r] = x] 
      PROVE  task'[r] = x /\ \A q \in Requests : q # r => task'[q] = task[q]
  BY <1>3 DEF ControlTypes
<1> HIDE DEF N
<1>4. ASSUME Start(r) PROVE \E e : Noted(r, e) /\ e.kind \in {"event", "error"}
  <2>1. task[r] = "ready" /\ UNCHANGED <<mode, reader, lines, pipe>>
    BY <1>4 DEF Start
  <2>2. CASE Idle
    <3>1. task' = [task EXCEPT ![r] = "running"] /\ Tell("event", r)
      BY <1>4, <2>2 DEF Start
    <3>2. Noted(r, N("event"))
      BY <1>1, <1>2, <1>3, <2>1, <3>1 DEF Noted
    <3> QED
      BY <1>1, <3>2
  <2>3. CASE ~Idle
    <3>1. task' = [task EXCEPT ![r] = "done"] /\ Tell("error", r)
      BY <1>4, <2>3 DEF Start
    <3>2. Noted(r, N("error"))
      BY <1>1, <1>2, <1>3, <2>1, <3>1 DEF Noted
    <3> QED
      BY <1>1, <3>2
  <2> QED
    BY <2>2, <2>3
<1>5. ASSUME Say(r) PROVE Silent \/ \E e : Noted(r, e) /\ e.kind = "event"
  <2>1. running = r /\ UNCHANGED <<mode, reader, lines, pipe, task>>
    BY <1>5 DEF Say
  <2>2. task[r] = "running"
    BY <2>1 DEF Control
  <2>3. CASE Tell("event", r)
    <3>1. Noted(r, N("event"))
      BY <1>1, <1>2, <2>1, <2>2, <2>3 DEF Noted
    <3> QED
      BY <1>1, <3>1
  <2>4. CASE out' = out
    BY <2>1, <2>4 DEF Silent
  <2> QED
    BY <1>5, <2>3, <2>4 DEF Say
<1>6. ASSUME Finish(r)
      PROVE  \E e : Noted(r, e) /\ (e.kind = "error" \/ (e.kind = "settled" /\ ~persistence))
  <2>1. /\ running = r /\ task' = [task EXCEPT ![r] = "done"]
        /\ UNCHANGED <<mode, reader, lines, pipe>>
        /\ Tell(IF persistence THEN "error" ELSE "settled", r)
    BY <1>6 DEF Finish
  <2>2. task[r] = "running"
    BY <2>1 DEF Control
  <2>3. CASE persistence
    <3>1. Noted(r, N("error"))
      BY <1>1, <1>2, <1>3, <2>1, <2>2, <2>3 DEF Noted
    <3> QED
      BY <1>1, <3>1
  <2>4. CASE ~persistence
    <3>1. Noted(r, N("settled"))
      BY <1>1, <1>2, <1>3, <2>1, <2>2, <2>4 DEF Noted
    <3> QED
      BY <1>1, <2>4, <3>1
  <2> QED
    BY <2>3, <2>4
<1> QED
  BY <1>4, <1>5, <1>6

LEMMA QuietSteps ==
    ASSUME ControlTypes, Control,
           \/ Bash \/ Spawn \/ EndOfInput \/ Drain \/ Close
           \/ PrintPrompt \/ PrintReturned \/ PrintEnd \/ Hangup \/ UNCHANGED vars
    PROVE  Silent
<1>0. lines \in Nat
  BY RpcAssumption DEF ControlTypes
<1>1. CASE Bash
  <2>1. /\ reader.pc = "read" /\ lines' = lines + 1 /\ reader' = [pc |-> "bash", on |-> lines + 1]
        /\ UNCHANGED <<mode, task, out, pipe>>
    BY <1>1, ReadingIs DEF Bash, Goto
  <2>2. lines' - 1 = lines - 0
    BY <1>0, <2>1
  <2> QED
    BY <2>1, <2>2 DEF Silent
<1>2. CASE Spawn
  <2>1. /\ reader.pc = "spawn" /\ reader' = [pc |-> "read", on |-> 0]
        /\ task[reader.on] = "none" /\ reader.on \in Requests
        /\ task' = [task EXCEPT ![reader.on] = "ready"]
        /\ UNCHANGED <<mode, lines, out, pipe>>
    BY <1>2 DEF Spawn, Goto, Control
  <2>2. \A q \in Requests : task'[q] = IF q = reader.on THEN "ready" ELSE task[q]
    BY <2>1 DEF ControlTypes
  <2> QED
    BY <2>1, <2>2 DEF Silent
<1>3. CASE EndOfInput
  BY <1>3 DEF EndOfInput, Goto, Silent
<1>4. CASE Drain
  BY <1>4 DEF Drain, Goto, Silent
<1>5. CASE Close
  BY <1>5 DEF Close, Goto, Silent
<1>6. CASE PrintPrompt
  <2>1. /\ mode = "print" /\ lines < MaxLines /\ task' = [task EXCEPT ![lines + 1] = "ready"]
        /\ UNCHANGED <<mode, out, pipe>>
    BY <1>6 DEF PrintPrompt
  <2>2. lines + 1 > lines /\ lines + 1 \in Requests
    BY <1>0, <2>1, RpcAssumption DEF Requests
  <2>3. task[lines + 1] = "none"
    BY <2>2 DEF Control
  <2>4. \A q \in Requests : task'[q] = IF q = lines + 1 THEN "ready" ELSE task[q]
    BY <2>1 DEF ControlTypes
  <2> QED
    BY <2>1, <2>3, <2>4 DEF Silent
<1>7. CASE PrintReturned
  BY <1>7 DEF PrintReturned, Silent, Control
<1>8. CASE PrintEnd
  BY <1>8 DEF PrintEnd, Silent
<1>9. CASE Hangup
  BY <1>9 DEF Hangup, Silent
<1>10. CASE UNCHANGED vars
  BY <1>10 DEF vars, Silent
<1> QED
  BY <1>1, <1>2, <1>3, <1>4, <1>5, <1>6, <1>7, <1>8, <1>9, <1>10

LEMMA OutputsStep ==
    ASSUME ControlTypes, out \in Seq(Notes), Control, Outputs, InOrder, [Next]_vars
    PROVE  out' \in Seq(Notes) /\ Outputs' /\ InOrder'
<1>1. ASSUME NEW r \in Requests, Turned(r) PROVE out' \in Seq(Notes) /\ Outputs' /\ InOrder'
  BY <1>1, TurnedOutputs
<1>2. ASSUME Silent PROVE out' \in Seq(Notes) /\ Outputs' /\ InOrder'
  BY <1>2, SilentOutputs
<1>3. ASSUME NEW r \in Requests, NEW e, Noted(r, e)
      PROVE  out' \in Seq(Notes) /\ Outputs' /\ InOrder'
  <2>1. reader.pc = "spawn" => task[reader.on] = "none"
    BY DEF Control
  <2> QED
    BY <1>3, <2>1, NotedOutputs
<1>4. ASSUME NEW r \in Requests, Start(r) \/ Say(r) \/ Finish(r)
      PROVE  out' \in Seq(Notes) /\ Outputs' /\ InOrder'
  BY <1>2, <1>3, <1>4, TaskSteps
<1> QED
  BY <1>1, <1>2, <1>4, Turning, QuietSteps DEF Next

-----------------------------------------------------------------------------
(* Sessions and the model. *)

LEMMA CutTypes ==
    ASSUME NEW p \in Seq(Models \cup Said), NEW k \in Nat, k <= Len(p)
    PROVE  SubSeq(p, 1, k) \in Seq(Models \cup Said)
<1>1. \A i \in 1 .. k : p[i] \in Models \cup Said
  BY ElementOfSeq, LenProperties
<1> QED
  BY <1>1, SubSeqProperties

(* Steps other than the end of a message: no session loses its messages or gets another, the
   current one changes only while nothing runs, and one that is not created is empty. *)
Kept ==
    /\ stored' = stored /\ said' = said
    /\ sessions <= sessions' /\ (session' = session \/ running = 0)
    /\ \A s \in 1 .. MaxSessions : s > sessions' => path'[s] = <<>>
    /\ \A q \in Requests : task'[q] \in {"none", "ready"} => task[q] \in {"none", "ready"}
    /\ \A q \in Requests : running' = q => running = q \/ task[q] = "ready"

LEMMA SetModelKeeps ==
    ASSUME TypeOK, Stores, NEW m \in Models, SetModel(m)
    PROVE  StoreTypes' /\ SettingsInv' /\ Kept
<1>0. sessions \in 1 .. MaxSessions /\ session \in 1 .. sessions /\ session \in 1 .. MaxSessions
  BY RpcAssumption DEF TypeOK, StoreTypes
<1>1. /\ running = 0 /\ model' = m
      /\ UNCHANGED <<session, sessions, stored, said, task, running>>
      /\ \/ path' = [path EXCEPT ![session] = Append(@, m)] /\ torn' = FALSE
         \/ path' = path /\ torn' = TRUE
  BY DEF SetModel, Idle, agent
<1>2. path[session] \in Seq(Models \cup Said) /\ Append(path[session], m) \in Seq(Models \cup Said)
  BY <1>0, Appended DEF TypeOK, StoreTypes
<1>3. path' \in [1 .. MaxSessions -> Seq(Models \cup Said)]
  BY <1>1, <1>2 DEF TypeOK, StoreTypes
<1>4. StoreTypes'
  BY <1>1, <1>3 DEF TypeOK, StoreTypes
<1>5. SettingsInv'
  <2>1. CASE path' = path /\ torn' = TRUE
    BY <2>1 DEF SettingsInv
  <2>2. CASE path' = [path EXCEPT ![session] = Append(@, m)]
    <3>1. path'[session] = Append(path[session], m)
      BY <1>0, <2>2 DEF TypeOK, StoreTypes
    <3>2. Leaves(path'[session'], model')
      BY <1>1, <1>2, <3>1, LeavesChange
    <3> QED
      BY <3>2 DEF SettingsInv, Leaves, ModelChanges
  <2> QED
    BY <1>1, <2>1, <2>2
<1>6. \A s \in 1 .. MaxSessions : s > sessions' => path'[s] = <<>>
  <2>1. \A s \in 1 .. MaxSessions : s > sessions => s # session /\ path[s] = <<>>
    BY <1>0 DEF Stores
  <2>2. \A s \in 1 .. MaxSessions : s # session => path'[s] = path[s]
    BY <1>1 DEF TypeOK, StoreTypes
  <2> QED
    BY <1>1, <2>1, <2>2
<1> QED
  BY <1>0, <1>1, <1>4, <1>5, <1>6 DEF Kept

LEMMA NewSessionKeeps ==
    ASSUME TypeOK, Stores, NewSession
    PROVE  StoreTypes' /\ SettingsInv' /\ Kept
<1>0. /\ sessions \in 1 .. MaxSessions /\ sessions + 1 \in 1 .. MaxSessions
      /\ MaxSessions \in Nat /\ model \in Models
  BY RpcAssumption DEF TypeOK, StoreTypes, NewSession
<1>1. /\ running = 0 /\ sessions' = sessions + 1 /\ session' = sessions + 1 /\ torn' = FALSE
      /\ path' = [path EXCEPT ![sessions + 1] = <<model>>] \/ path' = path
      /\ UNCHANGED <<model, stored, said, task, running>>
  BY DEF NewSession, Idle, agent
<1>2. <<model>> \in Seq(Models \cup Said)
  BY <1>0
<1>3. path' \in [1 .. MaxSessions -> Seq(Models \cup Said)]
  BY <1>1, <1>2 DEF TypeOK, StoreTypes
<1>4. StoreTypes'
  <2>1. sessions' \in 1 .. MaxSessions /\ session' \in 1 .. sessions'
    BY <1>0, <1>1
  <2> QED
    BY <1>1, <1>3, <2>1 DEF TypeOK, StoreTypes
<1>5. SettingsInv'
  <2>1. path'[sessions + 1] = <<model>> \/ path'[sessions + 1] = <<>>
    <3>1. sessions + 1 > sessions
      BY <1>0
    <3>2. path[sessions + 1] = <<>>
      BY <1>0, <3>1 DEF Stores
    <3> QED
      BY <1>0, <1>1, <3>2 DEF TypeOK, StoreTypes
  <2>2. Leaves(<<model>>, model)
    <3>1. Append(<<>>, model) = <<model>> /\ <<>> \in Seq(Models \cup Said)
      OBVIOUS
    <3> QED
      BY <1>0, <3>1, LeavesChange
  <2>3. Leaves(path'[session'], model')
    BY <1>1, <2>1, <2>2, LeavesNothing
  <2> QED
    BY <2>3 DEF SettingsInv, Leaves, ModelChanges
<1>6. \A s \in 1 .. MaxSessions : s > sessions' => path'[s] = <<>>
  <2>1. \A s \in 1 .. MaxSessions : s > sessions + 1 => s # sessions + 1 /\ path[s] = <<>>
    BY <1>0 DEF Stores
  <2>2. \A s \in 1 .. MaxSessions : s # sessions + 1 => path'[s] = path[s]
    BY <1>1 DEF TypeOK, StoreTypes
  <2> QED
    BY <1>1, <2>1, <2>2
<1>7. sessions <= sessions'
  BY <1>0, <1>1
<1> QED
  BY <1>1, <1>4, <1>5, <1>6, <1>7 DEF Kept

LEMMA SwitchSessionKeeps ==
    ASSUME TypeOK, Stores, NEW s \in 1 .. MaxSessions, SwitchSession(s)
    PROVE  StoreTypes' /\ SettingsInv' /\ Kept
<1>0. sessions \in 1 .. MaxSessions /\ path[s] \in Seq(Models \cup Said) /\ model \in Models
  BY DEF TypeOK, StoreTypes
<1>1. /\ running = 0 /\ s <= sessions /\ session' = s /\ model' = Restored(path[s]) /\ torn' = FALSE
      /\ UNCHANGED <<path, sessions, stored, said, task, running>>
  BY DEF SwitchSession, Idle, agent
<1>2. Restored(path[s]) \in Models /\ Leaves(path[s], Restored(path[s]))
  BY <1>0, LeavesRestored
<1>3. session' \in 1 .. sessions
  BY <1>0, <1>1
<1>4. StoreTypes'
  BY <1>1, <1>2, <1>3 DEF TypeOK, StoreTypes
<1>5. Leaves(path'[session'], model')
  BY <1>1, <1>2
<1>6. SettingsInv'
  BY <1>5 DEF SettingsInv, Leaves, ModelChanges
<1> QED
  BY <1>0, <1>1, <1>4, <1>6 DEF Kept, Stores

LEMMA ForkKeeps ==
    ASSUME TypeOK, Stores, NEW k \in Nat, Fork(k)
    PROVE  StoreTypes' /\ SettingsInv' /\ Kept
<1>0. /\ sessions \in 1 .. MaxSessions /\ session \in 1 .. sessions /\ session \in 1 .. MaxSessions
      /\ path[session] \in Seq(Models \cup Said) /\ model \in Models
  BY RpcAssumption DEF TypeOK, StoreTypes
<1> DEFINE p == SubSeq(path[session], 1, k)
<1>1. /\ running = 0 /\ k <= Len(path[session])
      /\ path' = [path EXCEPT ![session] = p] /\ model' = Restored(p) /\ torn' = FALSE
      /\ UNCHANGED <<session, sessions, stored, said, task, running>>
  BY DEF Fork, Idle, agent
<1>2. p \in Seq(Models \cup Said)
  BY <1>0, <1>1, CutTypes
<1> HIDE DEF p
<1>3. Restored(p) \in Models /\ Leaves(p, Restored(p))
  BY <1>0, <1>2, LeavesRestored
<1>4. path' \in [1 .. MaxSessions -> Seq(Models \cup Said)] /\ path'[session] = p
  BY <1>0, <1>1, <1>2 DEF TypeOK, StoreTypes
<1>5. StoreTypes'
  BY <1>1, <1>3, <1>4 DEF TypeOK, StoreTypes
<1>6. Leaves(path'[session'], model')
  BY <1>1, <1>3, <1>4
<1>7. SettingsInv'
  BY <1>6 DEF SettingsInv, Leaves, ModelChanges
<1>8. \A s \in 1 .. MaxSessions : s > sessions' => path'[s] = <<>>
  <2>1. \A s \in 1 .. MaxSessions : s > sessions => s # session /\ path[s] = <<>>
    BY <1>0 DEF Stores
  <2>2. \A s \in 1 .. MaxSessions : s # session => path'[s] = path[s]
    BY <1>1 DEF TypeOK, StoreTypes
  <2> QED
    BY <1>1, <2>1, <2>2
<1> QED
  BY <1>0, <1>1, <1>5, <1>7, <1>8 DEF Kept

(* The other steps leave the sessions alone. *)
LEMMA OthersKeep ==
    ASSUME TypeOK, Control, Stores, SettingsInv,
           \/ Answer \/ Bash \/ BashDone \/ Accept \/ Spawn \/ Abort \/ Shutdown
           \/ EndOfInput \/ Drain \/ Close \/ PrintPrompt \/ PrintReturned \/ PrintEnd
           \/ \E r \in Requests : Start(r) \/ Finish(r)
           \/ Hangup \/ UNCHANGED vars
    PROVE  StoreTypes' /\ SettingsInv' /\ Kept
<1>1. UNCHANGED <<settings, stored, said>>
  <2>1. ASSUME Answer \/ Bash \/ BashDone \/ Accept \/ Spawn \/ Abort \/ Shutdown
        PROVE  UNCHANGED <<settings, stored, said>>
    BY <2>1 DEF Answer, Bash, BashDone, Accept, Spawn, Abort, Shutdown, agent
  <2>2. ASSUME EndOfInput \/ Drain \/ Close \/ PrintPrompt \/ PrintReturned \/ PrintEnd
        PROVE  UNCHANGED <<settings, stored, said>>
    BY <2>2 DEF EndOfInput, Drain, Close, PrintPrompt, PrintReturned, PrintEnd, agent
  <2>3. ASSUME NEW r \in Requests, Start(r) \/ Finish(r)
        PROVE  UNCHANGED <<settings, stored, said>>
    BY <2>3 DEF Start, Finish
  <2>4. ASSUME Hangup \/ UNCHANGED vars
        PROVE  UNCHANGED <<settings, stored, said>>
    BY <2>4 DEF Hangup, vars, agent, settings
  <2> QED
    BY <2>1, <2>2, <2>3, <2>4
<1>2. session' = session /\ sessions' = sessions /\ path' = path /\ model' = model /\ torn' = torn
      /\ stored' = stored /\ said' = said
  BY <1>1 DEF settings
<1>3. StoreTypes'
  BY <1>2 DEF TypeOK, StoreTypes
<1>4. SettingsInv'
  BY <1>2 DEF SettingsInv, Leaves, ModelChanges
<1>5. /\ \A q \in Requests : task'[q] \in {"none", "ready"} => task[q] \in {"none", "ready"}
      /\ \A q \in Requests : running' = q => running = q \/ task[q] = "ready"
  <2>1. ASSUME NEW r \in Requests, Start(r)
        PROVE  /\ \A q \in Requests : q # r => task'[q] = task[q]
               /\ task[r] = "ready" /\ (running' = r \/ running' = running)
    BY <2>1 DEF Start, TypeOK, ControlTypes
  <2>2. ASSUME NEW r \in Requests, Finish(r)
        PROVE  \A q \in Requests : task'[q] = (IF q = r THEN "done" ELSE task[q]) /\ running' # q
    <3>1. \A q \in Requests : q # 0
      BY DEF Requests
    <3> QED
      BY <2>2, <3>1 DEF Finish, TypeOK, ControlTypes
  <2>3. ASSUME Spawn
        PROVE  /\ \A q \in Requests : q # reader.on => task'[q] = task[q]
               /\ task[reader.on] = "none" /\ running' = running
    BY <2>3 DEF Spawn, Control, TypeOK, ControlTypes, agent
  <2>4. ASSUME PrintPrompt
        PROVE  /\ \A q \in Requests : q # lines + 1 => task'[q] = task[q]
               /\ task[lines + 1] = "none" /\ running' = running
    <3>1. lines < MaxLines /\ task' = [task EXCEPT ![lines + 1] = "ready"] /\ running' = running
      BY <2>4 DEF PrintPrompt, agent
    <3>2. lines + 1 \in Requests /\ lines + 1 > lines
      BY <3>1, RpcAssumption DEF TypeOK, ControlTypes, Requests
    <3> QED
      BY <3>1, <3>2 DEF Control, TypeOK, ControlTypes
  <2>5. ASSUME \/ Answer \/ Bash \/ BashDone \/ Accept \/ Abort \/ Shutdown
               \/ EndOfInput \/ Drain \/ Close \/ PrintReturned \/ PrintEnd \/ Hangup \/ UNCHANGED vars
        PROVE  task' = task /\ running' = running
    BY <2>5 DEF Answer, Bash, BashDone, Accept, Abort, Shutdown, EndOfInput, Drain, Close, PrintReturned,
                PrintEnd, Hangup, vars, agent
  <2>6. CASE \E r \in Requests : Start(r)
    BY <2>1, <2>6
  <2>7. CASE \E r \in Requests : Finish(r)
    BY <2>2, <2>7
  <2>8. CASE Spawn
    BY <2>3, <2>8
  <2>9. CASE PrintPrompt
    BY <2>4, <2>9
  <2> QED
    BY <2>5, <2>6, <2>7, <2>8, <2>9
<1>6. sessions <= sessions'
  BY <1>2 DEF TypeOK, StoreTypes
<1> QED
  BY <1>2, <1>3, <1>4, <1>5, <1>6 DEF Kept, Stores

(* The end of a message of the run r. *)
LEMMA SayStores ==
    ASSUME TypeOK, Control, Stores, SettingsInv, NEW r \in Requests, Say(r)
    PROVE  /\ task' = task /\ running' = running /\ running = r /\ task[r] = "running"
           /\ sessions' = sessions /\ session' = session
           /\ \A q \in Requests : q # r => said'[q] = said[q]
           /\ \A s \in 1 .. MaxSessions : stored[s] \subseteq stored'[s]
           /\ \A s \in 1 .. MaxSessions : s # session => stored'[s] = stored[s]
           /\ \A e \in stored'[session] : e \in stored[session] \/ e[1] = r
           /\ <<r, said'[r]>> \in stored'[session] \/ persistence'
           /\ said'[r] = said[r] + 1
           /\ persistence => persistence'
           /\ StoreTypes' /\ SettingsInv'
           /\ \A s \in 1 .. MaxSessions : s # session => path'[s] = path[s]
<1>0. /\ sessions \in 1 .. MaxSessions /\ session \in 1 .. sessions /\ session \in 1 .. MaxSessions
      /\ path[session] \in Seq(Models \cup Said) /\ stored[session] \in SUBSET Said
  BY RpcAssumption DEF TypeOK, StoreTypes
<1>1. /\ running = r /\ said[r] < Messages /\ said' = [said EXCEPT ![r] = @ + 1]
      /\ UNCHANGED <<session, sessions, model, torn, task, running>>
  BY DEF Say
<1>2. task[r] = "running"
  BY <1>1 DEF Control
<1>3. said'[r] = said[r] + 1 /\ \A q \in Requests : q # r => said'[q] = said[q]
  BY <1>1 DEF TypeOK, ControlTypes
<1>4. PICK e : e = <<r, said'[r]>>
  OBVIOUS
<1>5. e \in Said /\ e[1] = r
  <2>1. said[r] \in 0 .. Messages /\ said[r] + 1 \in 1 .. Messages
    BY <1>1 DEF TypeOK, ControlTypes, Messages
  <2> QED
    BY <1>3, <1>4, <2>1 DEF Said
<1>6. CASE /\ path' = [path EXCEPT ![session] = Append(@, e)]
           /\ stored' = [stored EXCEPT ![session] = @ \cup {e}]
           /\ persistence' = (persistence \/ ~pipe)
  <2>1. /\ stored' \in [1 .. MaxSessions -> SUBSET Said]
        /\ stored'[session] = stored[session] \cup {e}
        /\ \A s \in 1 .. MaxSessions : s # session => stored'[s] = stored[s]
    BY <1>0, <1>5, <1>6 DEF TypeOK, StoreTypes
  <2>2. Append(path[session], e) \in Seq(Models \cup Said)
    BY <1>0, <1>5, Appended
  <2>3. /\ path' \in [1 .. MaxSessions -> Seq(Models \cup Said)]
        /\ path'[session] = Append(path[session], e)
        /\ \A s \in 1 .. MaxSessions : s # session => path'[s] = path[s]
    BY <1>0, <1>6, <2>2 DEF TypeOK, StoreTypes
  <2>4. StoreTypes'
    BY <1>1, <2>1, <2>3 DEF TypeOK, StoreTypes
  <2>5. SettingsInv'
    <3>1. ASSUME Leaves(path[session], model) PROVE Leaves(path'[session'], model')
      BY <1>0, <1>1, <1>5, <2>3, <3>1, LeavesMessage
    <3> QED
      BY <1>1, <3>1 DEF SettingsInv, Leaves, ModelChanges
  <2>6. persistence => persistence'
    BY <1>6
  <2>7. \A s \in 1 .. MaxSessions : stored[s] \subseteq stored'[s]
    BY <2>1
  <2>8. \A f \in stored'[session] : f \in stored[session] \/ f[1] = r
    BY <1>5, <2>1
  <2> QED
    BY <1>1, <1>2, <1>3, <1>4, <2>1, <2>3, <2>4, <2>5, <2>6, <2>7, <2>8
<1>7. CASE persistence' = TRUE /\ UNCHANGED <<path, stored>>
  <2>1. StoreTypes'
    BY <1>1, <1>7 DEF TypeOK, StoreTypes
  <2>2. SettingsInv'
    BY <1>1, <1>7 DEF SettingsInv, Leaves, ModelChanges
  <2> QED
    BY <1>1, <1>2, <1>3, <1>7, <2>1, <2>2
<1> QED
  BY <1>4, <1>6, <1>7 DEF Say

LEMMA KeptStores ==
    ASSUME TypeOK, Stores, StoreTypes', Kept
    PROVE  Stores'
<1>0. /\ \A s \in 1 .. MaxSessions : s > sessions' => s > sessions
      /\ \A q \in Requests : running # 0 \/ running # q
  BY RpcAssumption DEF TypeOK, StoreTypes, Kept, Requests
<1>1. \A q \in Requests : task'[q] \in {"none", "ready"} =>
            said'[q] = 0 /\ \A s \in 1 .. MaxSessions, k \in 1 .. Messages : <<q, k>> \notin stored'[s]
  BY DEF Kept, Stores
<1>2. ASSUME NEW q \in Requests, running' = q
      PROVE  \A s \in 1 .. MaxSessions, k \in 1 .. Messages : s # session' => <<q, k>> \notin stored'[s]
  <2>1. CASE task[q] = "ready"
    BY <2>1 DEF Kept, Stores
  <2>2. CASE running = q
    BY <1>0, <2>2 DEF Kept, Stores
  <2> QED
    BY <1>2, <2>1, <2>2 DEF Kept
<1>3. \A s \in 1 .. MaxSessions : s > sessions' => stored'[s] = {} /\ path'[s] = <<>>
  BY <1>0 DEF Kept, Stores
<1>4. \A s, u \in 1 .. MaxSessions : \A e \in stored'[s], f \in stored'[u] : e[1] = f[1] => s = u
  BY DEF Kept, Stores
<1> QED
  BY <1>1, <1>2, <1>3, <1>4 DEF Stores

LEMMA SayKeepsStores ==
    ASSUME TypeOK, Control, Stores, SettingsInv, NEW r \in Requests, Say(r)
    PROVE  Stores'
<1>1. /\ task' = task /\ running' = running /\ running = r /\ task[r] = "running"
      /\ sessions' = sessions /\ session' = session
      /\ \A q \in Requests : q # r => said'[q] = said[q]
      /\ \A s \in 1 .. MaxSessions : s # session => stored'[s] = stored[s]
      /\ \A e \in stored'[session] : e \in stored[session] \/ e[1] = r
      /\ \A s \in 1 .. MaxSessions : s # session => path'[s] = path[s]
  BY SayStores
<1>2. \A s \in 1 .. MaxSessions : \A e \in stored[s] : e \in Said
  BY DEF TypeOK, StoreTypes
<1>3. session \in 1 .. sessions /\ sessions \in 1 .. MaxSessions
  BY DEF TypeOK, StoreTypes
<1>4. \A s \in 1 .. MaxSessions : \A e \in stored'[s] : e \in stored[s] \/ (e[1] = r /\ s = session)
  BY <1>1
<1>5. \A s \in 1 .. MaxSessions : s # session => \A e \in stored[s] : e[1] # r
  <2>1. \A e \in Said : e[1] = r => \E k \in 1 .. Messages : e = <<r, k>>
    BY DEF Said
  <2> QED
    BY <1>1, <1>2, <2>1 DEF Stores
<1>6. \A q \in Requests : task'[q] \in {"none", "ready"} =>
            said'[q] = 0 /\ \A s \in 1 .. MaxSessions, k \in 1 .. Messages : <<q, k>> \notin stored'[s]
  <2>1. \A q \in Requests : \A k \in 1 .. Messages : <<q, k>>[1] = q
    OBVIOUS
  <2>2. \A q \in Requests : task[q] \in {"none", "ready"} => q # r
    BY <1>1
  <2> QED
    BY <1>1, <1>4, <2>1, <2>2 DEF Stores
<1>7. \A q \in Requests : running' = q =>
            \A s \in 1 .. MaxSessions, k \in 1 .. Messages : s # session' => <<q, k>> \notin stored'[s]
  BY <1>1 DEF Stores
<1>8. \A s \in 1 .. MaxSessions : s > sessions' => stored'[s] = {} /\ path'[s] = <<>>
  <2>1. \A s \in 1 .. MaxSessions : s > sessions => s # session
    BY <1>3
  <2> QED
    BY <1>1, <2>1 DEF Stores
<1>9. \A s, u \in 1 .. MaxSessions : \A e \in stored'[s], f \in stored'[u] : e[1] = f[1] => s = u
  <2>1. SUFFICES ASSUME NEW s \in 1 .. MaxSessions, NEW u \in 1 .. MaxSessions,
                        NEW e \in stored'[s], NEW f \in stored'[u], e[1] = f[1]
                 PROVE  s = u
    OBVIOUS
  <2>2. CASE e \in stored[s] /\ f \in stored[u]
    BY <2>1, <2>2 DEF Stores
  <2>3. CASE e[1] = r /\ s = session /\ f \in stored[u]
    BY <1>5, <2>1, <2>3
  <2>4. CASE f[1] = r /\ u = session /\ e \in stored[s]
    BY <1>5, <2>1, <2>4
  <2> QED
    BY <1>4, <2>2, <2>3, <2>4
<1> QED
  BY <1>6, <1>7, <1>8, <1>9 DEF Stores

LEMMA StoresStep ==
    ASSUME TypeOK, Control, Stores, SettingsInv, [Next]_vars
    PROVE  /\ StoreTypes' /\ SettingsInv' /\ Stores'
           /\ Kept \/ \E r \in Requests : Say(r)
<1>1. ASSUME StoreTypes' /\ SettingsInv' /\ Kept
      PROVE  /\ StoreTypes' /\ SettingsInv' /\ Stores'
             /\ Kept \/ \E r \in Requests : Say(r)
  BY <1>1, KeptStores
<1>2. ASSUME NEW r \in Requests, Say(r) PROVE StoreTypes' /\ SettingsInv' /\ Stores'
  BY <1>2, SayStores, SayKeepsStores
<1>3. CASE \E m \in Models : SetModel(m)
  BY <1>1, <1>3, SetModelKeeps
<1>4. CASE NewSession
  BY <1>1, <1>4, NewSessionKeeps
<1>5. CASE \E s \in 1 .. MaxSessions : SwitchSession(s)
  BY <1>1, <1>5, SwitchSessionKeeps
<1>6. CASE \E k \in 0 .. MaxLines + Messages * MaxLines : Fork(k)
  <2>1. \A k \in 0 .. MaxLines + Messages * MaxLines : k \in Nat
    OBVIOUS
  <2> QED
    BY <1>1, <1>6, <2>1, ForkKeeps
<1>7. CASE \E r \in Requests : Say(r)
  BY <1>2, <1>7
<1>8. CASE \/ Answer \/ Bash \/ BashDone \/ Accept \/ Spawn \/ Abort \/ Shutdown
           \/ EndOfInput \/ Drain \/ Close \/ PrintPrompt \/ PrintReturned \/ PrintEnd
           \/ \E r \in Requests : Start(r) \/ Finish(r)
           \/ Hangup \/ UNCHANGED vars
  BY <1>1, <1>8, OthersKeep
<1> QED
  BY <1>3, <1>4, <1>5, <1>6, <1>7, <1>8 DEF Next

-----------------------------------------------------------------------------
(* The outcomes. *)

LEMMA KeptStored ==
    ASSUME TypeOK, StoreTypes', Kept, NEW q \in Requests, AllStored(q)
    PROVE  AllStored(q)'
<1>1. \A s \in 1 .. sessions : s \in 1 .. sessions'
  BY DEF TypeOK, StoreTypes, Kept
<1> QED
  BY <1>1 DEF AllStored, Kept

LEMMA SayStored ==
    ASSUME TypeOK, Control, Stores, SettingsInv, NEW r \in Requests, Say(r),
           NEW q \in Requests, AllStored(q), q # r \/ ~persistence'
    PROVE  AllStored(q)'
<1>1. /\ sessions' = sessions
      /\ \A p \in Requests : p # r => said'[p] = said[p]
      /\ \A s \in 1 .. MaxSessions : stored[s] \subseteq stored'[s]
      /\ <<r, said'[r]>> \in stored'[session] \/ persistence'
      /\ said'[r] = said[r] + 1
  BY SayStores
<1>2. sessions \in 1 .. MaxSessions /\ session \in 1 .. sessions /\ said[r] \in 0 .. Messages
  BY DEF TypeOK, StoreTypes, ControlTypes
<1>3. \A s \in 1 .. sessions : s \in 1 .. MaxSessions
  BY <1>2, RpcAssumption
<1>4. CASE q # r
  BY <1>1, <1>3, <1>4 DEF AllStored
<1>5. CASE q = r /\ ~persistence'
  <2>1. \A k \in 1 .. said[r] + 1 : k \in 1 .. said[r] \/ k = said[r] + 1
    BY <1>2 DEF Messages
  <2>2. \A k \in 1 .. said[r] : \E s \in 1 .. sessions : <<r, k>> \in stored'[s]
    BY <1>1, <1>3, <1>5 DEF AllStored
  <2>3. <<r, said[r] + 1>> \in stored'[session]
    BY <1>1, <1>5
  <2>4. \A k \in 1 .. said[r] + 1 : \E s \in 1 .. sessions : <<r, k>> \in stored'[s]
    BY <1>2, <2>1, <2>2, <2>3
  <2> QED
    BY <1>1, <1>5, <2>4 DEF AllStored
<1> QED
  BY <1>4, <1>5

(* The prompts of print mode that have to be settled. *)
Passed(q) == q < lines \/ (q <= lines /\ (reader.pc = "read" \/ exit = 0))

LEMMA SayOutcomes ==
    ASSUME TypeOK, Control, Outputs, Outcomes, Stores, SettingsInv, NEW r \in Requests, Say(r)
    PROVE  Outcomes'
<1>1. /\ running' = running /\ running = r /\ task[r] = "running"
      /\ persistence => persistence'
  BY SayStores
<1>2. ASSUME NEW q \in Requests, running' = q, ~persistence' PROVE AllStored(q)'
  BY <1>1, <1>2, SayStored DEF Outcomes
<1>3. ASSUME NEW i \in DOMAIN out', out'[i].kind = "settled" PROVE AllStored(out[i].of)'
  <2>1. i \in DOMAIN out /\ out'[i] = out[i]
    <3>1. CASE out' = out
      BY <3>1
    <3>2. CASE out' = Append(out, [kind |-> "event", of |-> r])
      <4>1. [kind |-> "event", of |-> r] \in Notes
        BY DEF Notes
      <4>2. /\ Len(out) \in Nat /\ DOMAIN out = 1 .. Len(out) /\ DOMAIN out' = 1 .. Len(out) + 1
            /\ \A j \in 1 .. Len(out) : out'[j] = out[j]
            /\ out'[Len(out) + 1] = [kind |-> "event", of |-> r]
        BY <3>2, <4>1, Appended DEF TypeOK
      <4>3. i # Len(out) + 1
        BY <1>3, <4>2
      <4> QED
        BY <4>2, <4>3
    <3> QED
      BY <3>1, <3>2 DEF Say, Tell
  <2>2. out[i].of \in Requests
    <3>1. out[i] \in Notes
      BY <2>1, ElementOfSeq, LenProperties DEF TypeOK
    <3> QED
      BY <3>1 DEF Notes
  <2>3. AllStored(out[i].of) /\ task[out[i].of] = "done"
    BY <1>3, <2>1 DEF Outcomes, Outputs, Over
  <2>4. PICK q \in Requests : q = out[i].of
    BY <2>2
  <2>5. AllStored(q)'
    BY <1>1, <2>3, <2>4, SayStored
  <2>6. out'[i].of = q
    BY <2>1, <2>4
  <2> QED
    BY <2>5, <2>6 DEF AllStored
<1>4. ASSUME mode' = "print", NEW q \in Requests, Passed(q)' PROVE AllStored(q)'
  <2>1. mode = "print" /\ Passed(q)
    BY <1>4 DEF Say, Passed
  <2>2. AllStored(q) /\ task[q] # "running"
    BY <2>1 DEF Passed, Outcomes, Control
  <2> QED
    BY <1>1, <2>2, SayStored
<1> QED
  BY <1>2, <1>3, <1>4 DEF Outcomes, Passed

(* Steps other than the end of a message: a run begins without a failure, is settled if it
   had none, and print mode goes on after a prompt that is settled. *)
Reported ==
    /\ \A q \in Requests : running' = q /\ ~persistence' =>
            (running = q /\ ~persistence) \/ task[q] = "ready"
    /\ \A i \in DOMAIN out' : out'[i].kind = "settled" =>
            (i \in DOMAIN out /\ out'[i] = out[i])
            \/ (out'[i].of \in Requests /\ out'[i].of = running /\ ~persistence)
    /\ mode' = "print" => \A q \in Requests : Passed(q)' =>
            (Passed(q) /\ mode = "print") \/ \E i \in DOMAIN out : out[i].kind = "settled" /\ out[i].of = q

LEMMA ReportedOutcomes ==
    ASSUME TypeOK, StoreTypes', Stores, Outcomes, Kept, Reported
    PROVE  Outcomes'
<1>1. \A q \in Requests : AllStored(q) => AllStored(q)'
  BY KeptStored
<1>2. \A q \in Requests : task[q] = "ready" => AllStored(q)
  <2>1. \A q \in Requests : task[q] = "ready" => 1 .. said[q] = {}
    BY DEF Stores
  <2> QED
    BY <2>1 DEF AllStored
<1>3. \A q \in Requests : running' = q /\ ~persistence' => AllStored(q)'
  BY <1>1, <1>2 DEF Reported, Outcomes
<1>4. ASSUME NEW i \in DOMAIN out', out'[i].kind = "settled" PROVE AllStored(out[i].of)'
  <2>1. PICK q : q = out'[i].of
    OBVIOUS
  <2>2. q \in Requests /\ AllStored(q)
    <3>1. CASE i \in DOMAIN out /\ out'[i] = out[i]
      <4>1. out[i] \in Notes
        BY <3>1, ElementOfSeq, LenProperties DEF TypeOK
      <4> QED
        BY <1>4, <2>1, <3>1, <4>1 DEF Outcomes, Notes
    <3>2. CASE out'[i].of \in Requests /\ out'[i].of = running /\ ~persistence
      BY <2>1, <3>2 DEF Outcomes
    <3> QED
      BY <1>4, <3>1, <3>2 DEF Reported
  <2>3. AllStored(q)'
    BY <1>1, <2>2
  <2> QED
    BY <2>1, <2>3 DEF AllStored
<1>5. ASSUME mode' = "print", NEW q \in Requests, Passed(q)' PROVE AllStored(q)'
  <2>1. AllStored(q)
    BY <1>5 DEF Reported, Outcomes, Passed
  <2> QED
    BY <1>1, <2>1
<1> QED
  BY <1>3, <1>4, <1>5 DEF Outcomes, Passed

LEMMA NotedReports ==
    ASSUME TypeOK, NEW e \in Notes, out' = IF pipe THEN Append(out, e) ELSE out,
           e.kind = "settled" => e.of = running /\ ~persistence
    PROVE  \A i \in DOMAIN out' : out'[i].kind = "settled" =>
            (i \in DOMAIN out /\ out'[i] = out[i])
            \/ (out'[i].of \in Requests /\ out'[i].of = running /\ ~persistence)
<1>1. CASE ~pipe
  BY <1>1
<1>2. CASE pipe
  <2>1. /\ Len(out) \in Nat /\ DOMAIN out = 1 .. Len(out) /\ DOMAIN out' = 1 .. Len(out) + 1
        /\ \A i \in 1 .. Len(out) : out'[i] = out[i]
        /\ out'[Len(out) + 1] = e
    BY <1>2, Appended DEF TypeOK
  <2>2. e.of \in Requests
    BY DEF Notes
  <2>3. \A i \in 1 .. Len(out) + 1 : i \in 1 .. Len(out) \/ i = Len(out) + 1
    BY <2>1
  <2> QED
    BY <2>1, <2>2, <2>3
<1> QED
  BY <1>1, <1>2

LEMMA TurnedReports ==
    ASSUME TypeOK, NEW r \in Requests, Turned(r)
    PROVE  Reported
<1>1. /\ mode' # "print" /\ running' = running /\ persistence' = persistence
      /\ out' = IF pipe THEN Append(out, Response(r)) ELSE out
  BY DEF Turned
<1>2. Response(r) \in Notes /\ Response(r).kind # "settled"
  BY ResponseIs
<1> QED
  BY <1>1, <1>2, NotedReports DEF Reported

LEMMA TaskReports ==
    ASSUME TypeOK, Control, NEW r \in Requests, Start(r) \/ Finish(r)
    PROVE  Reported
<1>1. UNCHANGED <<mode, reader, lines, exit>> /\ r # 0 /\ \A q \in Requests : q # 0
  BY DEF Start, Finish, Requests
<1>2. \A q \in Requests : running' = q /\ ~persistence' =>
            (running = q /\ ~persistence) \/ task[q] = "ready"
  BY <1>1 DEF Start, Finish
<1>3. PICK e : Noted(r, e) /\ (e.kind = "settled" => e.of = running /\ ~persistence)
  <2>1. CASE Start(r)
    BY <2>1, TaskSteps DEF TypeOK
  <2>2. CASE Finish(r)
    <3>1. PICK e : Noted(r, e) /\ (e.kind = "error" \/ (e.kind = "settled" /\ ~persistence))
      BY <2>2, TaskSteps DEF TypeOK
    <3>2. running = r /\ e.of = r
      BY <2>2, <3>1 DEF Finish, Noted
    <3> QED
      BY <3>1, <3>2
  <2> QED
    BY <2>1, <2>2
<1>4. \A i \in DOMAIN out' : out'[i].kind = "settled" =>
            (i \in DOMAIN out /\ out'[i] = out[i])
            \/ (out'[i].of \in Requests /\ out'[i].of = running /\ ~persistence)
  BY <1>3, NotedReports DEF Noted
<1>5. mode' = "print" => \A q \in Requests : Passed(q)' => Passed(q) /\ mode = "print"
  BY <1>1 DEF Passed
<1> QED
  BY <1>2, <1>4, <1>5 DEF Reported

LEMMA QuietReports ==
    ASSUME TypeOK, Control, Outputs,
           \/ Bash \/ Spawn \/ EndOfInput \/ Drain \/ Close
           \/ PrintPrompt \/ PrintReturned \/ PrintEnd \/ Hangup \/ UNCHANGED vars
    PROVE  Reported
<1>0. lines \in Nat /\ \A q \in Requests : q \in Nat
  BY RpcAssumption DEF TypeOK, ControlTypes, Requests
<1>1. UNCHANGED <<mode, running, persistence, out>>
  <2>1. ASSUME Bash \/ Spawn \/ EndOfInput \/ Drain \/ Close
        PROVE  UNCHANGED <<mode, running, persistence, out>>
    BY <2>1 DEF Bash, Spawn, EndOfInput, Drain, Close, agent
  <2>2. ASSUME PrintPrompt \/ PrintReturned \/ PrintEnd \/ Hangup \/ UNCHANGED vars
        PROVE  UNCHANGED <<mode, running, persistence, out>>
    BY <2>2 DEF PrintPrompt, PrintReturned, PrintEnd, Hangup, vars, agent
  <2> QED
    BY <2>1, <2>2
<1>2. SUFFICES ASSUME mode = "print", NEW q \in Requests, Passed(q)'
               PROVE  Passed(q) \/ \E i \in DOMAIN out : out[i].kind = "settled" /\ out[i].of = q
  BY <1>1 DEF Reported
<1>3. CASE Bash \/ Spawn \/ EndOfInput \/ Drain \/ Close
  BY <1>2, <1>3 DEF Bash, Reading, Spawn, EndOfInput, Drain, Close, Control
<1>4. CASE PrintPrompt
  <2>1. /\ reader.pc = "read" /\ lines' = lines + 1 /\ reader'.pc = "wait" /\ exit' = exit /\ exit = 2
    BY <1>4 DEF PrintPrompt, Goto, Control
  <2>2. q < lines + 1
    BY <1>2, <2>1 DEF Passed
  <2>3. q <= lines
    BY <1>0, <2>2
  <2> QED
    BY <2>1, <2>3 DEF Passed
<1>5. CASE PrintReturned
  <2>1. /\ reader.pc = "wait" /\ reader.on = lines /\ task[lines] = "done" /\ lines' = lines /\ exit = 2
        /\ (reader'.pc = "closed" /\ exit' = 1) \/ (~Raised(lines) /\ pipe)
    BY <1>5 DEF PrintReturned, Goto, Control
  <2>2. CASE q < lines
    BY <2>2 DEF Passed
  <2>3. CASE ~(q < lines)
    <3>1. q <= lines /\ (reader'.pc = "read" \/ exit' = 0)
      BY <1>2, <2>1, <2>3 DEF Passed
    <3>2. q = lines
      BY <1>0, <2>3, <3>1
    <3>3. ~Raised(q) /\ pipe /\ task[q] = "done"
      BY <2>1, <3>1, <3>2
    <3>4. PICK i \in DOMAIN out : out[i].of = q /\ Over(out[i])
      BY <3>3 DEF Outputs
    <3>5. out[i].kind # "error"
      <4>1. out[i] \in Notes
        BY ElementOfSeq, LenProperties DEF TypeOK
      <4>2. ASSUME out[i].kind = "error" PROVE out[i] = [kind |-> "error", of |-> q]
        BY <3>4, <4>1, <4>2 DEF Notes
      <4> QED
        BY <3>3, <4>2 DEF Raised
    <3> QED
      BY <3>4, <3>5 DEF Over
  <2> QED
    BY <2>2, <2>3
<1>6. CASE PrintEnd
  <2>1. reader.pc = "read" /\ lines' = lines
    BY <1>6 DEF PrintEnd
  <2>2. q < lines \/ q <= lines
    BY <1>2, <2>1 DEF Passed
  <2> QED
    BY <2>1, <2>2 DEF Passed
<1>7. CASE Hangup \/ UNCHANGED vars
  <2>1. UNCHANGED <<reader, lines, exit>>
    BY <1>7 DEF Hangup, vars
  <2> QED
    BY <1>2, <2>1 DEF Passed
<1> QED
  BY <1>3, <1>4, <1>5, <1>6, <1>7

LEMMA OutcomesStep ==
    ASSUME TypeOK, Control, Outputs, Outcomes, Stores, SettingsInv, [Next]_vars
    PROVE  Outcomes'
<1>1. StoreTypes' /\ (Kept \/ \E r \in Requests : Say(r))
  BY StoresStep
<1>2. ASSUME NEW r \in Requests, Say(r) PROVE Outcomes'
  BY <1>2, SayOutcomes
<1>3. CASE Reported /\ Kept
  BY <1>1, <1>3, ReportedOutcomes
<1>4. ASSUME NEW r \in Requests, Turned(r) PROVE Reported
  BY <1>4, TurnedReports
<1>5. ASSUME NEW r \in Requests, Start(r) \/ Finish(r) PROVE Reported
  BY <1>5, TaskReports
<1>6. CASE \E r \in Requests : Say(r)
  BY <1>2, <1>6
<1>7. Reported \/ \E r \in Requests : Say(r)
  <2>1. ControlTypes
    BY DEF TypeOK
  <2> QED
    BY <2>1, <1>4, <1>5, Turning, QuietReports DEF Next
<1> QED
  BY <1>1, <1>3, <1>6, <1>7

-----------------------------------------------------------------------------

LEMMA RpcInit == Init => RpcInv
<1> SUFFICES ASSUME Init PROVE RpcInv
  OBVIOUS
<1>0. MaxLines \in Nat /\ MaxSessions \in Nat /\ MaxSessions >= 1 /\ \A q \in Requests : q \in Nat /\ q > 0
  BY RpcAssumption DEF Requests
<1>1. /\ mode \in {"stdio", "buffered", "print"} /\ reader = [pc |-> "read", on |-> 0] /\ lines = 0
      /\ task = [r \in Requests |-> "none"] /\ running = 0 /\ said = [r \in Requests |-> 0]
      /\ shutdown = FALSE /\ cancelled = FALSE /\ persistence = FALSE /\ session = 1 /\ sessions = 1
      /\ model \in Models /\ torn = FALSE
      /\ path = [s \in 1 .. MaxSessions |-> IF s = 1 THEN <<model>> ELSE <<>>]
      /\ stored = [s \in 1 .. MaxSessions |-> {}]
      /\ out = <<>> /\ pipe = TRUE /\ exit = 2 /\ faults = 0
  BY DEF Init
<1>2. ControlTypes
  <2>1. /\ reader \in [pc : Places, on : 0 .. MaxLines] /\ lines \in 0 .. MaxLines
        /\ running \in 0 .. MaxLines /\ exit \in 0 .. 2 /\ faults \in Nat
    BY <1>0, <1>1 DEF Places
  <2>2. /\ task \in [Requests -> {"none", "ready", "running", "done"}]
        /\ said \in [Requests -> 0 .. Messages]
    BY <1>1 DEF Messages
  <2>3. /\ shutdown \in BOOLEAN /\ cancelled \in BOOLEAN /\ persistence \in BOOLEAN
        /\ pipe \in BOOLEAN
    BY <1>1, Zenon
  <2> QED
    BY <1>1, <2>1, <2>2, <2>3 DEF ControlTypes
<1>3. StoreTypes
  <2>1. path \in [1 .. MaxSessions -> Seq(Models \cup Said)]
    <3>1. <<model>> \in Seq(Models \cup Said) /\ <<>> \in Seq(Models \cup Said)
      BY <1>1
    <3>2. \A s \in 1 .. MaxSessions :
            (IF s = 1 THEN <<model>> ELSE <<>>) \in Seq(Models \cup Said)
      BY <3>1
    <3> QED
      BY <1>1, <3>2
  <2>2. stored \in [1 .. MaxSessions -> SUBSET Said] /\ session \in 1 .. sessions
        /\ sessions \in 1 .. MaxSessions
    BY <1>0, <1>1
  <2>3. torn \in BOOLEAN
    BY <1>1, Zenon
  <2> QED
    BY <1>1, <2>1, <2>2, <2>3 DEF StoreTypes
<1>4. out \in Seq(Notes) /\ DOMAIN out = {} /\ Len(out) = 0
  BY <1>1
<1>5. Control
  BY <1>0, <1>1 DEF Control
<1>6. Outputs
  BY <1>1, <1>4 DEF Outputs
<1>7. InOrder
  <2>1. \A q \in Requests : ~Told(Response(q), Len(out))
    BY <1>4 DEF Told
  <2>2. \A q \in Requests : ~(q <= lines - 0)
    BY <1>0, <1>1
  <2>3. reader.pc # "bash"
    BY <1>1
  <2> QED
    BY <1>4, <2>1, <2>2, <2>3 DEF InOrder
<1>8. Outcomes
  BY <1>0, <1>1, <1>4 DEF Outcomes
<1>9. Stores
  BY <1>0, <1>1 DEF Stores
<1>10. SettingsInv
  <2>1. path[1] = <<model>>
    BY <1>0, <1>1
  <2>2. Append(<<>>, model) = <<model>> /\ <<>> \in Seq(Models \cup Said)
    OBVIOUS
  <2>3. Leaves(path[session], model)
    BY <1>1, <2>1, <2>2, LeavesChange
  <2> QED
    BY <2>3 DEF SettingsInv
<1> QED
  BY <1>2, <1>3, <1>4, <1>5, <1>6, <1>7, <1>8, <1>9, <1>10 DEF RpcInv, TypeOK

LEMMA RpcStep == RpcInv /\ [Next]_vars => RpcInv'
<1> SUFFICES ASSUME RpcInv, [Next]_vars PROVE RpcInv'
  OBVIOUS
<1>1. TypeOK /\ Control /\ Outputs /\ InOrder /\ Outcomes /\ Stores /\ SettingsInv
  BY DEF RpcInv
<1>2. ControlTypes' /\ Control'
  BY <1>1, ControlStep DEF TypeOK
<1>3. out' \in Seq(Notes) /\ Outputs' /\ InOrder'
  BY <1>1, OutputsStep DEF TypeOK
<1>4. StoreTypes' /\ SettingsInv' /\ Stores'
  BY <1>1, StoresStep
<1>5. Outcomes'
  BY <1>1, OutcomesStep
<1>6. TypeOK'
  BY <1>2, <1>3, <1>4 DEF TypeOK
<1> QED
  BY <1>2, <1>3, <1>4, <1>5, <1>6 DEF RpcInv

(* The reader, the tasks of the prompts, what is stored and what was told stay consistent,
   whatever requests come and whichever appends fail: the inductive invariant. *)
THEOREM RpcInvariance == Spec => []RpcInv
  BY RpcInit, RpcStep, PTL DEF Spec

(* A client that is there gets one response per request, in the order of its requests, hears
   nothing of a prompt before its acknowledgement or after its outcome, and when run_rpc_mode
   has closed, no accepted prompt is without its outcome. *)
THEOREM EveryClientIsServed == Spec => []ClientsServed
<1>1. RpcInv => ClientsServed
  <2> SUFFICES ASSUME RpcInv PROVE ClientsServed
    OBVIOUS
  <2>1. Control /\ Outputs /\ InOrder /\ TypeOK
    BY DEF RpcInv
  <2>2. ASSUME reader.pc = "closed", pipe PROVE running = 0
    <3>1. running \in Requests \/ running = 0
      BY <2>1, RpcAssumption DEF TypeOK, ControlTypes, Requests
    <3>2. \A r \in Requests : running # r
      BY <2>1, <2>2 DEF Control
    <3> QED
      BY <3>1, <3>2
  <2>3. ASSUME reader.pc = "closed", pipe, NEW r \in Requests, task[r] # "none"
        PROVE  Kinds(r) \cap {"settled", "error"} # {}
    <3>1. task[r] = "done"
      BY <2>1, <2>3 DEF Control
    <3>2. PICK i \in DOMAIN out : out[i].of = r /\ Over(out[i])
      BY <2>1, <2>3, <3>1 DEF Outputs
    <3>3. out[i].kind \in Kinds(r)
      BY <3>2 DEF Kinds
    <3> QED
      BY <3>2, <3>3 DEF Over
  <2> QED
    BY <2>1, <2>2, <2>3 DEF ClientsServed, NobodyLeftWaiting
<1> QED
  BY <1>1, RpcInvariance, PTL

(* What is reported as settled, or passed over by a print mode that exits with 0, is in the
   session: _persistence_error is not lost between the append that failed and the report. *)
THEOREM FailuresAreReported == Spec => []FailureReported
<1>1. RpcInv => FailureReported
  <2> SUFFICES ASSUME RpcInv, NEW r \in Requests, "settled" \in Kinds(r) \/ (exit = 0 /\ r <= lines)
               PROVE  AllStored(r)
    BY DEF FailureReported, AllStored
  <2>1. Control /\ Outcomes
    BY DEF RpcInv
  <2>2. CASE "settled" \in Kinds(r)
    BY <2>1, <2>2 DEF Kinds, Outcomes
  <2>3. CASE exit = 0 /\ r <= lines
    BY <2>1, <2>3 DEF Control, Outcomes
  <2> QED
    BY <2>2, <2>3
<1> QED
  BY <1>1, RpcInvariance, PTL

(* The messages of a run are in one session, though the sessions are switched between its
   acknowledgement and its start; and the model is that of the path of the current session. *)
THEOREM SessionsStayApart == Spec => []SessionsApart
<1>1. RpcInv => SessionsApart
  <2> SUFFICES ASSUME RpcInv PROVE SessionsApart
    OBVIOUS
  <2>1. TypeOK /\ Stores /\ SettingsInv
    BY DEF RpcInv
  <2>2. \A s \in 1 .. sessions : s \in 1 .. MaxSessions
    BY <2>1, RpcAssumption DEF TypeOK, StoreTypes
  <2>3. torn \/ Restored(path[session]) = model
    BY <2>1 DEF SettingsInv, Leaves, Restored
  <2> QED
    BY <2>1, <2>2, <2>3 DEF SessionsApart, Stores
<1> QED
  BY <1>1, RpcInvariance, PTL
=============================================================================
