--------------------------- MODULE ToolsProofs ---------------------------
(* Theorems about FileMutations, ApprovalGate, ShellCommand and ExtensionHost, for any number
   of calls, streams, extensions, faults and cancellations. *)
EXTENDS FileMutations, ApprovalGate, ShellCommand, ExtensionHost, SequenceTheorems, FiniteSetTheorems, TLAPS

Places == {"new", "keying", "keyed", "queued", "reading", "read", "writing", "done"}

(* Where a call is in the line for its lock, and where it has the lock. *)
InLine(c) == call[c].pc \in {"queued", "reading", "read", "writing"}
Inside(c) == call[c].pc \in {"reading", "read", "writing"}

CallRecords ==
    [pc : Places, route : Routes, key : Routes, lock : {0} \cup Locks, blind : BOOLEAN,
     seen : SUBSET Calls, since : SUBSET Calls]
Contents == {<<s>> : s \in SUBSET Calls}

Shape ==
    /\ file \in {Absent} \cup SUBSET Calls
    /\ call \in [Calls -> CallRecords]
    /\ thread \in [Calls -> {<<>>} \cup Contents]
    /\ paths \in [Routes -> {0} \cup Locks]
    /\ users \in [Locks -> Nat]
    /\ waiting \in [Locks -> Seq(Calls)]
    /\ locks \in {0} \cup Locks
    /\ result \in [Calls -> {"none", "ok", "error"}]
    /\ left \in SUBSET Calls
    /\ lost \in SUBSET (Calls \X Calls)

(* The line for a lock is made of the calls that asked for it, each once; every lock has been
   made by a call. *)
LineInv ==
    /\ \A l \in Locks : users[l] = Len(waiting[l])
    /\ \A l \in Locks : \A i, j \in DOMAIN waiting[l] : waiting[l][i] = waiting[l][j] => i = j
    /\ \A l \in Locks : \A i \in DOMAIN waiting[l] :
            InLine(waiting[l][i]) /\ call[waiting[l][i]].lock = l
    /\ \A c \in Calls : InLine(c) =>
            call[c].lock # 0 /\ \E i \in DOMAIN waiting[call[c].lock] : waiting[call[c].lock][i] = c
    /\ \A c \in Calls : call[c].pc \in {"new", "keying", "keyed"} => call[c].lock = 0
    /\ \A c \in Calls : call[c].lock <= locks
    /\ \A l \in 1 .. locks : \E c \in Calls : call[c].lock = l

(* The entry of a key is the lock that all those in line for that key are in line for. *)
EntryInv ==
    /\ \A c \in Calls : InLine(c) => paths[call[c].key] = call[c].lock
    /\ \A k \in Routes : paths[k] # 0 =>
            /\ waiting[paths[k]] # <<>>
            /\ \A i \in DOMAIN waiting[paths[k]] : call[waiting[paths[k]][i]].key = k

(* Who is in the operation is the first in line. *)
HoldInv == \A c \in Calls : Inside(c) => waiting[call[c].lock][1] = c

ThreadInv ==
    /\ \A c \in Calls : thread[c] # <<>> => (call[c].pc = "writing" \/ c \in left) /\ c \in Head(thread[c])
    /\ \A c \in left : result[c] = "error"
    /\ \A c \in Calls : result[c] # "none" => call[c].pc = "done"
    /\ \A c \in Calls : call[c].key = "linked" => call[c].blind

(* Two calls for which the file has two keys. *)
TwoKeys(c, d) == call[c].key # call[d].key /\ (call[c].blind \/ call[d].blind)

Began(c) == call[c].pc \in {"writing", "done"}
Early == {"new", "keying", "keyed", "queued", "reading"}

(* What has been written since an edit read the file, while that edit may still write it, was
   written by a call that has failed or has another key. *)
SinceInv ==
    /\ \A c \in Calls : call[c].pc \in {"read", "writing"} =>
            \A d \in call[c].since \ {c} : result[d] = "error" \/ TwoKeys(c, d)
    /\ \A c \in Calls : \A d \in call[c].since : Began(d)
    /\ \A c \in Calls : call[c].pc \in Early => call[c].since = {}
    /\ \A p \in lost : Began(p[1]) /\ Began(p[2])
    /\ NoLostEdit

QueueInv == LineInv /\ EntryInv /\ HoldInv

MutationInv == Shape /\ QueueInv /\ ThreadInv /\ SinceInv

-----------------------------------------------------------------------------
(* A call that leaves a line takes its one place with it. *)
LEMMA WithoutShape ==
    ASSUME NEW S, NEW q \in Seq(S), NEW m \in DOMAIN q,
           \A i, j \in DOMAIN q : q[i] = q[j] => i = j
    PROVE  /\ Without(q, q[m]) \in Seq(S)
           /\ Len(Without(q, q[m])) = Len(q) - 1
           /\ \A i \in 1 .. Len(q) - 1 :
                Without(q, q[m])[i] = IF i < m THEN q[i] ELSE q[i + 1]
<1> DEFINE c == q[m]
           w == Without(q, c)
<1>1. DOMAIN q = 1 .. Len(q) /\ Len(q) \in Nat /\ m \in 1 .. Len(q)
  BY LenProperties
<1>2. Len(q) - 1 \in Nat /\ \A i \in 1 .. Len(q) - 1 : i \in DOMAIN q /\ i + 1 \in DOMAIN q
  BY <1>1
<1>3. ASSUME NEW i \in 1 .. Len(q) - 1 PROVE (\E j \in 1 .. i : q[j] = c) <=> ~ i < m
  <2>1. \A j \in 1 .. i : j \in DOMAIN q
    BY <1>1, <1>3
  <2>2. \A j \in 1 .. i : q[j] = c => j = m
    BY <2>1
  <2>3. m \in 1 .. i <=> ~ i < m
    BY <1>1, <1>3
  <2> QED
    BY <2>2, <2>3
<1>. w = [i \in 1 .. Len(q) - 1 |-> IF \E j \in 1 .. i : q[j] = c THEN q[i + 1] ELSE q[i]]
  BY DEF Without
<1>4. \A i \in 1 .. Len(q) - 1 : w[i] = IF i < m THEN q[i] ELSE q[i + 1]
  BY <1>3
<1>5. \A i \in 1 .. Len(q) - 1 : w[i] \in S
  BY <1>2, <1>4, ElementOfSeq
<1>6. w \in [1 .. Len(q) - 1 -> S]
  BY <1>5
<1> HIDE DEF w
<1>7. w \in Seq(S)
  <2>1. Len(q) - 1 \in Nat
    BY <1>2
  <2> QED
    BY ONLY <1>6, <2>1, SeqDef, Zenon
<1>8. Len(w) = Len(q) - 1
  BY <1>2, <1>6, <1>7, LenProperties
<1> QED
  BY <1>4, <1>7, <1>8 DEF w

LEMMA WithoutMembers ==
    ASSUME NEW S, NEW q \in Seq(S), NEW m \in DOMAIN q,
           \A i, j \in DOMAIN q : q[i] = q[j] => i = j
    PROVE  LET w == Without(q, q[m]) IN
           /\ \A i \in DOMAIN w : w[i] # q[m] /\ \E j \in DOMAIN q : w[i] = q[j]
           /\ \A j \in DOMAIN q : q[j] # q[m] => \E i \in DOMAIN w : w[i] = q[j]
           /\ \A i, j \in DOMAIN w : w[i] = w[j] => i = j
           /\ m # 1 => 1 \in DOMAIN w /\ w[1] = q[1]
<1> DEFINE w == Without(q, q[m])
           place(i) == IF i < m THEN i ELSE i + 1
<1>1. DOMAIN q = 1 .. Len(q) /\ Len(q) \in Nat /\ m \in 1 .. Len(q)
  BY LenProperties
<1>2. DOMAIN w = 1 .. Len(q) - 1
  BY WithoutShape, LenProperties
<1>3. \A i \in DOMAIN w : w[i] = q[place(i)]
  BY <1>2, WithoutShape
<1> HIDE DEF w
<1>4. \A i \in DOMAIN w : place(i) \in DOMAIN q /\ place(i) # m
  BY <1>1, <1>2
<1>5. \A i, j \in DOMAIN w : place(i) = place(j) => i = j
  BY <1>1, <1>2
<1>6. \A j \in DOMAIN q : j # m => \E i \in DOMAIN w : place(i) = j
  <2>1. ASSUME NEW j \in DOMAIN q, j < m PROVE j \in DOMAIN w /\ place(j) = j
    BY <1>1, <1>2, <2>1
  <2>2. ASSUME NEW j \in DOMAIN q, m < j PROVE j - 1 \in DOMAIN w /\ place(j - 1) = j
    BY <1>1, <1>2, <2>2
  <2> QED
    BY <1>1, <2>1, <2>2
<1>7. m # 1 => 1 \in DOMAIN w /\ place(1) = 1
  BY <1>1, <1>2
<1> HIDE DEF place
<1>8. \A i \in DOMAIN w : w[i] # q[m] /\ \E j \in DOMAIN q : w[i] = q[j]
  BY <1>3, <1>4
<1>9. \A j \in DOMAIN q : q[j] # q[m] => \E i \in DOMAIN w : w[i] = q[j]
  BY <1>3, <1>6
<1>10. \A i, j \in DOMAIN w : w[i] = w[j] => i = j
  BY <1>3, <1>4, <1>5
<1> QED
  BY <1>3, <1>7, <1>8, <1>9, <1>10 DEF w

(* There is a lock for each call that asks for one: a call that is about to is not among those
   that made the others. *)
LEMMA LocksSuffice ==
    ASSUME IsFiniteSet(Calls), Shape, LineInv, NEW c \in Calls, call[c].lock = 0
    PROVE  locks + 1 \in Locks
<1>1. Cardinality(Calls) \in Nat /\ locks \in Nat
  BY FS_CardinalityType DEF Shape, Locks
<1> DEFINE maker == [l \in 1 .. locks |-> CHOOSE d \in Calls : call[d].lock = l]
<1>2. \A l \in 1 .. locks : maker[l] \in Calls \ {c} /\ call[maker[l]].lock = l
  BY DEF LineInv
<1>3. IsFiniteSet(Calls \ {c}) /\ Cardinality(Calls \ {c}) = Cardinality(Calls) - 1
  BY FS_RemoveElement
<1>4. IsFiniteSet(1 .. locks) /\ Cardinality(1 .. locks) = locks
  BY <1>1, FS_Interval
<1> HIDE DEF maker
<1>5. maker \in [1 .. locks -> Calls \ {c}]
  BY <1>2 DEF maker
<1>6. \A k, l \in 1 .. locks : maker[k] = maker[l] => k = l
  BY <1>2
<1>7. ~ Cardinality(Calls \ {c}) < Cardinality(1 .. locks)
  <2> SUFFICES ASSUME Cardinality(Calls \ {c}) < Cardinality(1 .. locks) PROVE FALSE
    OBVIOUS
  <2>1. \E k, l \in 1 .. locks : k # l /\ maker[k] = maker[l]
    BY ONLY <1>3, <1>4, <1>5, Cardinality(Calls \ {c}) < Cardinality(1 .. locks), FS_PigeonHole, Zenon
  <2> QED
    BY <1>6, <2>1
<1> QED
  BY <1>1, <1>3, <1>4, <1>7 DEF Locks

LEMMA InitMutationInv == Init => MutationInv
<1> SUFFICES ASSUME Init PROVE MutationInv
  OBVIOUS
<1>1. Shape
  BY DEF Init, Shape, NewCall, CallRecords, Places, Routes
<1>2. QueueInv
  BY DEF Init, NewCall, QueueInv, LineInv, EntryInv, HoldInv, InLine, Inside
<1>3. ThreadInv /\ SinceInv
  BY DEF Init, NewCall, ThreadInv, SinceInv, NoLostEdit
<1> QED
  BY <1>1, <1>2, <1>3 DEF MutationInv

-----------------------------------------------------------------------------
(* The lines. *)

(* A step that leaves the lines as they are, and lets nobody in but the first of a line. *)
LEMMA SameLines ==
    ASSUME QueueInv, UNCHANGED queue,
           \A d \in Calls :
                /\ InLine(d)' <=> InLine(d)
                /\ Inside(d)' => Inside(d) \/ waiting[call[d].lock][1] = d
                /\ call'[d].lock = call[d].lock
                /\ InLine(d) => call'[d].key = call[d].key
                /\ call'[d].pc \in {"new", "keying", "keyed"} => call[d].pc \in {"new", "keying", "keyed"},
           Shape
    PROVE  QueueInv'
<1>1. UNCHANGED <<paths, users, waiting, locks>>
  BY DEF queue
<1>2. \A l \in Locks : \A i \in DOMAIN waiting[l] : waiting[l][i] \in Calls
  BY ElementOfSeq DEF Shape
<1>3. LineInv'
  BY <1>1, <1>2 DEF QueueInv, LineInv
<1>4. EntryInv'
  <2>1. \A k \in Routes : paths[k] # 0 => paths[k] \in Locks
    BY DEF Shape
  <2>2. \A d \in Calls : InLine(d)' => paths'[call'[d].key] = call'[d].lock
    BY <1>1 DEF QueueInv, EntryInv
  <2>3. ASSUME NEW k \in Routes, paths[k] # 0, NEW i \in DOMAIN waiting[paths[k]]
        PROVE  call'[waiting[paths[k]][i]].key = k
    BY <1>2, <2>1, <2>3 DEF QueueInv, LineInv, EntryInv
  <2> QED
    BY <1>1, <2>2, <2>3 DEF QueueInv, EntryInv
<1>5. HoldInv'
  BY <1>1 DEF QueueInv, HoldInv
<1> QED
  BY <1>3, <1>4, <1>5 DEF QueueInv

(* with_file_mutation_queue leaves its line: the next one, if there is one, is the first. *)
LEMMA LeavingLine ==
    ASSUME Shape, QueueInv, NEW c \in Calls, InLine(c), Leave(c),
           call' = [call EXCEPT ![c].pc = "done"]
    PROVE  QueueInv' /\ paths' \in [Routes -> {0} \cup Locks]
           /\ users' \in [Locks -> Nat] /\ waiting' \in [Locks -> Seq(Calls)]
<1> DEFINE l == call[c].lock
           k == call[c].key
           w == Without(waiting[l], c)
<1>1. l \in Locks /\ k \in Routes /\ paths[k] = l /\ waiting[l] \in Seq(Calls)
  BY DEF Shape, CallRecords, QueueInv, LineInv, EntryInv
<1>2. PICK m \in DOMAIN waiting[l] : waiting[l][m] = c
  BY DEF QueueInv, LineInv
<1>3. \A i, j \in DOMAIN waiting[l] : waiting[l][i] = waiting[l][j] => i = j
  BY <1>1 DEF QueueInv, LineInv
<1>4. /\ w \in Seq(Calls) /\ Len(w) = Len(waiting[l]) - 1
      /\ \A i \in DOMAIN w : w[i] # c /\ \E j \in DOMAIN waiting[l] : w[i] = waiting[l][j]
      /\ \A j \in DOMAIN waiting[l] : waiting[l][j] # c => \E i \in DOMAIN w : w[i] = waiting[l][j]
      /\ \A i, j \in DOMAIN w : w[i] = w[j] => i = j
      /\ m # 1 => 1 \in DOMAIN w /\ w[1] = waiting[l][1]
  <2>1. w = Without(waiting[l], waiting[l][m])
    BY <1>2
  <2> HIDE DEF l, w
  <2> QED
    <3>1. w \in Seq(Calls) /\ Len(w) = Len(waiting[l]) - 1
      BY <1>1, <1>3, <2>1, WithoutShape
    <3>2. /\ \A i \in DOMAIN w : w[i] # waiting[l][m] /\ \E j \in DOMAIN waiting[l] : w[i] = waiting[l][j]
          /\ \A j \in DOMAIN waiting[l] : waiting[l][j] # waiting[l][m] => \E i \in DOMAIN w : w[i] = waiting[l][j]
          /\ \A i, j \in DOMAIN w : w[i] = w[j] => i = j
          /\ m # 1 => 1 \in DOMAIN w /\ w[1] = waiting[l][1]
      BY <1>1, <1>3, <2>1, WithoutMembers
    <3> QED
      BY <1>2, <3>1, <3>2
<1> HIDE DEF w
<1>5. /\ waiting' = [waiting EXCEPT ![l] = w]
      /\ users' = [users EXCEPT ![l] = users[l] - 1]
      /\ paths' = IF users[l] = 1 THEN [paths EXCEPT ![k] = 0] ELSE paths
      /\ locks' = locks
  BY <1>1 DEF Leave, w
<1>6. users[l] = Len(waiting[l]) /\ Len(waiting[l]) \in Nat /\ Len(waiting[l]) >= 1
  BY <1>1, <1>2, LenProperties DEF QueueInv, LineInv
<1>7. \A d \in Calls : d # c => call'[d] = call[d]
  BY DEF Shape
<1>8. /\ call'[c].pc = "done" /\ call'[c].lock = l /\ call'[c].key = k
  BY DEF Shape, CallRecords
<1>9. /\ ~ InLine(c)'
      /\ \A d \in Calls : d # c => (InLine(d)' <=> InLine(d)) /\ (Inside(d)' <=> Inside(d))
  BY <1>7, <1>8 DEF InLine, Inside
<1>10. users' \in [Locks -> Nat] /\ waiting' \in [Locks -> Seq(Calls)]
  BY <1>1, <1>4, <1>5, <1>6 DEF Shape
<1>11. paths' \in [Routes -> {0} \cup Locks]
  BY <1>1, <1>5 DEF Shape
<1>12. waiting'[l] = w /\ users'[l] = users[l] - 1
       /\ \A j \in Locks : j # l => waiting'[j] = waiting[j] /\ users'[j] = users[j]
  BY <1>1, <1>5 DEF Shape
<1>13. LineInv'
  <2>1. \A j \in Locks : users'[j] = Len(waiting'[j])
    BY <1>4, <1>6, <1>12 DEF QueueInv, LineInv
  <2>2. \A j \in Locks : \A a, b \in DOMAIN waiting'[j] : waiting'[j][a] = waiting'[j][b] => a = b
    BY <1>4, <1>12 DEF QueueInv, LineInv
  <2>3. ASSUME NEW j \in Locks, NEW i \in DOMAIN waiting'[j]
        PROVE  (InLine(waiting[j][i]) /\ call[waiting[j][i]].lock = j)'
    <3>1. waiting'[j][i] # c /\ \E a \in DOMAIN waiting[j] : waiting'[j][i] = waiting[j][a]
      BY <1>1, <1>2, <1>4, <1>12, <2>3 DEF QueueInv, LineInv
    <3>2. waiting'[j][i] \in Calls
      BY <3>1, ElementOfSeq DEF Shape
    <3> QED
      BY <1>7, <1>9, <3>1, <3>2 DEF QueueInv, LineInv
  <2>4. ASSUME NEW d \in Calls, InLine(d)'
        PROVE  call'[d].lock # 0 /\ \E i \in DOMAIN waiting'[call'[d].lock] : waiting'[call'[d].lock][i] = d
    <3>1. d # c /\ InLine(d) /\ call'[d].lock = call[d].lock
      BY <1>7, <1>9, <2>4
    <3>2. call[d].lock # 0 /\ \E i \in DOMAIN waiting[call[d].lock] : waiting[call[d].lock][i] = d
      BY <3>1 DEF QueueInv, LineInv
    <3>3. call[d].lock \in Locks
      BY <3>2 DEF Shape, CallRecords
    <3> QED
      BY <1>4, <1>12, <3>1, <3>2, <3>3
  <2>5. \A d \in Calls : /\ call'[d].pc \in {"new", "keying", "keyed"} => call'[d].lock = 0
                         /\ call'[d].lock = call[d].lock
    BY <1>7, <1>8 DEF QueueInv, LineInv
  <2> QED
    BY <1>5, <2>1, <2>2, <2>3, <2>4, <2>5 DEF QueueInv, LineInv
<1>14. EntryInv'
  <2>1. \A d \in Calls : InLine(d) /\ d # c /\ call[d].key = k => users[l] # 1
    <3>1. ASSUME NEW d \in Calls, InLine(d), d # c, call[d].key = k PROVE Len(waiting[l]) # 1
      <4>1. call[d].lock = l
        BY <1>1, <3>1 DEF QueueInv, EntryInv
      <4>2. PICK i \in DOMAIN waiting[l] : waiting[l][i] = d
        BY <3>1, <4>1 DEF QueueInv, LineInv
      <4>3. i # m
        BY <1>2, <3>1, <4>2
      <4> QED
        BY <1>1, <4>3, LenProperties
    <3> QED
      BY <1>6, <3>1
  <2>2. \A d \in Calls : InLine(d)' => paths'[call'[d].key] = call'[d].lock
    BY <1>1, <1>5, <1>7, <1>9, <2>1 DEF QueueInv, EntryInv, Shape, CallRecords
  <2>3. ASSUME NEW r \in Routes, paths'[r] # 0
        PROVE  /\ waiting'[paths'[r]] # <<>>
               /\ \A i \in DOMAIN waiting'[paths'[r]] : call'[waiting'[paths'[r]][i]].key = r
    <3>1. paths'[r] = paths[r] /\ paths[r] \in Locks /\ (paths[r] = l => users[l] # 1)
      <4>1. r = k => users[l] # 1
        BY <1>1, <1>5, <2>3 DEF Shape
      <4>2. paths'[r] = paths[r]
        BY <1>1, <1>5, <4>1 DEF Shape
      <4>3. ASSUME paths[r] = l PROVE r = k
        <5>1. call[waiting[paths[r]][m]].key = r
          BY <1>2, <2>3, <4>2, <4>3 DEF QueueInv, EntryInv
        <5> QED
          BY <1>2, <4>3, <5>1
      <4> QED
        BY <2>3, <4>1, <4>2, <4>3 DEF Shape
    <3>2. waiting'[paths[r]] # <<>>
      <4>1. CASE paths[r] = l
        <5>1. Len(w) # 0
          BY <1>4, <1>6, <3>1, <4>1
        <5> QED
          BY <1>12, <4>1, <5>1
      <4>2. CASE paths[r] # l
        BY <1>12, <2>3, <3>1, <4>2 DEF QueueInv, EntryInv
      <4> QED
        BY <4>1, <4>2
    <3>3. ASSUME NEW i \in DOMAIN waiting'[paths[r]]
          PROVE  call'[waiting'[paths[r]][i]].key = r
      <4>1. waiting'[paths[r]][i] # c /\ \E a \in DOMAIN waiting[paths[r]] : waiting'[paths[r]][i] = waiting[paths[r]][a]
        BY <1>2, <1>4, <1>12, <2>3, <3>1, <3>3 DEF QueueInv, LineInv
      <4>2. waiting'[paths[r]][i] \in Calls
        BY <3>1, <4>1, ElementOfSeq DEF Shape
      <4> QED
        BY <1>7, <2>3, <3>1, <4>1, <4>2 DEF QueueInv, EntryInv
    <3> QED
      BY <3>1, <3>2, <3>3
  <2> QED
    BY <2>2, <2>3 DEF EntryInv
<1>15. HoldInv'
  <2>1. ASSUME NEW d \in Calls, Inside(d)' PROVE waiting'[call'[d].lock][1] = d
    <3>1. d # c /\ Inside(d) /\ InLine(d) /\ call'[d].lock = call[d].lock
      BY <1>7, <1>9, <2>1 DEF Inside, InLine
    <3>2. waiting[call[d].lock][1] = d /\ call[d].lock \in Locks
      BY <3>1 DEF QueueInv, HoldInv, LineInv, Shape, CallRecords
    <3>3. call[d].lock = l => m # 1
      BY <1>2, <3>1, <3>2
    <3> QED
      BY <1>4, <1>12, <3>1, <3>2, <3>3
  <2> QED
    BY <2>1 DEF HoldInv
<1> QED
  BY <1>10, <1>11, <1>13, <1>14, <1>15 DEF QueueInv

LEMMA JoiningLine ==
    ASSUME IsFiniteSet(Calls), Shape, QueueInv, NEW c \in Calls, Register(c)
    PROVE  /\ QueueInv'
           /\ paths' \in [Routes -> {0} \cup Locks] /\ locks' \in {0} \cup Locks
           /\ users' \in [Locks -> Nat] /\ waiting' \in [Locks -> Seq(Calls)]
           /\ call' \in [Calls -> CallRecords]
<1> DEFINE k == call[c].key
           l == IF paths[k] = 0 THEN locks + 1 ELSE paths[k]
<1>1. k \in Routes /\ call[c].lock = 0 /\ call[c].pc = "keyed" /\ call[c] \in CallRecords
  BY DEF Register, At, Shape, CallRecords, QueueInv, LineInv
<1>2. l \in Locks /\ l \in Nat \ {0} /\ locks \in Nat
  <2>1. locks + 1 \in Locks
    BY <1>1, LocksSuffice DEF QueueInv
  <2>2. Locks \subseteq Nat \ {0}
    BY DEF Locks
  <2>3. paths[k] \in {0} \cup Locks /\ locks \in {0} \cup Locks
    BY <1>1 DEF Shape
  <2>4. l \in Locks
    BY <2>1, <2>3
  <2>5. locks \in Nat
    BY <2>2, <2>3
  <2> HIDE DEF l
  <2> QED
    BY <2>2, <2>4, <2>5
<1>3. paths[k] = 0 => waiting[l] = <<>>
  <2> SUFFICES ASSUME paths[k] = 0, waiting[l] # <<>> PROVE FALSE
    OBVIOUS
  <2>1. 1 \in DOMAIN waiting[l] /\ waiting[l][1] \in Calls
    BY <1>2, LenProperties, EmptySeq, ElementOfSeq DEF Shape
  <2>2. call[waiting[l][1]].lock = locks + 1
    BY <1>2, <2>1 DEF QueueInv, LineInv
  <2>3. call[waiting[l][1]].lock <= locks
    BY <2>1 DEF QueueInv, LineInv
  <2> QED
    BY <1>2, <2>2, <2>3
<1>4. paths[k] # 0 => locks' = locks /\ l <= locks
  <2>1. ASSUME paths[k] # 0 PROVE l <= locks
    <3>1. l \in Locks /\ waiting[l] # <<>>
      BY <1>1, <1>2, <2>1 DEF QueueInv, EntryInv
    <3>2. 1 \in DOMAIN waiting[l] /\ waiting[l][1] \in Calls
      BY <3>1, LenProperties, EmptySeq, ElementOfSeq DEF Shape
    <3>3. call[waiting[l][1]].lock = l /\ call[waiting[l][1]].lock <= locks
      BY <3>1, <3>2 DEF QueueInv, LineInv
    <3> QED
      BY <3>3
  <2> QED
    BY <2>1 DEF Register
<1>5. /\ paths' = [paths EXCEPT ![k] = l]
      /\ locks' = IF paths[k] = 0 THEN l ELSE locks
      /\ users' = [users EXCEPT ![l] = users[l] + 1]
      /\ waiting' = [waiting EXCEPT ![l] = Append(waiting[l], c)]
      /\ call' = [call EXCEPT ![c].pc = "queued", ![c].lock = l]
  BY DEF Register
<1>6. l \in 1 .. locks' /\ locks <= locks' /\ (locks' = locks \/ (locks' = locks + 1 /\ l = locks'))
  <2>1. CASE paths[k] = 0
    BY <1>2, <1>5, <2>1
  <2>2. CASE paths[k] # 0
    <3>1. locks' = locks /\ l <= locks
      BY <1>4, <2>2
    <3> HIDE DEF l, k
    <3> QED
      BY <1>2, <3>1
  <2> QED
    BY <2>1, <2>2
<1> HIDE DEF l
<1>7. waiting[l] \in Seq(Calls) /\ users[l] = Len(waiting[l]) /\ Len(waiting[l]) \in Nat
  BY <1>2, LenProperties DEF Shape, QueueInv, LineInv
<1>8. /\ waiting'[l] = Append(waiting[l], c) /\ users'[l] = users[l] + 1
      /\ \A j \in Locks : j # l => waiting'[j] = waiting[j] /\ users'[j] = users[j]
  BY <1>2, <1>5 DEF Shape
<1>9. /\ waiting'[l] \in Seq(Calls) /\ Len(waiting'[l]) = Len(waiting[l]) + 1
      /\ DOMAIN waiting[l] = 1 .. Len(waiting[l]) /\ DOMAIN waiting'[l] = 1 .. Len(waiting[l]) + 1
      /\ \A i \in DOMAIN waiting[l] : waiting'[l][i] = waiting[l][i]
      /\ waiting'[l][Len(waiting[l]) + 1] = c
  BY <1>7, <1>8, AppendProperties, LenProperties
<1>10. /\ \A d \in Calls : d # c => call'[d] = call[d]
       /\ call'[c].pc = "queued" /\ call'[c].lock = l /\ call'[c].key = k
       /\ call' \in [Calls -> CallRecords]
  BY <1>1, <1>2, <1>5 DEF Shape, CallRecords, Places
<1>11. /\ InLine(c)' /\ ~ Inside(c)' /\ ~ InLine(c)
       /\ \A d \in Calls : d # c => (InLine(d)' <=> InLine(d)) /\ (Inside(d)' <=> Inside(d))
  BY <1>1, <1>10 DEF InLine, Inside
<1>12. paths'[k] = l /\ \A r \in Routes : r # k => paths'[r] = paths[r]
  BY <1>1, <1>5 DEF Shape
<1>13. paths' \in [Routes -> {0} \cup Locks] /\ locks' \in {0} \cup Locks
  BY <1>1, <1>2, <1>5 DEF Shape
<1>14. users' \in [Locks -> Nat] /\ waiting' \in [Locks -> Seq(Calls)]
  BY <1>2, <1>5, <1>7, <1>8, <1>9 DEF Shape
<1>15. \A j \in Locks : \A i \in DOMAIN waiting[j] : waiting[j][i] \in Calls /\ waiting[j][i] # c
  BY <1>11, ElementOfSeq DEF QueueInv, LineInv, Shape
<1>16. LineInv'
  <2>1. \A j \in Locks : users'[j] = Len(waiting'[j])
    BY <1>7, <1>8, <1>9 DEF QueueInv, LineInv
  <2>2. \A j \in Locks : \A a, b \in DOMAIN waiting'[j] : waiting'[j][a] = waiting'[j][b] => a = b
    <3>1. ASSUME NEW a \in DOMAIN waiting'[l], NEW b \in DOMAIN waiting'[l], waiting'[l][a] = waiting'[l][b]
          PROVE  a = b
      <4>1. \A i \in DOMAIN waiting'[l] : i \in DOMAIN waiting[l] \/ i = Len(waiting[l]) + 1
        BY <1>7, <1>9
      <4>2. \A i, m \in DOMAIN waiting[l] : waiting[l][i] = waiting[l][m] => i = m
        BY <1>2 DEF QueueInv, LineInv
      <4>3. \A i \in DOMAIN waiting[l] : waiting[l][i] # c
        BY <1>2, <1>15
      <4> QED
        BY <1>9, <3>1, <4>1, <4>2, <4>3
    <3>2. ASSUME NEW j \in Locks, j # l, NEW a \in DOMAIN waiting'[j], NEW b \in DOMAIN waiting'[j],
                 waiting'[j][a] = waiting'[j][b]
          PROVE  a = b
      BY <1>8, <3>2 DEF QueueInv, LineInv
    <3> QED
      BY <3>1, <3>2
  <2>3. ASSUME NEW j \in Locks, NEW i \in DOMAIN waiting'[j]
        PROVE  (InLine(waiting[j][i]) /\ call[waiting[j][i]].lock = j)'
    <3>1. CASE j = l /\ i = Len(waiting[l]) + 1
      BY <1>9, <1>10, <1>11, <3>1
    <3>2. CASE i \in DOMAIN waiting[j] /\ waiting'[j][i] = waiting[j][i]
      BY <1>10, <1>11, <1>15, <3>2 DEF QueueInv, LineInv
    <3> QED
      BY <1>7, <1>8, <1>9, <3>1, <3>2
  <2>4. ASSUME NEW d \in Calls, InLine(d)'
        PROVE  call'[d].lock # 0 /\ \E i \in DOMAIN waiting'[call'[d].lock] : waiting'[call'[d].lock][i] = d
    <3>1. CASE d = c
      <4>1. Len(waiting[l]) + 1 \in DOMAIN waiting'[l]
        BY <1>7, <1>9
      <4> QED
        BY <1>2, <1>9, <1>10, <3>1, <4>1
    <3>2. CASE d # c
      <4>1. InLine(d) /\ call'[d].lock = call[d].lock
        BY <1>10, <1>11, <2>4, <3>2
      <4>2. call[d].lock # 0 /\ \E i \in DOMAIN waiting[call[d].lock] : waiting[call[d].lock][i] = d
        BY <4>1 DEF QueueInv, LineInv
      <4>3. call[d].lock \in Locks
        BY <4>2 DEF Shape, CallRecords
      <4>4. DOMAIN waiting[l] \subseteq DOMAIN waiting'[l]
        BY <1>7, <1>9
      <4> QED
        BY <1>8, <1>9, <4>1, <4>2, <4>3, <4>4, SMTT(30)
    <3> QED
      BY <3>1, <3>2
  <2>5. \A d \in Calls : call'[d].pc \in {"new", "keying", "keyed"} => call'[d].lock = 0
    BY <1>10 DEF QueueInv, LineInv
  <2>6. \A d \in Calls : call'[d].lock <= locks'
    <3>1. \A d \in Calls : call[d].lock <= locks /\ call[d].lock \in Nat
      BY DEF QueueInv, LineInv, Shape, CallRecords, Locks
    <3>2. locks' \in Nat /\ l <= locks'
      BY <1>2, <1>6
    <3> QED
      BY <1>2, <1>6, <1>10, <3>1, <3>2
  <2>7. ASSUME NEW j \in 1 .. locks' PROVE \E d \in Calls : call'[d].lock = j
    <3>1. CASE j = l
      BY <1>10, <3>1
    <3>2. CASE j # l
      <4>1. j \in 1 .. locks
        BY <1>2, <1>6, <3>2
      <4>2. PICK d \in Calls : call[d].lock = j
        BY <4>1 DEF QueueInv, LineInv
      <4>3. d # c
        BY <1>1, <4>1, <4>2
      <4> QED
        BY <1>10, <4>2, <4>3
    <3> QED
      BY <3>1, <3>2
  <2> QED
    BY <2>1, <2>2, <2>3, <2>4, <2>5, <2>6, <2>7 DEF LineInv
<1>17. EntryInv'
  <2>1. ASSUME NEW d \in Calls, InLine(d)' PROVE paths'[call'[d].key] = call'[d].lock
    <3>1. CASE d = c
      BY <1>10, <1>12, <3>1
    <3>2. CASE d # c
      <4>1. InLine(d) /\ call'[d] = call[d] /\ call[d].key \in Routes
        BY <1>10, <1>11, <2>1, <3>2 DEF Shape, CallRecords
      <4>2. paths[call[d].key] = call[d].lock /\ call[d].lock # 0
        BY <4>1 DEF QueueInv, EntryInv, LineInv
      <4> QED
        BY <1>12, <4>1, <4>2 DEF l
    <3> QED
      BY <3>1, <3>2
  <2>2. ASSUME NEW r \in Routes, paths'[r] # 0
        PROVE  /\ waiting'[paths'[r]] # <<>>
               /\ \A i \in DOMAIN waiting'[paths'[r]] : call'[waiting'[paths'[r]][i]].key = r
    <3>1. CASE r = k
      <4>1. waiting'[l] # <<>>
        BY <1>7, <1>9
      <4>2. ASSUME NEW i \in DOMAIN waiting[l] PROVE call[waiting[l][i]].key = k
        BY <1>1, <1>3, <4>2 DEF QueueInv, EntryInv, l
      <4>3. ASSUME NEW i \in DOMAIN waiting'[l] PROVE call'[waiting'[l][i]].key = k
        <5>1. CASE i = Len(waiting[l]) + 1
          BY <1>9, <1>10, <5>1
        <5>2. CASE i \in DOMAIN waiting[l]
          BY <1>2, <1>9, <1>10, <1>15, <4>2, <5>2
        <5> QED
          BY <1>7, <1>9, <5>1, <5>2
      <4> QED
        BY <1>12, <3>1, <4>1, <4>3
    <3>2. CASE r # k
      <4>1. paths'[r] = paths[r] /\ paths[r] \in Locks
        BY <1>12, <2>2, <3>2 DEF Shape
      <4>2. waiting[paths[r]] # <<>> /\ \A i \in DOMAIN waiting[paths[r]] : call[waiting[paths[r]][i]].key = r
        BY <2>2, <4>1 DEF QueueInv, EntryInv
      <4>3. paths[r] # l
        <5> SUFFICES ASSUME paths[r] = l PROVE FALSE
          OBVIOUS
        <5>1. paths[k] # 0
          BY <1>3, <4>2
        <5>2. 1 \in DOMAIN waiting[l]
          BY <1>7, <4>2, LenProperties, EmptySeq
        <5>3. call[waiting[l][1]].key = r /\ call[waiting[l][1]].key = k
          BY <1>1, <4>2, <5>1, <5>2 DEF QueueInv, EntryInv, l
        <5> QED
          BY <3>2, <5>3
      <4> QED
        BY <1>8, <1>10, <1>15, <4>1, <4>2, <4>3
    <3> QED
      BY <3>1, <3>2
  <2> QED
    BY <2>1, <2>2 DEF EntryInv
<1>18. HoldInv'
  <2>1. ASSUME NEW d \in Calls, Inside(d)' PROVE waiting'[call'[d].lock][1] = d
    <3>1. d # c /\ Inside(d) /\ InLine(d) /\ call'[d].lock = call[d].lock
      BY <1>10, <1>11, <2>1 DEF Inside, InLine
    <3>2. /\ waiting[call[d].lock][1] = d /\ call[d].lock \in Locks
          /\ \E i \in DOMAIN waiting[call[d].lock] : waiting[call[d].lock][i] = d
      BY <3>1 DEF QueueInv, HoldInv, LineInv, Shape, CallRecords
    <3>3. call[d].lock = l => 1 \in DOMAIN waiting[l]
      BY <1>7, <1>9, <3>2
    <3> QED
      BY <1>8, <1>9, <3>1, <3>2, <3>3
  <2> QED
    BY <2>1 DEF HoldInv
<1> QED
  BY <1>10, <1>13, <1>14, <1>16, <1>17, <1>18 DEF QueueInv

-----------------------------------------------------------------------------
(* What is written. *)

(* A call keeps its key once it has read, and what was written since another has read. *)
LEMMA KeepsSince ==
    ASSUME SinceInv, lost' = lost, left \subseteq left', lost \in SUBSET (Calls \X Calls),
           \A d \in Calls :
                /\ call[d].pc \in {"read", "writing", "done"} =>
                        call'[d].key = call[d].key /\ call'[d].blind = call[d].blind
                /\ Began(d) => Began(d)'
                /\ result[d] = "error" => result'[d] = "error"
                /\ \/ call'[d].since = {}
                   \/ /\ call'[d].since = call[d].since /\ call[d].since \in SUBSET Calls
                      /\ call'[d].pc \in {"read", "writing"} => call[d].pc \in {"read", "writing"}
                      /\ call'[d].pc \in Early => call[d].pc \in Early
    PROVE  SinceInv'
<1>1. \A d \in Calls : Began(d) => call'[d].key = call[d].key /\ call'[d].blind = call[d].blind
  BY DEF Began
<1>2. ASSUME NEW c \in Calls, call'[c].pc \in {"read", "writing"}, NEW d \in call'[c].since \ {c}
      PROVE  result'[d] = "error" \/ TwoKeys(c, d)'
  <2>1. d \in call[c].since \ {c} /\ d \in Calls /\ call[c].pc \in {"read", "writing"}
    BY <1>2
  <2>2. Began(d) /\ (result[d] = "error" \/ TwoKeys(c, d))
    BY <2>1 DEF SinceInv
  <2> QED
    BY <1>1, <2>1, <2>2 DEF TwoKeys
<1>3. \A c \in Calls : /\ \A d \in call'[c].since : Began(d)'
                       /\ call'[c].pc \in Early => call'[c].since = {}
  BY DEF SinceInv
<1>4. ASSUME NEW p \in lost
      PROVE  /\ Began(p[1])' /\ Began(p[2])'
             /\ result'[p[1]] = "error" \/ p[2] \in left' \/ TwoKeys(p[2], p[1])'
  <2>1. p[1] \in Calls /\ p[2] \in Calls /\ Began(p[1]) /\ Began(p[2])
    BY DEF SinceInv
  <2>2. result[p[1]] = "error" \/ p[2] \in left \/ TwoKeys(p[2], p[1])
    BY DEF SinceInv, NoLostEdit, TwoKeys
  <2> QED
    BY <1>1, <2>1, <2>2 DEF TwoKeys
<1>5. NoLostEdit'
  BY <1>4 DEF NoLostEdit, TwoKeys
<1> QED
  BY <1>2, <1>3, <1>4, <1>5 DEF SinceInv

(* A call that ends, with its place in a line or without. *)
LEMMA EndFacts ==
    ASSUME Shape, NEW c \in Calls, NEW o \in {"ok", "error"}, End(c, o)
    PROVE  /\ call' = [call EXCEPT ![c].pc = "done"] /\ call' \in [Calls -> CallRecords]
           /\ call'[c].pc = "done" /\ result'[c] = o
           /\ result' \in [Calls -> {"none", "ok", "error"}]
           /\ \A d \in Calls : d # c => call'[d] = call[d] /\ result'[d] = result[d]
           /\ \A d \in Calls : /\ call'[d].key = call[d].key /\ call'[d].blind = call[d].blind
                               /\ call'[d].since = call[d].since /\ call'[d].lock = call[d].lock
                               /\ call[d].since \in SUBSET Calls
<1>1. /\ call' = [call EXCEPT ![c].pc = "done"] /\ result' = [result EXCEPT ![c] = o]
      /\ \A d \in Calls : call[d] \in CallRecords
  BY DEF Shape, End, Goto
<1>2. \A d \in Calls : d # c => call'[d] = call[d] /\ result'[d] = result[d]
  BY <1>1 DEF Shape
<1>3. call'[c] = [call[c] EXCEPT !.pc = "done"] /\ result'[c] = o
  BY <1>1 DEF Shape
<1>4. call'[c] \in CallRecords
  BY <1>1, <1>3 DEF CallRecords, Places
<1>5. call' \in [Calls -> CallRecords] /\ result' \in [Calls -> {"none", "ok", "error"}]
  BY <1>1, <1>2, <1>4 DEF Shape
<1>6. /\ call'[c].pc = "done" /\ call'[c].key = call[c].key /\ call'[c].blind = call[c].blind
      /\ call'[c].since = call[c].since /\ call'[c].lock = call[c].lock
  BY <1>1, <1>3 DEF CallRecords
<1>7. \A d \in Calls : call[d].since \in SUBSET Calls
  BY <1>1 DEF CallRecords
<1> QED
  BY <1>1, <1>2, <1>3, <1>5, <1>6, <1>7

LEMMA EndingKeeps ==
    ASSUME MutationInv, NEW c \in Calls, NEW o \in {"ok", "error"}, End(c, o),
           call[c].pc # "done",
           InLine(c) => Leave(c), ~ InLine(c) => UNCHANGED queue,
           UNCHANGED <<file, lost>>,
           \A d \in Calls : thread'[d] \in {thread[d], <<>>},
           thread' \in [Calls -> {<<>>} \cup Contents],
           left' = left \/ (left' = left \cup {c} /\ o = "error"),
           thread'[c] # <<>> => c \in left'
    PROVE  MutationInv'
<1>1. QueueInv' /\ paths' \in [Routes -> {0} \cup Locks] /\ users' \in [Locks -> Nat]
      /\ waiting' \in [Locks -> Seq(Calls)] /\ locks' = locks
  <2>1. CASE InLine(c)
    BY <2>1, EndFacts, LeavingLine DEF MutationInv, Leave
  <2>2. CASE ~ InLine(c)
    <3>1. \A d \in Calls :
                /\ InLine(d)' <=> InLine(d)
                /\ Inside(d)' => Inside(d) \/ waiting[call[d].lock][1] = d
                /\ call'[d].lock = call[d].lock
                /\ InLine(d) => call'[d].key = call[d].key
                /\ call'[d].pc \in {"new", "keying", "keyed"} => call[d].pc \in {"new", "keying", "keyed"}
      BY <2>2, EndFacts DEF MutationInv, InLine, Inside
    <3> QED
      BY <2>2, <3>1, SameLines DEF MutationInv, queue, Shape
  <2> QED
    BY <2>1, <2>2
<1>2. Shape'
  BY <1>1, EndFacts DEF MutationInv, Shape
<1>3. ThreadInv'
  <2>1. result[c] = "none" /\ c \notin left
    BY DEF MutationInv, ThreadInv, Shape
  <2>2. \A d \in Calls : d # c => call'[d] = call[d] /\ result'[d] = result[d]
    BY EndFacts DEF MutationInv
  <2>3. call'[c].pc = "done" /\ result'[c] = o
    BY EndFacts DEF MutationInv
  <2>4. ASSUME NEW d \in Calls, thread'[d] # <<>>
        PROVE  (call'[d].pc = "writing" \/ d \in left') /\ d \in Head(thread'[d])
    <3>1. thread'[d] = thread[d] /\ thread[d] # <<>>
      BY <2>4
    <3>2. (call[d].pc = "writing" \/ d \in left) /\ d \in Head(thread[d])
      BY <3>1 DEF MutationInv, ThreadInv
    <3> QED
      BY <2>2, <2>4, <3>1, <3>2
  <2>5. \A d \in left' : result'[d] = "error"
    BY <2>1, <2>2, <2>3 DEF MutationInv, ThreadInv, Shape
  <2>6. \A d \in Calls : result'[d] # "none" => call'[d].pc = "done"
    BY <2>2, <2>3 DEF MutationInv, ThreadInv
  <2>7. \A d \in Calls : call'[d].key = "linked" => call'[d].blind
    BY EndFacts DEF MutationInv, ThreadInv
  <2> QED
    BY <2>4, <2>5, <2>6, <2>7 DEF ThreadInv
<1>4. SinceInv'
  <2>1. \A d \in Calls :
                /\ Began(d) => Began(d)'
                /\ result[d] = "error" => result'[d] = "error"
                /\ call'[d].pc \in {"read", "writing"} => call[d].pc \in {"read", "writing"}
                /\ call'[d].pc \in Early => call[d].pc \in Early
    BY EndFacts DEF MutationInv, ThreadInv, Began, Early
  <2>2. left \subseteq left' /\ lost \in SUBSET (Calls \X Calls) /\ lost' = lost
    BY DEF MutationInv, Shape
  <2> QED
    BY <2>1, <2>2, EndFacts, KeepsSince DEF MutationInv
<1> QED
  BY <1>1, <1>2, <1>3, <1>4 DEF MutationInv

(* Two calls in their operations at once, which the lock allows only if they have two keys. *)
LEMMA InsideApart ==
    ASSUME Shape, QueueInv, ThreadInv, NEW c \in Calls, NEW d \in Calls, c # d, Inside(c), Inside(d)
    PROVE  TwoKeys(c, d)
<1>1. InLine(c) /\ InLine(d)
  BY DEF Inside, InLine
<1>2. waiting[call[c].lock][1] = c /\ waiting[call[d].lock][1] = d
  BY DEF QueueInv, HoldInv
<1>3. paths[call[c].key] = call[c].lock /\ paths[call[d].key] = call[d].lock
  BY <1>1 DEF QueueInv, EntryInv
<1>4. call[c].key # call[d].key
  BY <1>2, <1>3
<1>5. call[c].key \in Routes /\ call[d].key \in Routes
  BY DEF Shape, CallRecords
<1>6. call[c].key = "linked" \/ call[d].key = "linked"
  BY <1>4, <1>5 DEF Routes
<1> QED
  BY <1>4, <1>6 DEF TwoKeys, ThreadInv

(* The replacement in the thread: a call that reported success and has the writer's key cannot
   have written since the writer read. *)
LEMMA LandKeeps ==
    ASSUME MutationInv, NEW c \in Calls, Land(c)
    PROVE  MutationInv'
<1>1. /\ file' = Head(thread[c]) /\ lost' = lost \cup {<<d, c>> : d \in Gone(c)}
      /\ thread' = [thread EXCEPT ![c] = <<>>] /\ thread[c] # <<>>
      /\ UNCHANGED queue /\ UNCHANGED <<paths, users, waiting, locks, result, left>>
  BY DEF Land, queue
<1>2. \A d \in Calls :
        /\ call'[d].pc = call[d].pc /\ call'[d].key = call[d].key /\ call'[d].blind = call[d].blind
        /\ call'[d].lock = call[d].lock
        /\ call'[d].since = call[d].since \/ (Editing(d) /\ call'[d].since = call[d].since \cup {c})
        /\ call[d].since \in SUBSET Calls
  <2>1. ASSUME NEW d \in Calls
        PROVE  /\ call'[d] \in {call[d], [call[d] EXCEPT !.since = call[d].since \cup {c}]}
               /\ Editing(d) \/ call'[d] = call[d]
               /\ call[d] \in CallRecords
    BY DEF Land, MutationInv, Shape
  <2> QED
    BY <2>1 DEF CallRecords
<1>3. call' \in [Calls -> CallRecords]
  <2>1. ASSUME NEW d \in Calls
        PROVE  (IF Editing(d) THEN [call[d] EXCEPT !.since = @ \cup {c}] ELSE call[d]) \in CallRecords
    <3>1. call[d] \in CallRecords
      BY DEF MutationInv, Shape
    <3>2. [call[d] EXCEPT !.since = @ \cup {c}] \in CallRecords
      BY <3>1 DEF CallRecords
    <3> QED
      BY <3>1, <3>2
  <2> QED
    BY <2>1 DEF Land
<1>4. Head(thread[c]) \in SUBSET Calls /\ c \in Head(thread[c]) /\ (call[c].pc = "writing" \/ c \in left)
  <2>1. thread[c] \in Contents /\ c \in Head(thread[c]) /\ (call[c].pc = "writing" \/ c \in left)
    BY <1>1 DEF MutationInv, Shape, ThreadInv
  <2>2. PICK s \in SUBSET Calls : thread[c] = <<s>>
    BY <2>1 DEF Contents
  <2> QED
    BY <2>1, <2>2
<1>5. \A d \in Gone(c) : d \in Calls /\ d \in call[c].since /\ d # c
  <2>1. \A d \in Gone(c) : d \in call[c].since /\ d \notin Head(thread[c])
    BY DEF Gone
  <2> QED
    BY <1>2, <1>4, <2>1
<1>6. \A d \in Calls : (InLine(d)' <=> InLine(d)) /\ (Inside(d)' <=> Inside(d)) /\ (Began(d)' <=> Began(d))
  BY <1>2 DEF InLine, Inside, Began
<1>7. Shape'
  <2>1. thread' \in [Calls -> {<<>>} \cup Contents]
    BY <1>1 DEF MutationInv, Shape
  <2>2. lost' \in SUBSET (Calls \X Calls)
    BY <1>1, <1>5 DEF MutationInv, Shape
  <2> QED
    BY <1>1, <1>3, <1>4, <2>1, <2>2 DEF MutationInv, Shape
<1>8. QueueInv'
  BY <1>1, <1>2, <1>6, SameLines DEF MutationInv
<1>9. ThreadInv'
  <2>1. \A d \in Calls : thread'[d] # <<>> => thread'[d] = thread[d]
    BY <1>1 DEF MutationInv, Shape
  <2> QED
    BY <1>1, <1>2, <2>1 DEF MutationInv, ThreadInv
<1>10. Began(c) /\ (call[c].pc = "writing" \/ result[c] = "error")
  BY <1>4 DEF MutationInv, ThreadInv, Began
<1>11. \A a, b \in Calls : TwoKeys(a, b)' <=> TwoKeys(a, b)
  BY <1>2 DEF TwoKeys
<1>12. ASSUME NEW d \in Calls, call'[d].pc \in {"read", "writing"}, NEW x \in call'[d].since \ {d}
       PROVE  result'[x] = "error" \/ TwoKeys(d, x)'
  <2>1. CASE x \in call[d].since
    BY <1>1, <1>2, <1>11, <1>12, <2>1 DEF MutationInv, SinceInv
  <2>2. CASE x = c /\ call[c].pc = "writing"
    <3>1. Inside(c) /\ Inside(d) /\ c # d
      BY <1>2, <1>12, <2>2 DEF Inside
    <3>2. TwoKeys(d, c)
      BY <3>1, InsideApart DEF MutationInv
    <3> QED
      BY <1>11, <2>2, <3>2
  <2> QED
    BY <1>1, <1>2, <1>10, <1>12, <2>1, <2>2
<1>13. \A d \in Calls : \A x \in call'[d].since : Began(x)'
  <2>1. ASSUME NEW d \in Calls, NEW x \in call'[d].since PROVE Began(x) /\ x \in Calls
    BY <1>2, <1>10, <2>1 DEF MutationInv, SinceInv
  <2> QED
    BY <1>6, <2>1
<1>14. ASSUME NEW p \in lost'
       PROVE  /\ Began(p[1])' /\ Began(p[2])'
              /\ result'[p[1]] = "error" \/ p[2] \in left' \/ TwoKeys(p[2], p[1])'
  <2>1. CASE p \in lost
    <3>1. p[1] \in Calls /\ p[2] \in Calls
      BY <2>1 DEF MutationInv, Shape
    <3>2. Began(p[1]) /\ Began(p[2])
      BY <2>1 DEF MutationInv, SinceInv
    <3>3. result[p[1]] = "error" \/ p[2] \in left \/ TwoKeys(p[2], p[1])
      BY <2>1 DEF MutationInv, SinceInv, NoLostEdit, TwoKeys
    <3> QED
      BY <1>1, <1>6, <1>11, <3>1, <3>2, <3>3
  <2>2. CASE \E d \in Gone(c) : p = <<d, c>>
    <3>1. PICK d \in Gone(c) : p = <<d, c>>
      BY <2>2
    <3>2. p[1] = d /\ p[2] = c /\ d \in Calls /\ d \in call[c].since \ {c}
      BY <1>5, <3>1
    <3>3. Began(d)
      BY <3>2 DEF MutationInv, SinceInv
    <3>4. c \in left \/ result[d] = "error" \/ TwoKeys(c, d)
      BY <1>4, <3>2 DEF MutationInv, SinceInv
    <3> QED
      BY <1>1, <1>6, <1>10, <1>11, <3>2, <3>3, <3>4
  <2> QED
    BY <1>1, <1>14, <2>1, <2>2
<1>15. SinceInv'
  <2>1. NoLostEdit'
    BY <1>14 DEF NoLostEdit, TwoKeys
  <2>2. ASSUME NEW d \in Calls, call'[d].pc \in Early PROVE call'[d].since = {}
    <3>1. call[d].pc \in Early /\ call[d].since = {}
      BY <1>2, <2>2 DEF MutationInv, SinceInv
    <3>2. ~ Editing(d)
      BY <3>1 DEF MutationInv, ThreadInv, Editing, At, Early
    <3> QED
      BY <1>2, <3>1, <3>2
  <2> QED
    BY <1>12, <1>13, <1>14, <2>1, <2>2 DEF SinceInv
<1> QED
  BY <1>7, <1>8, <1>9, <1>15 DEF MutationInv

(* A step of one call that only moves it and lets it see, have a key, or hand its write over. *)
LEMMA MovingKeeps ==
    ASSUME MutationInv, NEW c \in Calls, NEW r \in CallRecords,
           call' = [call EXCEPT ![c] = r],
           QueueInv', paths' \in [Routes -> {0} \cup Locks], users' \in [Locks -> Nat],
           waiting' \in [Locks -> Seq(Calls)], locks' \in {0} \cup Locks,
           UNCHANGED <<file, result, left, lost>>,
           thread' \in [Calls -> {<<>>} \cup Contents],
           \A d \in Calls : thread'[d] # thread[d] =>
                d = c /\ r.pc = "writing" /\ c \in Head(thread'[c]),
           call[c].pc \notin {"writing", "done"}, r.pc # "done",
           r.key = "linked" => r.blind,
           call[c].pc = "read" => r.key = call[c].key /\ r.blind = call[c].blind,
           \/ r.since = {}
           \/ r.since = call[c].since /\ (r.pc \in {"read", "writing"} <=> call[c].pc = "read")
    PROVE  MutationInv'
<1>1. call'[c] = r /\ call' \in [Calls -> CallRecords] /\ \A d \in Calls : d # c => call'[d] = call[d]
  BY DEF MutationInv, Shape
<1>2. Shape'
  BY <1>1 DEF MutationInv, Shape
<1>3. result[c] = "none" /\ c \notin left
  BY DEF MutationInv, ThreadInv, Shape
<1>4. ThreadInv'
  <2>1. ASSUME NEW d \in Calls, thread'[d] # <<>>
        PROVE  (call'[d].pc = "writing" \/ d \in left') /\ d \in Head(thread'[d])
    <3>1. CASE thread'[d] = thread[d]
      <4>1. (call[d].pc = "writing" \/ d \in left) /\ d \in Head(thread[d])
        BY <2>1, <3>1 DEF MutationInv, ThreadInv
      <4>2. d # c
        BY <1>3, <4>1
      <4> QED
        BY <1>1, <3>1, <4>1, <4>2
    <3>2. CASE thread'[d] # thread[d]
      BY <1>1, <3>2
    <3> QED
      BY <3>1, <3>2
  <2>2. \A d \in left' : result'[d] = "error"
    BY DEF MutationInv, ThreadInv
  <2>3. \A d \in Calls : result'[d] # "none" => call'[d].pc = "done"
    BY <1>1, <1>3 DEF MutationInv, ThreadInv
  <2>4. \A d \in Calls : call'[d].key = "linked" => call'[d].blind
    BY <1>1 DEF MutationInv, ThreadInv
  <2> QED
    BY <2>1, <2>2, <2>3, <2>4 DEF ThreadInv
<1>5. SinceInv'
  <2>1. \A d \in Calls : call[d].since \in SUBSET Calls
    BY DEF MutationInv, Shape, CallRecords
  <2>2. ASSUME NEW d \in Calls
        PROVE  /\ call[d].pc \in {"read", "writing", "done"} =>
                        call'[d].key = call[d].key /\ call'[d].blind = call[d].blind
               /\ Began(d) => Began(d)'
               /\ result[d] = "error" => result'[d] = "error"
               /\ \/ call'[d].since = {}
                  \/ /\ call'[d].since = call[d].since /\ call[d].since \in SUBSET Calls
                     /\ call'[d].pc \in {"read", "writing"} => call[d].pc \in {"read", "writing"}
                     /\ call'[d].pc \in Early => call[d].pc \in Early
    <3>1. CASE d # c
      BY <1>1, <2>1, <3>1 DEF Began
    <3>2. CASE d = c
      <4>1. call[c].pc \in Early \cup {"read"}
        BY DEF MutationInv, Shape, CallRecords, Places, Early
      <4> QED
        BY <1>1, <2>1, <3>2, <4>1 DEF Began, Early
    <3> QED
      BY <3>1, <3>2
  <2>3. SinceInv /\ lost' = lost /\ left \subseteq left' /\ lost \in SUBSET (Calls \X Calls)
    BY DEF MutationInv, Shape
  <2> QED
    BY <2>2, <2>3, KeepsSince
<1> QED
  BY <1>2, <1>4, <1>5 DEF MutationInv

-----------------------------------------------------------------------------
(* Each step. *)

LEMMA BeginKeeps ==
    ASSUME MutationInv, NEW c \in Calls, NEW route \in Routes, Begin(c, route)
    PROVE  MutationInv'
<1> DEFINE r == [NewCall EXCEPT !.pc = "keying", !.route = route]
<1>1. r \in CallRecords /\ r.pc = "keying" /\ r.key = "direct" /\ r.since = {} /\ r.lock = 0
  BY DEF NewCall, CallRecords, Places, Routes
<1>2. call' = [call EXCEPT ![c] = r] /\ call[c].pc = "new" /\ UNCHANGED queue
      /\ UNCHANGED <<file, thread, paths, users, waiting, locks, result, left, lost>>
  BY DEF Begin, At, queue
<1> HIDE DEF r
<1>3. call'[c] = r /\ \A d \in Calls : d # c => call'[d] = call[d]
  BY <1>2 DEF MutationInv, Shape
<1>4. call[c].lock = 0
  BY <1>2 DEF MutationInv, QueueInv, LineInv
<1>5. ASSUME NEW d \in Calls
      PROVE  /\ InLine(d)' <=> InLine(d)
             /\ Inside(d)' => Inside(d) \/ waiting[call[d].lock][1] = d
             /\ call'[d].lock = call[d].lock
             /\ InLine(d) => call'[d].key = call[d].key
             /\ call'[d].pc \in {"new", "keying", "keyed"} => call[d].pc \in {"new", "keying", "keyed"}
  BY <1>1, <1>2, <1>3, <1>4 DEF InLine, Inside
<1>6. QueueInv'
  BY <1>2, <1>5, SameLines DEF MutationInv
<1>7. Shape
  BY DEF MutationInv
<1> QED
  BY <1>1, <1>2, <1>6, <1>7, MovingKeeps DEF Shape

LEMMA KeyKeeps ==
    ASSUME MutationInv, NEW c \in Calls, Key(c)
    PROVE  MutationInv'
<1> DEFINE key == IF file = Absent THEN call[c].route ELSE "direct"
           r == [call[c] EXCEPT !.pc = "keyed", !.key = key, !.blind = file = Absent]
<1>1. call[c] \in CallRecords /\ call[c].pc = "keying"
  BY DEF Key, At, MutationInv, Shape
<1>2. key \in Routes /\ (key = "linked" => file = Absent)
  BY <1>1 DEF CallRecords, Routes
<1>3. call' = [call EXCEPT ![c] = r] /\ UNCHANGED queue
      /\ UNCHANGED <<file, thread, paths, users, waiting, locks, result, left, lost>>
  BY DEF Key, queue, MutationInv, Shape
<1> HIDE DEF key
<1>4. /\ r \in CallRecords /\ r.pc = "keyed" /\ r.key = key /\ r.blind = (file = Absent)
      /\ r.since = call[c].since /\ r.lock = call[c].lock
  BY <1>1, <1>2 DEF CallRecords, Places
<1> HIDE DEF r
<1>5. call'[c] = r /\ \A d \in Calls : d # c => call'[d] = call[d]
  BY <1>3 DEF MutationInv, Shape
<1>6. ASSUME NEW d \in Calls
      PROVE  /\ InLine(d)' <=> InLine(d)
             /\ Inside(d)' => Inside(d) \/ waiting[call[d].lock][1] = d
             /\ call'[d].lock = call[d].lock
             /\ InLine(d) => call'[d].key = call[d].key
             /\ call'[d].pc \in {"new", "keying", "keyed"} => call[d].pc \in {"new", "keying", "keyed"}
  BY <1>1, <1>4, <1>5 DEF InLine, Inside
<1>7. QueueInv'
  BY <1>3, <1>6, SameLines DEF MutationInv
<1>8. Shape
  BY DEF MutationInv
<1> QED
  BY <1>1, <1>2, <1>3, <1>4, <1>7, <1>8, MovingKeeps DEF Shape

LEMMA RegisterKeeps ==
    ASSUME IsFiniteSet(Calls), MutationInv, NEW c \in Calls, Register(c)
    PROVE  MutationInv'
<1>1. /\ QueueInv'
      /\ paths' \in [Routes -> {0} \cup Locks] /\ locks' \in {0} \cup Locks
      /\ users' \in [Locks -> Nat] /\ waiting' \in [Locks -> Seq(Calls)]
      /\ call' \in [Calls -> CallRecords]
  BY JoiningLine DEF MutationInv
<1>2. PICK l : call' = [call EXCEPT ![c].pc = "queued", ![c].lock = l]
  BY DEF Register
<1> DEFINE r == [call[c] EXCEPT !.pc = "queued", !.lock = l]
<1>3. call[c] \in CallRecords /\ call[c].pc = "keyed"
  BY DEF Register, At, MutationInv, Shape
<1>4. call' = [call EXCEPT ![c] = r] /\ call'[c] = r
  BY <1>2 DEF MutationInv, Shape
<1>5. r.pc = "queued" /\ r.key = call[c].key /\ r.blind = call[c].blind /\ r.since = call[c].since
  BY <1>3 DEF CallRecords
<1>6. r \in CallRecords
  BY <1>1, <1>4
<1> HIDE DEF r
<1>7. UNCHANGED <<file, thread, result, left, lost>>
  BY DEF Register
<1>8. r.key = "linked" => r.blind
  BY <1>5 DEF MutationInv, ThreadInv
<1>9. Shape
  BY DEF MutationInv
<1> QED
  BY <1>1, <1>3, <1>4, <1>5, <1>6, <1>7, <1>8, <1>9, MovingKeeps DEF Shape

(* The first in line goes on with its operation. *)
LEMMA AdvancingKeeps ==
    ASSUME MutationInv, NEW c \in Calls, NEW r \in CallRecords,
           call' = [call EXCEPT ![c] = r], UNCHANGED queue, UNCHANGED <<file, result, left, lost>>,
           call[c].pc \in {"queued", "reading", "read"}, waiting[call[c].lock][1] = c,
           r.pc \in {"reading", "read", "writing"},
           r.key = call[c].key /\ r.blind = call[c].blind /\ r.lock = call[c].lock,
           \/ r.since = {}
           \/ r.since = call[c].since /\ (r.pc \in {"read", "writing"} <=> call[c].pc = "read"),
           thread' \in [Calls -> {<<>>} \cup Contents],
           \A d \in Calls : thread'[d] # thread[d] =>
                d = c /\ r.pc = "writing" /\ c \in Head(thread'[c])
    PROVE  MutationInv'
<1>1. call'[c] = r /\ \A d \in Calls : d # c => call'[d] = call[d]
  BY DEF MutationInv, Shape
<1>2. ASSUME NEW d \in Calls
      PROVE  /\ InLine(d)' <=> InLine(d)
             /\ Inside(d)' => Inside(d) \/ waiting[call[d].lock][1] = d
             /\ call'[d].lock = call[d].lock
             /\ InLine(d) => call'[d].key = call[d].key
             /\ call'[d].pc \in {"new", "keying", "keyed"} => call[d].pc \in {"new", "keying", "keyed"}
  BY <1>1 DEF InLine, Inside
<1>3. QueueInv'
  BY <1>2, SameLines DEF MutationInv
<1>4. UNCHANGED <<paths, users, waiting, locks>>
  BY DEF queue
<1>5. r.key = "linked" => r.blind
  BY DEF MutationInv, ThreadInv
<1>6. Shape
  BY DEF MutationInv
<1> QED
  BY <1>3, <1>4, <1>5, <1>6, MovingKeeps DEF Shape

LEMMA LineIsThere ==
    ASSUME Shape, QueueInv, NEW c \in Calls, InLine(c)
    PROVE  call[c].lock \in Locks /\ Head(waiting[call[c].lock]) = waiting[call[c].lock][1]
<1>1. call[c].lock \in Locks /\ waiting[call[c].lock] # <<>>
  <2>1. call[c].lock \in Locks /\ \E i \in DOMAIN waiting[call[c].lock] : waiting[call[c].lock][i] = c
    BY DEF QueueInv, LineInv, Shape, CallRecords
  <2> QED
    BY <2>1, EmptySeq
<1> QED
  BY <1>1, HeadTailProperties DEF Shape

LEMMA EnterKeeps ==
    ASSUME MutationInv, NEW c \in Calls, Enter(c)
    PROVE  MutationInv'
<1>1. call[c] \in CallRecords /\ call[c].pc = "queued" /\ InLine(c) /\ Shape /\ QueueInv
  BY DEF Enter, At, InLine, MutationInv, Shape
<1>2. waiting[call[c].lock][1] = c
  BY <1>1, LineIsThere DEF Enter, Holds
<1>3. CASE c \in signalled
  <2>1. End(c, "error") /\ Leave(c) /\ UNCHANGED <<file, thread, left, lost>>
    BY <1>3 DEF Enter
  <2>2. thread' \in [Calls -> {<<>>} \cup Contents] /\ (thread'[c] # <<>> => c \in left')
    BY <1>1, <2>1 DEF MutationInv, ThreadInv, Shape
  <2> QED
    BY <1>1, <2>1, <2>2, EndingKeeps
<1>4. CASE c \notin signalled
  <2> DEFINE r == [call[c] EXCEPT !.pc = "reading"]
  <2>1. call' = [call EXCEPT ![c] = r] /\ UNCHANGED queue /\ UNCHANGED <<file, thread, result, left, lost>>
    BY <1>1, <1>4 DEF Enter, Goto, Shape
  <2>2. r \in CallRecords /\ r.pc = "reading" /\ r.key = call[c].key /\ r.blind = call[c].blind
        /\ r.since = call[c].since /\ r.lock = call[c].lock
    BY <1>1 DEF CallRecords, Places
  <2> HIDE DEF r
  <2>3. thread' \in [Calls -> {<<>>} \cup Contents] /\ UNCHANGED <<file, result, left, lost>>
        /\ \A d \in Calls : thread'[d] = thread[d]
    BY <1>1, <2>1 DEF Shape
  <2> QED
    BY <1>1, <1>2, <2>1, <2>2, <2>3, AdvancingKeeps
<1> QED
  BY <1>3, <1>4

LEMMA ReadKeeps ==
    ASSUME MutationInv, NEW c \in Calls, Read(c)
    PROVE  MutationInv'
<1> DEFINE held == IF file = Absent THEN {} ELSE file
           r == [call[c] EXCEPT !.pc = "read", !.seen = held]
<1>1. call[c] \in CallRecords /\ call[c].pc = "reading" /\ Shape
  BY DEF Read, At, MutationInv, Shape
<1>2. held \in SUBSET Calls
  BY <1>1 DEF Shape
<1>3. call' = [call EXCEPT ![c] = r] /\ UNCHANGED queue /\ UNCHANGED <<file, thread, result, left, lost>>
  BY <1>1 DEF Read, Shape
<1> HIDE DEF held
<1>4. r \in CallRecords /\ r.pc = "read" /\ r.key = call[c].key /\ r.blind = call[c].blind
      /\ r.since = call[c].since /\ r.lock = call[c].lock
  BY <1>1, <1>2 DEF CallRecords, Places
<1> HIDE DEF r
<1>5. r.since = {}
  BY <1>1, <1>4 DEF MutationInv, SinceInv, Early
<1>6. waiting[call[c].lock][1] = c
  BY <1>1 DEF MutationInv, QueueInv, HoldInv, Inside
<1>7. thread' \in [Calls -> {<<>>} \cup Contents] /\ UNCHANGED <<file, result, left, lost>>
      /\ \A d \in Calls : thread'[d] = thread[d]
  BY <1>1, <1>3 DEF Shape
<1> QED
  BY <1>1, <1>3, <1>4, <1>5, <1>6, <1>7, AdvancingKeeps

LEMMA SubmitKeeps ==
    ASSUME MutationInv, NEW c \in Calls, Submit(c)
    PROVE  MutationInv'
<1> DEFINE text == IF c \notin Writers THEN call[c].seen \cup {c} ELSE {c}
           r == [call[c] EXCEPT !.pc = "writing"]
<1>1. call[c] \in CallRecords /\ call[c].pc = "read" /\ Shape
  BY DEF Submit, At, MutationInv, Shape
<1>2. text \in SUBSET Calls /\ c \in text
  BY <1>1 DEF CallRecords
<1>3. /\ call' = [call EXCEPT ![c] = r] /\ UNCHANGED queue /\ UNCHANGED <<file, result, left, lost>>
      /\ thread' = [thread EXCEPT ![c] = <<text>>]
  BY <1>1 DEF Submit, Goto, Shape
<1> HIDE DEF text
<1>4. r \in CallRecords /\ r.pc = "writing" /\ r.key = call[c].key /\ r.blind = call[c].blind
      /\ r.since = call[c].since /\ r.lock = call[c].lock
  BY <1>1 DEF CallRecords, Places
<1> HIDE DEF r
<1>5. waiting[call[c].lock][1] = c
  BY <1>1 DEF MutationInv, QueueInv, HoldInv, Inside
<1>6. <<text>> \in Contents /\ Head(<<text>>) = text
  BY <1>2 DEF Contents
<1>7. thread' \in [Calls -> {<<>>} \cup Contents] /\ thread'[c] = <<text>>
      /\ \A d \in Calls : d # c => thread'[d] = thread[d]
  BY <1>1, <1>3, <1>6 DEF Shape
<1> QED
  BY <1>1, <1>2, <1>3, <1>4, <1>5, <1>6, <1>7, AdvancingKeeps

LEMMA RefuseKeeps ==
    ASSUME MutationInv, NEW c \in Calls, Refuse(c)
    PROVE  MutationInv'
<1>1. call[c].pc = "read" /\ InLine(c) /\ Leave(c) /\ UNCHANGED <<file, thread, left, lost>>
  BY DEF Refuse, At, InLine
<1>2. PICK o \in {"ok", "error"} : End(c, o)
  BY DEF Refuse
<1>3. /\ thread' \in [Calls -> {<<>>} \cup Contents] /\ (thread'[c] # <<>> => c \in left')
      /\ \A d \in Calls : thread'[d] \in {thread[d], <<>>}
  BY <1>1 DEF MutationInv, ThreadInv, Shape
<1> QED
  BY <1>1, <1>2, <1>3, EndingKeeps

LEMMA WrittenKeeps ==
    ASSUME MutationInv, NEW c \in Calls, Written(c)
    PROVE  MutationInv'
<1>1. call[c].pc = "writing" /\ InLine(c) /\ Leave(c) /\ UNCHANGED <<file, thread, left, lost>>
      /\ thread[c] = <<>>
  BY DEF Written, At, InLine
<1>2. PICK o \in {"ok", "error"} : End(c, o)
  BY DEF Written
<1>3. /\ thread' \in [Calls -> {<<>>} \cup Contents] /\ (thread'[c] # <<>> => c \in left')
      /\ \A d \in Calls : thread'[d] \in {thread[d], <<>>}
  BY <1>1 DEF MutationInv, ThreadInv, Shape
<1> QED
  BY <1>1, <1>2, <1>3, EndingKeeps

LEMMA LandFailsKeeps ==
    ASSUME MutationInv, NEW c \in Calls, LandFails(c)
    PROVE  MutationInv'
<1>1. thread' = [thread EXCEPT ![c] = <<>>] /\ UNCHANGED <<file, left, lost>> /\ Shape
  BY DEF LandFails, MutationInv
<1>2. /\ thread' \in [Calls -> {<<>>} \cup Contents] /\ thread'[c] = <<>>
      /\ \A d \in Calls : thread'[d] \in {thread[d], <<>>}
  BY <1>1 DEF Shape
<1>3. CASE At(c, "writing")
  <2>1. End(c, "error") /\ Leave(c) /\ call[c].pc = "writing" /\ InLine(c)
    BY <1>3 DEF LandFails, At, InLine
  <2> QED
    BY <1>1, <1>2, <2>1, EndingKeeps
<1>4. CASE ~ At(c, "writing")
  <2>1. UNCHANGED <<file, call, paths, users, waiting, locks, result, left, lost>> /\ UNCHANGED queue
    BY <1>1, <1>4 DEF LandFails, queue
  <2>2. Shape'
    BY <1>1, <1>2, <2>1 DEF Shape
  <2>3. QueueInv'
    BY <2>1, SameLines DEF MutationInv, InLine, Inside
  <2>4. ThreadInv'
    BY <1>2, <2>1 DEF MutationInv, ThreadInv
  <2>5. SinceInv'
    BY <2>1 DEF MutationInv, SinceInv, NoLostEdit, TwoKeys, Began
  <2> QED
    BY <2>2, <2>3, <2>4, <2>5 DEF MutationInv
<1> QED
  BY <1>3, <1>4

LEMMA CancelTaskKeeps ==
    ASSUME MutationInv, NEW c \in Calls, CancelTask(c)
    PROVE  MutationInv'
<1>1. /\ End(c, "error") /\ UNCHANGED <<file, lost>> /\ Shape /\ QueueInv
      /\ call[c].pc \in {"keying", "keyed", "queued", "reading", "read", "writing"}
      /\ IF call[c].lock # 0 THEN Leave(c) ELSE UNCHANGED queue
  BY DEF CancelTask, MutationInv
<1>2. PICK begun \in BOOLEAN : /\ thread' = [thread EXCEPT ![c] = IF begun THEN thread[c] ELSE <<>>]
                               /\ left' = IF begun THEN left \cup {c} ELSE left
  BY DEF CancelTask, LeaveThread
<1>3. /\ thread' \in [Calls -> {<<>>} \cup Contents] /\ (thread'[c] # <<>> => c \in left')
      /\ \A d \in Calls : thread'[d] \in {thread[d], <<>>}
  BY <1>1, <1>2 DEF Shape
<1>4. (InLine(c) => call[c].lock # 0) /\ (~ InLine(c) => call[c].lock = 0)
  BY <1>1 DEF InLine, QueueInv, LineInv
<1> QED
  BY <1>1, <1>2, <1>3, <1>4, EndingKeeps

LEMMA SameKeeps ==
    ASSUME MutationInv, UNCHANGED <<file, call, thread, queue, result, left, lost>>
    PROVE  MutationInv'
<1>1. UNCHANGED <<file, call, thread, paths, users, waiting, locks, result, left, lost>>
  BY DEF queue
<1>2. Shape'
  BY <1>1 DEF MutationInv, Shape
<1>3. QueueInv'
  BY <1>1, SameLines DEF MutationInv, InLine, Inside
<1>4. ThreadInv'
  BY <1>1 DEF MutationInv, ThreadInv
<1>5. SinceInv'
  BY <1>1 DEF MutationInv, SinceInv, NoLostEdit, TwoKeys, Began
<1> QED
  BY <1>2, <1>3, <1>4, <1>5 DEF MutationInv

LEMMA StepMutationInv == MutationInv /\ [Next]_vars => MutationInv'
<1> SUFFICES ASSUME MutationInv, [Next]_vars PROVE MutationInv'
  OBVIOUS
<1>0. IsFiniteSet(Calls)
  BY MutationAssumption
<1>1. ASSUME NEW c \in Calls, NEW route \in Routes, Begin(c, route) PROVE MutationInv'
  BY <1>1, BeginKeeps
<1>2. ASSUME NEW c \in Calls, Step(c) PROVE MutationInv'
  BY <1>0, <1>2, KeyKeeps, RegisterKeeps, EnterKeeps, ReadKeeps, RefuseKeeps, SubmitKeeps, WrittenKeeps
     DEF Step
<1>3. ASSUME NEW c \in Calls, Land(c) \/ LandFails(c) \/ CancelTask(c) PROVE MutationInv'
  BY <1>0, <1>3, LandKeeps, LandFailsKeeps, CancelTaskKeeps
<1>4. ASSUME NEW c \in Calls, Signal(c) PROVE MutationInv'
  BY <1>4, SameKeeps DEF Signal
<1>5. CASE UNCHANGED vars
  BY <1>5, SameKeeps DEF vars
<1> QED
  BY <1>1, <1>2, <1>3, <1>4, <1>5 DEF Next

-----------------------------------------------------------------------------
(* Lines, locks, threads and what was written since an edit read stay in order through every
   interleaving of calls, cancellations and failed writes: the invariant the property rests on. *)
THEOREM MutationInvariance == Spec => []MutationInv
<1>1. Init => MutationInv
  BY InitMutationInv
<1>2. MutationInv /\ [Next]_vars => MutationInv'
  BY StepMutationInv
<1> QED
  BY <1>1, <1>2, PTL DEF Spec

(* with_file_mutation_queue: no edit undoes what another call of its key reported as done, unless
   a cancelled task left its thread behind, and the lock of a path is one for all and is dropped
   with the last who wants it. *)
THEOREM MutationsAreSerial == Spec => []MutationsSerial
<1>1. MutationInv => MutationsSerial
  <2> SUFFICES ASSUME MutationInv PROVE MutationsSerial
    OBVIOUS
  <2>1. NoLostEdit
    BY DEF MutationInv, SinceInv
  <2>2. EntriesReleased
    BY DEF MutationInv, QueueInv, EntryInv, InLine, EntriesReleased, At
  <2> QED
    BY <2>1, <2>2 DEF MutationsSerial
<1> QED
  BY <1>1, MutationInvariance, PTL

-----------------------------------------------------------------------------
(* ApprovalGate: who is in line, and why a call is where it is. *)
Ends == {"runs", "blocked", "raised"}
GatePlaces == {"new", "queued", "prompting", "audit"} \cup Ends
Yes == {"once", "session", "pattern"}

GateShape ==
    /\ manager \in BOOLEAN /\ asks \in BOOLEAN
    /\ policy \in [Requests -> {"allow", "prompt", "deny"}]
    /\ pc \in [Callers -> GatePlaces] /\ request \in [Callers -> Requests]
    /\ verdict \in [Callers -> {"none", "runs", "blocked"}]
    /\ atLock \in Seq(Callers)
    /\ grants \in SUBSET Requests /\ granted \in SUBSET Requests
    /\ answers \in [Callers -> {"none", "deny"} \cup Yes]
    /\ recorded \in SUBSET Callers /\ mishaps \in Nat

(* The line at the lock is made of the calls that wait for an answer, are asked, or write
   their audit record, each once; who is asked, or writes a record with the lock, is the
   first. *)
AtLock(c) == \E i \in DOMAIN atLock : atLock[i] = c
GateLine ==
    /\ \A i, j \in DOMAIN atLock : atLock[i] = atLock[j] => i = j
    /\ \A c \in Callers : AtLock(c) => pc[c] \in {"queued", "prompting", "audit"}
    /\ \A c \in Callers : pc[c] \in {"queued", "prompting"} => AtLock(c)
    /\ \A c \in Callers : pc[c] \in {"prompting", "audit"} /\ AtLock(c) => atLock[1] = c

(* What a call may run on. *)
Granted(c) == answers[c] \in Yes \/ request[c] \in granted
GateWhy ==
    /\ grants \subseteq granted
    /\ \A c \in Callers : pc[c] \in {"new", "queued", "prompting"} => answers[c] = "none"
    /\ \A c \in Callers : pc[c] = "audit" => verdict[c] # "none"
    /\ \A c \in Callers : pc[c] = "audit" /\ verdict[c] = "runs" /\ policy[request[c]] # "allow" => Granted(c)
    /\ GateSound

GateInv == GateShape /\ GateLine /\ GateWhy

-----------------------------------------------------------------------------
LEMMA LockLeft ==
    ASSUME GateShape, GateLine, NEW c \in Callers, NEW outcome \in Ends, Finish(c, outcome)
    PROVE  /\ atLock' \in Seq(Callers) /\ pc' \in [Callers -> GatePlaces]
           /\ GateLine'
<1> USE DEF GateShape, GateLine, AtLock
<1>1. pc' \in [Callers -> GatePlaces] /\ pc'[c] = outcome /\ \A d \in Callers \ {c} : pc'[d] = pc[d]
  BY DEF Finish, GatePlaces
<1>2. outcome \notin {"queued", "prompting", "audit"}
  BY DEF Ends
<1>3. /\ atLock' \in Seq(Callers)
      /\ \A i, j \in DOMAIN atLock' : atLock'[i] = atLock'[j] => i = j
      /\ \A d \in Callers : AtLock(d)' <=> AtLock(d) /\ d # c
      /\ atLock' # <<>> /\ atLock[1] # c => atLock'[1] = atLock[1]
  <2>0. atLock' = Without(atLock, c)
    BY DEF Finish
  <2>1. CASE AtLock(c)
    <3>1. PICK m \in DOMAIN atLock : atLock[m] = c
      BY <2>1
    <3>2. /\ atLock' \in Seq(Callers)
          /\ \A i \in DOMAIN atLock' : atLock'[i] # c /\ \E j \in DOMAIN atLock : atLock'[i] = atLock[j]
          /\ \A j \in DOMAIN atLock : atLock[j] # c => \E i \in DOMAIN atLock' : atLock'[i] = atLock[j]
          /\ \A i, j \in DOMAIN atLock' : atLock'[i] = atLock'[j] => i = j
          /\ m # 1 => 1 \in DOMAIN atLock' /\ atLock'[1] = atLock[1]
      <4>1. atLock \in Seq(Callers) /\ \A i, j \in DOMAIN atLock : atLock[i] = atLock[j] => i = j
        OBVIOUS
      <4>2. atLock' = Without(atLock, atLock[m])
        BY <2>0, <3>1
      <4> HIDE DEF GateShape, GateLine
      <4>3. atLock' \in Seq(Callers)
        BY <4>1, <4>2, WithoutShape
      <4> QED
        BY <3>1, <4>1, <4>2, <4>3, WithoutMembers
    <3> QED
      BY <3>1, <3>2
  <2>2. CASE ~AtLock(c)
    <3>1. atLock' = atLock
      BY <2>0, <2>2 DEF Without
    <3> QED
      BY <3>1, <2>2
  <2> QED
    BY <2>1, <2>2
<1>4. \A d \in Callers : AtLock(d)' => atLock' # <<>>
  OBVIOUS
<1> QED
  BY <1>1, <1>2, <1>3, <1>4

(* A call that goes on to write its record keeps its place. *)
LEMMA LockKept ==
    ASSUME GateShape, GateLine, NEW c \in Callers, pc' = [pc EXCEPT ![c] = "audit"], atLock' = atLock,
           pc[c] \in {"new", "prompting"}
    PROVE  pc' \in [Callers -> GatePlaces] /\ GateLine'
BY DEF GateShape, GateLine, AtLock, GatePlaces
(* What a decision comes to: a record to write, or a call that has its record, or has raised. *)
LEMMA Decided ==
    ASSUME GateShape, GateLine, NEW c \in Callers, NEW outcome \in {"runs", "blocked"}, Decide(c, outcome),
           pc[c] \in {"new", "prompting"} \/ manager
    PROVE  /\ atLock' \in Seq(Callers) /\ pc' \in [Callers -> GatePlaces]
           /\ verdict' \in [Callers -> {"none", "runs", "blocked"}]
           /\ recorded' \in SUBSET Callers /\ mishaps' \in Nat
           /\ GateLine'
           /\ recorded \subseteq recorded'
           /\ \A d \in Callers \ {c} : pc'[d] = pc[d] /\ verdict'[d] = verdict[d]
           /\ \/ pc'[c] = "audit" /\ verdict'[c] = outcome
              \/ pc'[c] = "raised"
              \/ pc'[c] = outcome /\ c \in recorded'
<1>1. CASE manager
  <2>1. PICK fails \in BOOLEAN :
            /\ Fails(fails) /\ Finish(c, IF fails THEN "raised" ELSE outcome)
            /\ recorded' = recorded \cup {c} /\ UNCHANGED verdict
    BY <1>1 DEF Decide
  <2>2. (IF fails THEN "raised" ELSE outcome) \in Ends
    BY DEF Ends
  <2>3. GateLine' /\ atLock' \in Seq(Callers) /\ pc' \in [Callers -> GatePlaces]
    BY <2>1, <2>2, LockLeft
  <2>4. mishaps' \in Nat
    BY <2>1 DEF Fails, GateShape
  <2> QED
    BY <2>1, <2>3, <2>4 DEF Finish, GateShape
<1>2. CASE ~manager
  <2>1. /\ pc' = [pc EXCEPT ![c] = "audit"] /\ verdict' = [verdict EXCEPT ![c] = outcome]
        /\ UNCHANGED <<atLock, recorded, mishaps>>
    BY <1>2 DEF Decide
  <2>2. pc' \in [Callers -> GatePlaces] /\ GateLine'
    BY <1>2, <2>1, LockKept
  <2> QED
    BY <2>1, <2>2 DEF GateShape
<1> QED
  BY <1>1, <1>2 DEF GateShape

(* A call that comes to an end by itself, with what it runs on, or that raises. *)
LEMMA CallEnded ==
    ASSUME GateInv, NEW c \in Callers, NEW outcome \in Ends, Finish(c, outcome),
           recorded' \in {recorded, recorded \cup {c}},
           UNCHANGED <<manager, policy, asks, request, verdict, grants, answers, granted>>,
           mishaps' \in Nat,
           outcome = "runs" /\ policy[request[c]] # "allow" =>
              Granted(c) /\ (c \in recorded' \/ (answers[c] = "none" /\ request[c] \in granted))
    PROVE  GateInv'
<1>1. atLock' \in Seq(Callers) /\ pc' \in [Callers -> GatePlaces] /\ GateLine'
  BY LockLeft DEF GateInv
<1>2. GateShape'
  BY <1>1 DEF GateInv, GateShape
<1>3. pc'[c] = outcome /\ \A d \in Callers \ {c} : pc'[d] = pc[d]
  BY DEF GateInv, GateShape, Finish
<1>4. outcome \notin {"new", "queued", "prompting", "audit"}
  BY DEF Ends
<1>5. GateWhy'
  BY <1>3, <1>4 DEF GateInv, GateShape, GateWhy, GateSound, Granted, Covered, Yes
<1> QED
  BY <1>1, <1>2, <1>5 DEF GateInv

LEMMA GateStarts == ASSUME GateInit, ApprovalAssumption PROVE GateInv
<1>1. atLock \in Seq(Callers) /\ DOMAIN atLock = {}
  BY DEF GateInit
<1>2. GateShape
  BY <1>1 DEF GateInit, GateShape, GatePlaces
<1>3. GateLine
  BY <1>1 DEF GateInit, GateLine, AtLock
<1>4. GateWhy
  BY <1>2 DEF GateInit, GateShape, GateWhy, GateSound, Covered
<1> QED
  BY <1>2, <1>3, <1>4 DEF GateInv

LEMMA CheckKeeps == ASSUME GateInv, NEW c \in Callers, Check(c) PROVE GateInv'
<1> USE DEF GateInv
<1>0. pc[c] = "new" /\ UNCHANGED <<manager, policy, asks, request, grants, answers, granted>> /\ answers[c] = "none"
  BY DEF Check, GateWhy
<1>1. ASSUME NEW outcome \in {"runs", "blocked"}, Decide(c, outcome),
             outcome = "runs" => policy[request[c]] = "allow" \/ Covered(c)
      PROVE  GateInv'
  <2>1. /\ atLock' \in Seq(Callers) /\ pc' \in [Callers -> GatePlaces]
        /\ verdict' \in [Callers -> {"none", "runs", "blocked"}]
        /\ recorded' \in SUBSET Callers /\ mishaps' \in Nat
        /\ GateLine' /\ recorded \subseteq recorded'
        /\ \A d \in Callers \ {c} : pc'[d] = pc[d] /\ verdict'[d] = verdict[d]
        /\ \/ pc'[c] = "audit" /\ verdict'[c] = outcome
           \/ pc'[c] = "raised"
           \/ pc'[c] = outcome /\ c \in recorded'
    BY <1>0, <1>1, Decided
  <2>2. GateShape'
    BY <1>0, <2>1 DEF GateShape
  <2>3. outcome = "runs" /\ policy[request[c]] # "allow" => request[c] \in granted
    BY <1>1 DEF GateWhy, Covered
  <2>4. GateWhy'
    BY <1>0, <1>1, <2>1, <2>3, SMTT(30) DEF GateShape, GateWhy, GateSound, Granted, Covered, Yes
  <2> QED
    BY <2>1, <2>2, <2>4
<1>2. ASSUME pc' = [pc EXCEPT ![c] = "queued"], atLock' = Append(atLock, c), UNCHANGED <<verdict, recorded, mishaps>>
      PROVE  GateInv'
  <2>1. GateShape'
    BY <1>0, <1>2 DEF GateShape, GatePlaces
  <2>2. /\ DOMAIN atLock' = 1 .. Len(atLock) + 1 /\ DOMAIN atLock = 1 .. Len(atLock) /\ Len(atLock) \in Nat
        /\ \A i \in 1 .. Len(atLock) : atLock'[i] = atLock[i]
        /\ atLock'[Len(atLock) + 1] = c
    BY <1>2 DEF GateShape
  <2>3. ~AtLock(c)
    BY <1>0 DEF GateLine
  <2>4. pc'[c] = "queued" /\ \A d \in Callers \ {c} : pc'[d] = pc[d]
    BY <1>2 DEF GateShape
  <2>5. \A d \in Callers : AtLock(d)' <=> AtLock(d) \/ d = c
    BY <2>2 DEF AtLock
  <2>6. \A i, j \in DOMAIN atLock' : atLock'[i] = atLock'[j] => i = j
    BY <2>2, <2>3 DEF AtLock, GateLine
  <2>7. \A d \in Callers : AtLock(d) => atLock'[1] = atLock[1]
    BY <2>2 DEF AtLock
  <2>8. GateLine'
    BY <2>4, <2>5, <2>6, <2>7 DEF GateLine
  <2>9. GateWhy'
    BY <1>0, <1>2, <2>4 DEF GateWhy, GateSound, Granted, Covered
  <2> QED
    BY <2>1, <2>8, <2>9
<1> QED
  BY <1>1, <1>2 DEF Check

LEMMA ProceedKeeps == ASSUME GateInv, NEW c \in Callers, Proceed(c) PROVE GateInv'
<1> USE DEF GateInv
<1>0. /\ pc[c] = "queued" /\ Head(atLock) = c
      /\ UNCHANGED <<manager, policy, asks, request, grants, answers, granted>> /\ answers[c] = "none"
  BY DEF Proceed, GateWhy
<1>1. AtLock(c) /\ atLock[1] = c
  BY <1>0 DEF GateLine, AtLock, GateShape
<1>2. CASE ~Covered(c)
  <2>1. pc' = [pc EXCEPT ![c] = "prompting"] /\ UNCHANGED <<atLock, verdict, recorded, mishaps>>
    BY <1>2 DEF Proceed
  <2>2. pc'[c] = "prompting" /\ \A d \in Callers \ {c} : pc'[d] = pc[d]
    BY <2>1 DEF GateShape
  <2>3. GateShape'
    BY <1>0, <2>1 DEF GateShape, GatePlaces
  <2>4. GateLine'
    BY <1>1, <2>1, <2>2 DEF GateLine, AtLock
  <2>5. GateWhy'
    BY <1>0, <1>2, <2>1, <2>2 DEF GateWhy, GateSound, Granted, Covered
  <2> QED
    BY <2>3, <2>4, <2>5
<1>3. CASE Covered(c)
  <2>1. request[c] \in granted
    BY <1>3 DEF Covered, GateWhy
  <2>2. CASE manager
    <3>1. PICK fails \in BOOLEAN :
            /\ Fails(fails) /\ Finish(c, IF fails THEN "raised" ELSE "runs")
            /\ recorded' = recorded \cup {c} /\ UNCHANGED verdict
      BY <1>3, <2>2 DEF Proceed, Decide
    <3>2. mishaps' \in Nat
      BY <3>1 DEF Fails, GateShape
    <3> QED
      BY <1>0, <2>1, <3>1, <3>2, CallEnded DEF Ends, Granted
  <2>3. CASE ~manager
    <3>1. Finish(c, "runs") /\ UNCHANGED <<verdict, recorded, mishaps>>
      BY <1>3, <2>3 DEF Proceed
    <3> QED
      BY <1>0, <2>1, <3>1, CallEnded DEF Ends, Granted, GateShape
  <2> QED
    BY <2>2, <2>3 DEF GateShape
<1> QED
  BY <1>2, <1>3

LEMMA AnswerKeeps == ASSUME GateInv, NEW c \in Callers, Answer(c) PROVE GateInv'
<1> USE DEF GateInv
<1>1. PICK answer \in {"once", "session", "deny", "pattern"}, matches \in SUBSET Requests :
        /\ answers' = [answers EXCEPT ![c] = answer]
        /\ grants' = grants \cup matches /\ granted' = granted \cup matches
        /\ Decide(c, IF answer = "deny" THEN "blocked" ELSE "runs")
  BY DEF Answer
<1> DEFINE outcome == IF answer = "deny" THEN "blocked" ELSE "runs"
<1>2. pc[c] = "prompting" /\ UNCHANGED <<manager, policy, asks, request>>
  BY DEF Answer
<1>3. /\ atLock' \in Seq(Callers) /\ pc' \in [Callers -> GatePlaces]
      /\ verdict' \in [Callers -> {"none", "runs", "blocked"}]
      /\ recorded' \in SUBSET Callers /\ mishaps' \in Nat
      /\ GateLine' /\ recorded \subseteq recorded'
      /\ \A d \in Callers \ {c} : pc'[d] = pc[d] /\ verdict'[d] = verdict[d]
      /\ \/ pc'[c] = "audit" /\ verdict'[c] = outcome
         \/ pc'[c] = "raised"
         \/ pc'[c] = outcome /\ c \in recorded'
  BY <1>1, <1>2, Decided
<1>4. /\ answers' \in [Callers -> {"none", "deny"} \cup Yes] /\ answers'[c] = answer
      /\ \A d \in Callers \ {c} : answers'[d] = answers[d]
  BY <1>1 DEF GateShape, Yes
<1>5. GateShape'
  BY <1>1, <1>2, <1>3, <1>4 DEF GateShape
<1>6. \A d \in Callers \ {c} : pc[d] # "prompting"
  BY <1>2 DEF GateLine
<1>7. outcome = "runs" => answer \in Yes
  BY DEF Yes
<1>8. GateWhy'
  <2>1. (grants \subseteq granted)' /\ \A d \in Callers : Granted(d) /\ d # c => Granted(d)'
    BY <1>1, <1>2, <1>4 DEF GateWhy, Granted
  <2>2. outcome = "runs" => Granted(c)'
    BY <1>4, <1>7 DEF Granted
  <2>3. pc'[c] \notin {"new", "queued", "prompting"} /\ outcome \in {"runs", "blocked"}
    BY <1>3
  <2>4. /\ \A d \in Callers : pc'[d] \in {"new", "queued", "prompting"} => answers'[d] = "none"
        /\ \A d \in Callers : pc'[d] = "audit" => verdict'[d] # "none"
    BY <1>3, <1>4, <2>3 DEF GateWhy
  <2>5. \A d \in Callers : pc'[d] = "audit" /\ verdict'[d] = "runs" /\ policy[request[d]] # "allow" => Granted(d)'
    BY <1>3, <2>1, <2>2 DEF GateWhy
  <2>6. \A d \in Callers : pc'[d] # "prompting"
    BY <1>3, <1>6, <2>3
  <2>7. \A d \in Callers : pc'[d] = "runs" /\ policy[request[d]] # "allow" =>
            /\ answers'[d] \in Yes \/ request[d] \in granted'
            /\ d \in recorded' \/ (answers'[d] = "none" /\ request[d] \in granted')
    BY <1>1, <1>3, <1>4, <1>7 DEF GateWhy, GateSound, Yes
  <2> QED
    BY <1>2, <2>1, <2>4, <2>5, <2>6, <2>7 DEF GateWhy, GateSound, Yes, Granted
<1> QED
  BY <1>3, <1>5, <1>8

LEMMA PromptFailsKeeps == ASSUME GateInv, NEW c \in Callers, PromptFails(c) PROVE GateInv'
<1> USE DEF GateInv
<1>0. /\ pc[c] = "prompting"
      /\ UNCHANGED <<manager, policy, asks, request, grants, answers, granted>>
  BY DEF PromptFails
<1>1. CASE manager
  <2>1. Finish(c, "raised") /\ mishaps' = mishaps + 1 /\ UNCHANGED <<verdict, recorded>>
    BY <1>1 DEF PromptFails
  <2> QED
    BY <1>0, <2>1, CallEnded DEF Ends, GateShape
<1>2. CASE ~manager
  <2>1. Decide(c, "blocked")
    BY <1>2 DEF PromptFails
  <2>2. /\ atLock' \in Seq(Callers) /\ pc' \in [Callers -> GatePlaces]
        /\ verdict' \in [Callers -> {"none", "runs", "blocked"}]
        /\ recorded' \in SUBSET Callers /\ mishaps' \in Nat
        /\ GateLine' /\ recorded \subseteq recorded'
        /\ \A d \in Callers \ {c} : pc'[d] = pc[d] /\ verdict'[d] = verdict[d]
        /\ \/ pc'[c] = "audit" /\ verdict'[c] = "blocked"
           \/ pc'[c] = "raised"
           \/ pc'[c] = "blocked" /\ c \in recorded'
    BY <1>0, <2>1, Decided
  <2>3. GateShape'
    BY <1>0, <2>2 DEF GateShape
  <2>4. GateWhy'
    BY <1>0, <2>2 DEF GateWhy, GateSound, Granted, Covered
  <2> QED
    BY <2>2, <2>3, <2>4
<1> QED
  BY <1>1, <1>2 DEF GateShape

LEMMA GateStep == ASSUME GateInv, [GateNext]_gateVars PROVE GateInv'
<1>1. ASSUME NEW c \in Callers, Audited(c) PROVE GateInv'
  <2>1. pc[c] = "audit" /\ verdict[c] \in Ends
    BY <1>1 DEF Audited, GateInv, GateShape, GateWhy, Ends
  <2>2. verdict[c] = "runs" /\ policy[request[c]] # "allow" => Granted(c)
    BY <2>1 DEF GateInv, GateWhy
  <2> QED
    BY <1>1, <2>1, <2>2, CallEnded DEF Audited, GateInv, GateShape
<1>2. ASSUME NEW c \in Callers, AuditFails(c) PROVE GateInv'
  <2> DEFINE outcome == IF policy[request[c]] = "allow" THEN verdict[c] ELSE "raised"
  <2>1. pc[c] = "audit" /\ outcome \in Ends
    BY <1>2 DEF AuditFails, GateInv, GateShape, GateWhy, Ends
  <2>2. mishaps' \in Nat
    BY <1>2 DEF AuditFails, Fails, GateInv, GateShape
  <2>3. Finish(c, outcome) /\ (outcome = "runs" => policy[request[c]] = "allow")
    BY <1>2 DEF AuditFails
  <2> HIDE DEF outcome
  <2> QED
    BY <1>2, <2>1, <2>2, <2>3, CallEnded DEF AuditFails
<1>3. ASSUME NEW c \in Callers, CancelCall(c) PROVE GateInv'
  <2>1. mishaps' \in Nat
    BY <1>3 DEF CancelCall, Fails, GateInv, GateShape
  <2> QED
    BY <1>3, <2>1, CallEnded DEF CancelCall, Ends
<1>4. CASE Clear
  BY <1>4 DEF Clear, GateInv, GateShape, GateLine, AtLock, GateWhy, GateSound, Granted, Covered
<1>5. CASE UNCHANGED gateVars
  BY <1>5 DEF gateVars, GateInv, GateShape, GateLine, AtLock, GateWhy, GateSound, Granted, Covered
<1> QED
  BY <1>1, <1>2, <1>3, <1>4, <1>5, CheckKeeps, ProceedKeeps, AnswerKeeps, PromptFailsKeeps DEF GateNext

(* Nobody is asked for what is granted, and a tool runs because the policy lets it, its own
   answer or a grant does, with a record of the decision: whatever the calls and grants, for
   any number of calls at the lock (approval.py:257, security/approval.py:145). *)
THEOREM GateHolds == GateSpec => []GateSound
<1>1. GateInit => GateInv
  BY GateStarts, ApprovalAssumption
<1>2. GateInv /\ [GateNext]_gateVars => GateInv'
  BY GateStep, ApprovalAssumption
<1>3. GateInv => GateSound
  BY DEF GateInv, GateWhy
<1> QED
  BY <1>1, <1>2, <1>3, PTL DEF GateSpec

-----------------------------------------------------------------------------
(* ShellCommand: what exec may rely on at each of its places. *)
ExecPlaces == {"new", "wait", "collect", "term", "grace", "reap", "closing", "returned", "done"}

ShellShape ==
    /\ shell \in {"none", "running", "exited"} /\ helper \in {"none", "running", "exited"}
    /\ holds \in BOOLEAN /\ doomed \in SUBSET Processes
    /\ stubborn \in SUBSET Processes /\ early \in BOOLEAN
    /\ produced \in [Streams -> Nat] /\ read \in [Streams -> Nat]
    /\ pump \in [Streams -> {"reading", "done", "failed"}] /\ seen \in SUBSET Streams
    /\ at \in [Actors -> ExecPlaces] /\ handler \in BOOLEAN /\ listed \in BOOLEAN
    /\ token \in BOOLEAN /\ expired \in BOOLEAN /\ errors \in Nat

(* A shell is started once, and a pump ends at the end of its pipe. *)
PipeInv ==
    /\ at["exec"] = "new" => shell = "none" /\ reply = "none" /\ ~listed /\ at["cleanup"] = "new"
    /\ at["exec"] = "new" => \A s \in Streams : pump[s] = "reading"
    /\ \A s \in Streams : pump[s] = "done" => read[s] = produced[s] /\ ~PipesOpen

(* What the place of exec, or of cleanup, says of the shell. *)
ShellWhere ==
    /\ at["exec"] = "collect" => ~Running("shell")
    /\ at["exec"] \in {"closing", "returned"} => ~Running("shell") \/ reply = "escaped"
    /\ reply \in {"ok", "escaped"} => at["exec"] \in {"closing", "returned"}
    /\ reply = "ok" => \A s \in Streams : pump[s] = "done"
    /\ at["cleanup"] = "done" => ~Running("shell")

ShellInv == ShellShape /\ PipeInv /\ ShellWhere

-----------------------------------------------------------------------------
LEMMA ShellStarts == ASSUME ShellInit, ShellAssumption PROVE ShellInv
BY DEF ShellInit, ShellAssumption, ShellInv, ShellShape, PipeInv, ShellWhere, Running, PipesOpen, Actors,
       Processes, ExecPlaces

(* A step of an actor, with the answer exec makes of it. *)
LEMMA Moved ==
    ASSUME ShellInv, NEW a \in Actors, NEW place \in ExecPlaces \ {"new"}, Move(a, place),
           at["exec"] # "new",
           UNCHANGED <<shell, helper, holds, stubborn, early, pipes>>,
           doomed' \in SUBSET Processes, seen' \in SUBSET Streams, handler' \in BOOLEAN,
           listed' \in BOOLEAN, token' \in BOOLEAN, expired' \in BOOLEAN, errors' \in Nat,
           place = "collect" => ~Running("shell"),
           a = "exec" /\ place \in {"closing", "returned"} => ~Running("shell") \/ reply' = "escaped",
           a = "exec" /\ reply' \in {"ok", "escaped"} => place \in {"closing", "returned"},
           reply' = "ok" => \A s \in Streams : pump[s] = "done",
           place = "done" => a = "cleanup" /\ ~Running("shell"),
           a = "cleanup" => reply' = reply
    PROVE  ShellInv'
<1>1. /\ at' \in [Actors -> ExecPlaces] /\ at'[a] = place
      /\ \A b \in Actors \ {a} : at'[b] = at[b]
  BY DEF Move, ShellInv, ShellShape
<1>2. ShellShape'
  BY <1>1 DEF ShellInv, ShellShape, pipes
<1>3. "exec" \in Actors /\ "cleanup" \in Actors
  BY DEF Actors
<1>4. at'["exec"] # "new"
  BY <1>1, <1>3
<1>5. PipeInv'
  BY <1>4 DEF ShellInv, PipeInv, pipes, PipesOpen, Running
<1>6. ShellWhere'
  <2>1. CASE a = "exec"
    BY <1>1, <1>3, <2>1 DEF ShellInv, ShellWhere, pipes, Running
  <2>2. CASE a = "cleanup"
    BY <1>1, <1>3, <2>2 DEF ShellInv, ShellWhere, pipes, Running
  <2> QED
    BY <2>1, <2>2 DEF Actors
<1> QED
  BY <1>2, <1>5, <1>6 DEF ShellInv

(* What the processes and the pumps do, and what comes from outside. *)
LEMMA WorldKeeps ==
    ASSUME ShellInv,
           \/ Cancel \/ Deadline \/ StartHelper
           \/ \E s \in Streams : Write(s) \/ Pump(s) \/ CallbackRaises(s) \/ EndOfStream(s)
           \/ \E p \in Processes : Exit(p)
    PROVE  ShellInv'
<1> USE DEF ShellInv
<1>1. CASE Cancel \/ Deadline
  <2>1. UNCHANGED <<world, pipes, seen, at, handler, reply, listed, errors>>
    BY <1>1 DEF Cancel, Deadline
  <2>2. token' \in BOOLEAN
    BY <1>1 DEF Cancel, Deadline, ShellShape
  <2>3. expired' \in BOOLEAN
    BY <1>1 DEF Cancel, Deadline, ShellShape
  <2> QED
    BY <2>1, <2>2, <2>3 DEF ShellShape, PipeInv, ShellWhere, world, procs, pipes, Running, PipesOpen
<1>2. CASE StartHelper
  BY <1>2 DEF StartHelper, ShellShape, PipeInv, ShellWhere, pipes, Running, PipesOpen
<1>3. ASSUME NEW s \in Streams, Write(s) PROVE ShellInv'
  BY <1>3 DEF Write, ShellShape, PipeInv, ShellWhere, world, procs, Running, PipesOpen
<1>4. ASSUME NEW s \in Streams, Pump(s) PROVE ShellInv'
  BY <1>4 DEF Pump, ShellShape, PipeInv, ShellWhere, world, procs, Running, PipesOpen
<1>5. ASSUME NEW s \in Streams, CallbackRaises(s) PROVE ShellInv'
  BY <1>5 DEF CallbackRaises, ShellShape, PipeInv, ShellWhere, world, procs, Running, PipesOpen
<1>6. ASSUME NEW s \in Streams, EndOfStream(s) PROVE ShellInv'
  BY <1>6 DEF EndOfStream, ShellShape, PipeInv, ShellWhere, world, procs, Running, PipesOpen
<1>7. ASSUME NEW p \in Processes, Exit(p) PROVE ShellInv'
  BY <1>7 DEF Exit, ShellShape, PipeInv, ShellWhere, pipes, Running, PipesOpen, Processes
<1> QED
  BY <1>1, <1>2, <1>3, <1>4, <1>5, <1>6, <1>7

LEMMA StartKeeps == ASSUME ShellInv, Start PROVE ShellInv'
<1> USE DEF ShellInv
<1>1. at["exec"] = "new" /\ "exec" \in Actors /\ "cleanup" \in Actors
  BY DEF Start, Actors
<1>2. \A place \in {"wait", "returned"} : Move("exec", place) =>
        /\ at' \in [Actors -> ExecPlaces] /\ at'["exec"] = place /\ at'["cleanup"] = at["cleanup"]
  BY <1>1 DEF Move, ShellShape, ExecPlaces, Actors
<1>3. CASE shell' = "running" /\ listed' = TRUE /\ Move("exec", "wait") /\ UNCHANGED reply
  BY <1>1, <1>2, <1>3 DEF Start, ShellShape, PipeInv, ShellWhere, pipes, Running, PipesOpen
<1>4. CASE Move("exec", "returned") /\ UNCHANGED <<shell, listed>> /\ reply' \in {"aborted", "spawn_error"}
  BY <1>1, <1>2, <1>4 DEF Start, ShellShape, PipeInv, ShellWhere, pipes, Running, PipesOpen
<1> QED
  BY <1>3, <1>4 DEF Start

(* The steps of exec after it has started the shell. *)
LEMMA ExecKeeps ==
    ASSUME ShellInv,
           TimesOut \/ SeesToken \/ SeesFailure \/ SeesExit \/ SeesEnd \/ Collect \/ Close \/ CancelExec
    PROVE  ShellInv'
<1> USE DEF ShellInv
<1>0. /\ "exec" \in Actors
      /\ {"collect", "term", "closing", "returned"} \subseteq ExecPlaces \ {"new"}
      /\ seen \in SUBSET Streams /\ handler \in BOOLEAN /\ doomed \in SUBSET Processes
      /\ listed \in BOOLEAN /\ token \in BOOLEAN /\ expired \in BOOLEAN /\ errors \in Nat
  BY DEF Actors, ExecPlaces, ShellShape
<1>1. CASE TimesOut
  BY <1>0, <1>1, Moved DEF TimesOut, world, procs
<1>2. CASE SeesToken
  BY <1>0, <1>2, Moved DEF SeesToken, world, procs
<1>3. CASE SeesFailure
  BY <1>0, <1>3, Moved DEF SeesFailure, world, procs
<1>4. CASE SeesExit
  BY <1>0, <1>4, Moved DEF SeesExit, world, procs, Waited, ShellWhere
<1>5. CASE SeesEnd
  BY <1>5 DEF SeesEnd, Ended, ShellShape, PipeInv, ShellWhere, world, procs, pipes, Running, PipesOpen
<1>6. CASE Collect
  <2>1. at["exec"] = "collect" /\ ~Running("shell")
    BY <1>6 DEF Collect, ShellWhere
  <2>2. CASE \E s \in Streams : pump[s] = "failed"
    <3>1. Move("exec", "term") /\ handler' = TRUE /\ reply' = "unknown"
      BY <1>6, <2>2 DEF Collect
    <3> QED
      BY <1>0, <1>6, <2>1, <3>1, Moved DEF Collect, world, procs
  <2>3. CASE ~ \E s \in Streams : pump[s] = "failed"
    <3>1. /\ \A s \in Streams : pump[s] = "done"
          /\ Move("exec", "closing") /\ reply' = "ok" /\ UNCHANGED handler
      BY <1>6, <2>3 DEF Collect
    <3> QED
      BY <1>0, <1>6, <2>1, <3>1, Moved DEF Collect, world, procs
  <2> QED
    BY <2>2, <2>3
<1>7. CASE Close
  BY <1>0, <1>7, Moved DEF Close, world, procs, ShellWhere
<1>8. CASE CancelExec
  <2>0. errors' \in Nat /\ UNCHANGED <<world, pipes, seen, listed, token, expired>>
    BY <1>8 DEF CancelExec, ShellShape
  <2>1. CASE /\ at["exec"] \in {"wait", "collect", "grace", "reap"}
             /\ Move("exec", "term") /\ handler' = TRUE /\ reply' = "aborted"
    BY <1>0, <2>0, <2>1, Moved DEF world, procs
  <2>2. CASE /\ at["exec"] \in {"grace", "reap"}
             /\ Move("exec", "closing") /\ reply' = "escaped" /\ UNCHANGED handler
    BY <1>0, <2>0, <2>2, Moved DEF world, procs
  <2>3. CASE /\ at["exec"] = "closing"
             /\ Move("exec", "returned") /\ UNCHANGED handler
             /\ reply' = IF reply = "escaped" THEN reply ELSE "cancelled"
    BY <1>0, <2>0, <2>3, Moved DEF world, procs, ShellWhere
  <2> QED
    BY <1>8, <2>1, <2>2, <2>3 DEF CancelExec
<1> QED
  BY <1>1, <1>2, <1>3, <1>4, <1>5, <1>6, <1>7, <1>8

(* _terminate, of exec or of cleanup: it ends where the shell has. *)
LEMMA TerminateKeeps ==
    ASSUME ShellInv, NEW a \in Actors, Term(a) \/ Grace(a) \/ Reap(a)
    PROVE  ShellInv'
<1> USE DEF ShellInv
<1>0. /\ seen \in SUBSET Streams /\ handler \in BOOLEAN /\ doomed \in SUBSET Processes
      /\ listed \in BOOLEAN /\ token \in BOOLEAN /\ expired \in BOOLEAN /\ errors \in Nat
      /\ AllSet \in SUBSET Processes /\ After(a) \in ExecPlaces /\ a \in {"exec", "cleanup"}
  BY DEF ShellShape, AllSet, After, ExecPlaces, Actors
<1>1. at[a] \in {"term", "grace", "reap"} /\ at["exec"] # "new"
  BY DEF Term, Grace, Reap, PipeInv, Actors
<1>2. UNCHANGED <<shell, helper, holds, stubborn, early, pipes, seen, handler, reply, listed, token, expired, errors>>
  BY DEF Term, Grace, Reap, world, procs
<1>3. a = "exec" => reply \notin {"ok", "escaped"}
  BY <1>1 DEF ShellWhere
<1>4. reply = "ok" => \A s \in Streams : pump[s] = "done"
  BY DEF ShellWhere
<1>5. ASSUME Move(a, After(a)), ~Running("shell"), doomed' \in SUBSET Processes PROVE ShellInv'
  <2>1. a = "exec" => After(a) = "closing"
    BY DEF After
  <2>2. a = "cleanup" => After(a) = "done"
    BY DEF After
  <2> QED
    BY <1>0, <1>1, <1>2, <1>3, <1>4, <1>5, <2>1, <2>2, Moved
<1>6. ASSUME NEW place \in {"grace", "reap"}, Move(a, place), doomed' \in SUBSET Processes PROVE ShellInv'
  <2>1. place \in ExecPlaces \ {"new"}
    BY DEF ExecPlaces
  <2> QED
    BY <1>0, <1>1, <1>2, <1>3, <1>4, <1>6, <2>1, Moved
<1>7. CASE Term(a)
  BY <1>0, <1>5, <1>6, <1>7 DEF Term
<1>8. CASE Grace(a)
  <2>1. AllSet = {} => ~Running("shell")
    BY DEF AllSet, Processes
  <2> QED
    BY <1>0, <1>5, <1>6, <1>8, <2>1 DEF Grace, Waited
<1>9. CASE Reap(a)
  BY <1>0, <1>5, <1>9 DEF Reap, Waited, world, procs
<1> QED
  BY <1>7, <1>8, <1>9

LEMMA ShellStep == ASSUME ShellInv, [ShellNext]_shellVars PROVE ShellInv'
<1>1. CASE Cleanup
  <2>1. at["exec"] # "new" /\ "cleanup" \in Actors /\ "term" \in ExecPlaces \ {"new"}
    BY <1>1 DEF Cleanup, ShellInv, PipeInv, Actors, ExecPlaces
  <2> QED
    BY <1>1, <2>1, Moved DEF Cleanup, ShellInv, ShellShape, ShellWhere, world, procs
<1>2. CASE UNCHANGED shellVars
  BY <1>2 DEF shellVars, ShellInv, ShellShape, PipeInv, ShellWhere, world, procs, pipes, Running, PipesOpen
<1> QED
  BY <1>1, <1>2, WorldKeeps, StartKeeps, ExecKeeps, TerminateKeeps DEF ShellNext, Loop

(* The shell is gone when exec has returned, unless its task was cancelled once more while it
   terminated the shell, and when cleanup is through; an answer without an error has all that
   was written: whatever ignores signals, and in whatever order exits, signals, deadlines and
   cancellations come (environment.py, exec and _terminate). *)
THEOREM ShellEnds == ShellSpec => []ShellGone
<1>1. ShellInit => ShellInv
  BY ShellStarts, ShellAssumption
<1>2. ShellInv /\ [ShellNext]_shellVars => ShellInv'
  BY ShellStep, ShellAssumption
<1>3. ShellInv => ShellGone
  <2> SUFFICES ASSUME ShellInv PROVE ShellGone
    OBVIOUS
  <2>1. ASSUME reply = "ok" PROVE read = produced /\ ~PipesOpen
    <3>1. \A s \in Streams : read[s] = produced[s] /\ ~PipesOpen
      BY <2>1 DEF ShellInv, ShellWhere, PipeInv
    <3> QED
      BY <3>1, ShellAssumption DEF ShellAssumption, ShellInv, ShellShape
  <2> QED
    BY <2>1 DEF ShellInv, ShellWhere, ShellGone
<1> QED
  BY <1>1, <1>2, <1>3, PTL DEF ShellSpec

-----------------------------------------------------------------------------
(* ExtensionHost: what a task at the lock knows, and which copies there are. *)
HostStages == {"staging", "ready", "disposed", "half"}
HostPlaces == {"idle", "wait", "staging", "cleaning", "exchanging", "disposing"}
CopyRecords == [ext : All, tools : SUBSET Tools, stage : HostStages, times : Nat]
TaskRecords ==
    [op : {"none", "activate", "reload", "deactivate", "undo"}, pc : HostPlaces, todo : Seq(All),
     strict : BOOLEAN, mine : Seq(Nat), taken : SUBSET Tools, copy : Nat]

HostShape ==
    /\ handles \in [All -> Nat \cup {Nobody}] /\ copies \in Seq(CopyRecords)
    /\ line \in Seq(Users) /\ user \in [Users -> TaskRecords]
    /\ trouble \in Nat /\ operations \in Nat

InHostLine(t) == \E i \in DOMAIN line : line[i] = t

(* Each task is in the line once, from its call to its end; who is past its wait holds the
   lock, and has a copy at hand. *)
HostLineInv ==
    /\ \A i, j \in DOMAIN line : line[i] = line[j] => i = j
    /\ \A t \in Users :
        /\ InHostLine(t) <=> user[t].pc # "idle"
        /\ user[t].pc = "idle" => user[t].op = "none"
        /\ user[t].pc # "idle" => user[t].todo # <<>>
        /\ user[t].pc \in {"idle", "wait"} => user[t].copy = 0
        /\ user[t].pc \notin {"idle", "wait"} => line[1] = t /\ user[t].copy \in DOMAIN copies
        /\ \A j \in DOMAIN user[t].mine : user[t].mine[j] \in DOMAIN copies

(* What the holder of the lock has found and made stays as it is. *)
HolderKnows(t) ==
    LET c == copies[user[t].copy] IN
    /\ user[t].pc \in {"staging", "cleaning", "exchanging"} =>
        /\ user[t].copy \notin InUse \cup failed \cup twice
        /\ user[t].op \in {"activate", "reload"}
        /\ Active(Todo(t)) <=> user[t].op = "reload"
    /\ user[t].pc = "staging" =>
        /\ c.stage = "staging" /\ c.times = 0 /\ c.ext = Todo(t)
        /\ user[t].taken = Reserved(IF user[t].op = "reload" THEN {Todo(t)} ELSE {})
    /\ user[t].pc = "cleaning" => c.times = 1
    /\ user[t].pc = "exchanging" =>
        /\ user[t].op = "reload" /\ c.stage = "ready" /\ c.times = 0 /\ c.ext = Todo(t)
        /\ c.tools \cap Reserved({Todo(t)}) = {}
    /\ user[t].pc = "disposing" =>
        /\ user[t].op \in {"deactivate", "undo"}
        /\ ~Active(Todo(t)) /\ user[t].copy \notin InUse

HolderInv == \A t \in Users : HolderKnows(t)

(* The copies in use are of their extensions, ready, and do not get in each other's way. *)
UseInv ==
    /\ \A e \in All : Active(e) => handles[e] \in DOMAIN copies /\ copies[handles[e]].ext = e
    /\ \A e, f \in All :
        e # f /\ Active(e) /\ Active(f) => copies[handles[e]].tools \cap copies[handles[f]].tools = {}
    /\ \A i \in InUse : copies[i].tools \cap Base = {}
    /\ \A i \in InUse \ twice :
        /\ copies[i].stage = "ready"
        /\ copies[i].times = 0 \/ \E t \in Users : user[t].pc = "exchanging" /\ handles[Todo(t)] = i

(* No other copy is left, but to a task that has it at hand. *)
CopyInv ==
    /\ twice \cup failed \subseteq DOMAIN copies
    /\ \A i \in DOMAIN copies :
        \/ i \in InUse \cup dropped \cup twice \/ copies[i].stage = "disposed"
        \/ \E t \in Users : user[t].copy = i
    /\ \A i \in DOMAIN copies \ twice : copies[i].times <= 1

(* A copy of a failed activation that is still in use has a task that will come to it. *)
FailedInv ==
    \A i \in failed \cap InUse :
        \E t \in Users :
            /\ user[t].op = "undo"
            /\ \E j \in DOMAIN user[t].mine : user[t].mine[j] = i
            /\ \E j \in DOMAIN user[t].todo : user[t].todo[j] = copies[i].ext

HostInv == HostShape /\ HostLineInv /\ HolderInv /\ UseInv /\ CopyInv /\ FailedInv

LEMMA ExtsAre == ASSUME HostAssumption PROVE Exts \in Seq(All) /\ All = Range(Exts)
  BY DEF HostAssumption, All, ToSet, Range

(* Only the holder of the lock is past its wait. *)
LEMMA OthersWait ==
    ASSUME HostLineInv, NEW t \in Users, line[1] = t, NEW s \in Users, s # t
    PROVE  user[s].pc \in {"idle", "wait"} /\ user[s].copy = 0
BY DEF HostLineInv

LEMMA HostStarts == ASSUME HostAssumption, HostInit PROVE HostInv
<1>1. HostShape
  BY DEF HostAssumption, HostInit, HostShape, TaskRecords, NoCall, HostPlaces
<1>2. HostLineInv /\ HolderInv
  BY DEF HostInit, HostLineInv, HolderInv, HolderKnows, NoCall, InHostLine
<1>3. UseInv /\ CopyInv /\ FailedInv
  BY DEF HostInit, UseInv, CopyInv, FailedInv, InUse, Active
<1> QED
  BY <1>1, <1>2, <1>3 DEF HostInv

(* A task joins the line at its end. *)
LEMMA Joined ==
    ASSUME NEW S, NEW q \in Seq(S), NEW t \in S, \A i \in DOMAIN q : q[i] # t,
           \A i, j \in DOMAIN q : q[i] = q[j] => i = j
    PROVE  LET w == Append(q, t) IN
           /\ w \in Seq(S)
           /\ \A i, j \in DOMAIN w : w[i] = w[j] => i = j
           /\ \A s \in S : (\E i \in DOMAIN w : w[i] = s) <=> s = t \/ \E i \in DOMAIN q : q[i] = s
           /\ q # <<>> => w[1] = q[1]
<1> DEFINE w == Append(q, t)
<1>1. w \in Seq(S) /\ Len(w) = Len(q) + 1 /\ Len(q) \in Nat /\ DOMAIN q = 1 .. Len(q)
      /\ DOMAIN w = 1 .. Len(q) + 1
      /\ (\A i \in 1 .. Len(q) : w[i] = q[i]) /\ w[Len(q) + 1] = t
  BY AppendProperties, LenProperties
<1> HIDE DEF w
<1>2. \A i, j \in DOMAIN w : w[i] = w[j] => i = j
  BY <1>1
<1>3. \A s \in S : (\E i \in DOMAIN w : w[i] = s) <=> s = t \/ \E i \in DOMAIN q : q[i] = s
  BY <1>1
<1>4. q # <<>> => w[1] = q[1]
  BY <1>1, EmptySeq
<1> QED
  BY <1>1, <1>2, <1>3, <1>4 DEF w

(* The one at the head of the line leaves it. *)
LEMMA HeadLeft ==
    ASSUME NEW S, NEW q \in Seq(S), q # <<>>, \A i, j \in DOMAIN q : q[i] = q[j] => i = j
    PROVE  LET w == Tail(q) IN
           /\ w \in Seq(S)
           /\ \A i, j \in DOMAIN w : w[i] = w[j] => i = j
           /\ \A s \in S : (\E i \in DOMAIN w : w[i] = s) <=> s # q[1] /\ \E i \in DOMAIN q : q[i] = s
<1> DEFINE w == Tail(q)
<1>1. w \in Seq(S) /\ Len(w) = Len(q) - 1 /\ Len(q) \in Nat /\ DOMAIN q = 1 .. Len(q)
      /\ DOMAIN w = 1 .. Len(q) - 1 /\ Len(q) # 0
      /\ (\A i \in 1 .. Len(q) - 1 : w[i] = q[i + 1])
  BY HeadTailProperties, LenProperties, EmptySeq
<1> HIDE DEF w
<1>2. \A i, j \in DOMAIN w : w[i] = w[j] => i = j
  BY <1>1, SMTT(30)
<1>3. ASSUME NEW i \in DOMAIN q, q[i] # q[1] PROVE \E j \in DOMAIN w : w[j] = q[i]
  <2>1. i - 1 \in DOMAIN w /\ w[i - 1] = q[i]
    BY <1>1, <1>3
  <2> QED
    BY <2>1
<1>4. ASSUME NEW i \in DOMAIN w PROVE w[i] # q[1] /\ \E j \in DOMAIN q : q[j] = w[i]
  BY <1>1
<1>5. ASSUME NEW s \in S PROVE (\E i \in DOMAIN w : w[i] = s) <=> s # q[1] /\ \E i \in DOMAIN q : q[i] = s
  BY <1>3, <1>4
<1>6. w \in Seq(S)
  BY <1>1
<1> QED
  BY <1>2, <1>5, <1>6 DEF w

(* The holder goes on with the next extension, for which it asks for the lock again, or ends:
   nobody is past the wait for the lock then. *)
LEMMA GoesOn ==
    ASSUME HostInv, NEW t \in Users, line # <<>>, line[1] = t, NEW u \in TaskRecords, GoOn(t, u),
           u.op # "none", DOMAIN copies' = DOMAIN copies,
           \A j \in DOMAIN u.mine : u.mine[j] \in DOMAIN copies
    PROVE  /\ line' \in Seq(Users) /\ user' \in [Users -> TaskRecords]
           /\ HostLineInv' /\ HolderInv'
           /\ \A s \in Users : user'[s].pc \in {"idle", "wait"} /\ user'[s].copy = 0
           /\ \A s \in Users \ {t} : user'[s] = user[s]
           /\ user'[t] = IF u.todo = <<>> THEN NoCall ELSE [u EXCEPT !.pc = "wait", !.copy = 0]
<1> DEFINE r == IF u.todo = <<>> THEN NoCall ELSE [u EXCEPT !.pc = "wait", !.copy = 0]
           w == Tail(line)
<1>1. /\ user \in [Users -> TaskRecords] /\ line \in Seq(Users)
      /\ \A i, j \in DOMAIN line : line[i] = line[j] => i = j
      /\ \A s \in Users : (\E i \in DOMAIN line : line[i] = s) <=> user[s].pc # "idle"
  BY DEF HostInv, HostShape, HostLineInv, InHostLine
<1>2. r \in TaskRecords
  <2>1. NoCall \in TaskRecords
    BY DEF NoCall, TaskRecords, HostPlaces
  <2>2. [u EXCEPT !.pc = "wait", !.copy = 0] \in TaskRecords
    BY DEF TaskRecords, HostPlaces
  <2> QED
    BY <2>1, <2>2
<1>3. user' = [user EXCEPT ![t] = r]
  BY DEF GoOn
<1>4. /\ r.copy = 0 /\ r.pc = (IF u.todo = <<>> THEN "idle" ELSE "wait")
      /\ (u.todo = <<>> => r.op = "none") /\ (u.todo # <<>> => r.todo # <<>>)
      /\ \A j \in DOMAIN r.mine : r.mine[j] \in DOMAIN copies
  BY DEF NoCall, TaskRecords
<1>a. r = IF u.todo = <<>> THEN NoCall ELSE [u EXCEPT !.pc = "wait", !.copy = 0]
  OBVIOUS
<1> HIDE DEF r
<1>5. user' \in [Users -> TaskRecords] /\ user'[t] = r /\ \A s \in Users \ {t} : user'[s] = user[s]
  BY <1>1, <1>2, <1>3
<1>6. \A s \in Users \ {t} : user[s].pc \in {"idle", "wait"} /\ user[s].copy = 0
  BY OthersWait DEF HostInv
<1>7. /\ w \in Seq(Users)
      /\ \A i, j \in DOMAIN w : w[i] = w[j] => i = j
      /\ \A s \in Users : (\E i \in DOMAIN w : w[i] = s) <=> s # t /\ \E i \in DOMAIN line : line[i] = s
  BY <1>1, HeadLeft
<1>8. line' = IF u.todo = <<>> THEN w ELSE Append(w, t)
  BY DEF GoOn
<1> HIDE DEF w
<1>9. /\ line' \in Seq(Users)
      /\ \A i, j \in DOMAIN line' : line'[i] = line'[j] => i = j
      /\ \A s \in Users : (\E i \in DOMAIN line' : line'[i] = s) <=> user'[s].pc # "idle"
  <2>1. CASE u.todo = <<>>
    <3>1. line' = w /\ user'[t].pc = "idle"
      BY <2>1, <1>4, <1>5, <1>8
    <3>2. ASSUME NEW s \in Users PROVE (\E i \in DOMAIN w : w[i] = s) <=> user'[s].pc # "idle"
      BY <3>1, <1>1, <1>5, <1>7
    <3> QED
      BY <3>1, <3>2, <1>7
  <2>2. CASE u.todo # <<>>
    <3> DEFINE z == Append(w, t)
    <3>0. \A i \in DOMAIN w : w[i] # t
      BY <1>7
    <3>1. /\ z \in Seq(Users)
          /\ \A i, j \in DOMAIN z : z[i] = z[j] => i = j
          /\ \A s \in Users : (\E i \in DOMAIN z : z[i] = s) <=> s = t \/ \E i \in DOMAIN w : w[i] = s
      BY <1>7, <3>0, Joined
    <3>2. line' = z /\ user'[t].pc # "idle"
      BY <2>2, <1>4, <1>5, <1>8
    <3> HIDE DEF z
    <3>3. ASSUME NEW s \in Users PROVE (\E i \in DOMAIN z : z[i] = s) <=> user'[s].pc # "idle"
      <4>1. CASE s = t
        BY <3>1, <3>2, <4>1
      <4>2. CASE s # t
        <5>1. user'[s] = user[s] /\ ((\E i \in DOMAIN z : z[i] = s) <=> \E i \in DOMAIN w : w[i] = s)
          BY <1>5, <3>1, <4>2
        <5>2. (\E i \in DOMAIN w : w[i] = s) <=> \E i \in DOMAIN line : line[i] = s
          BY <1>7, <4>2
        <5>3. (\E i \in DOMAIN line : line[i] = s) <=> user[s].pc # "idle"
          BY <1>1
        <5> HIDE DEF w
        <5> QED
          BY <5>1, <5>2, <5>3
      <4> QED
        BY <4>1, <4>2
    <3> QED
      BY <3>1, <3>2, <3>3
  <2> QED
    BY <2>1, <2>2
<1>10. \A s \in Users : user'[s].pc \in {"idle", "wait"} /\ user'[s].copy = 0
  BY <1>4, <1>5, <1>6
<1>11. HostLineInv'
  <2>1. ASSUME NEW s \in Users
        PROVE  /\ user'[s].pc = "idle" => user'[s].op = "none"
               /\ user'[s].pc # "idle" => user'[s].todo # <<>>
               /\ \A j \in DOMAIN user'[s].mine : user'[s].mine[j] \in DOMAIN copies'
    <3>1. CASE s = t
      BY <3>1, <1>4, <1>5
    <3>2. CASE s # t
      BY <3>2, <1>5 DEF HostInv, HostLineInv
    <3> QED
      BY <3>1, <3>2
  <2> QED
    BY <2>1, <1>9, <1>10 DEF HostLineInv, InHostLine
<1>12. HolderInv'
  BY <1>10 DEF HolderInv, HolderKnows
<1> QED
  BY <1>a, <1>5, <1>9, <1>10, <1>11, <1>12

(* One whose record stays knows what it knew, if the copies in use stay. *)
LEMMA KnowsStill ==
    ASSUME NEW t \in Users, HolderKnows(t), user'[t] = user[t], UNCHANGED <<handles, copies, twice>>,
           failed' \subseteq failed
    PROVE  HolderKnows(t)'
<1>1. CASE user[t].pc = "staging"
  <2>1. user[t].taken = Reserved(IF user[t].op = "reload" THEN {Todo(t)} ELSE {})
    BY <1>1 DEF HolderKnows
  <2>2. (user[t].taken = Reserved(IF user[t].op = "reload" THEN {Todo(t)} ELSE {}))'
    BY <2>1 DEF Reserved, Todo, Active
  <2> QED
    BY <1>1, <2>2 DEF HolderKnows, Todo, Active, InUse
<1>2. CASE user[t].pc = "exchanging"
  <2>1. copies[user[t].copy].tools \cap Reserved({Todo(t)}) = {}
    BY <1>2 DEF HolderKnows
  <2>2. (copies[user[t].copy].tools \cap Reserved({Todo(t)}) = {})'
    BY <2>1 DEF Reserved, Todo, Active
  <2> QED
    BY <1>2, <2>2 DEF HolderKnows, Todo, Active, InUse
<1>3. CASE user[t].pc \notin {"staging", "exchanging"}
  BY <1>3 DEF HolderKnows, Todo, Active, InUse
<1> QED
  BY <1>1, <1>2, <1>3

LEMMA CallKeeps ==
    ASSUME HostAssumption, HostInv, NEW t \in Users, Call(t)
    PROVE  HostInv'
<1>1. PICK op \in {"activate", "reload", "deactivate"}, todo \in Seq(All), strict \in BOOLEAN :
        Asks(t, op, todo, strict)
  <2>1. Exts \in Seq(All)
    BY ExtsAre
  <2>2. \A e \in All : <<e>> \in Seq(All)
    OBVIOUS
  <2>3. ASSUME NEW s \in LastFirst PROVE s \in Seq(All)
    <3>1. PICK n \in 0 .. Len(Exts) : s \in [1 .. n -> All]
      BY DEF LastFirst
    <3>2. n \in Nat
      BY <2>1, LenProperties
    <3> QED
      BY <3>1, <3>2, SeqDef
  <2> QED
    BY <2>1, <2>2, <2>3 DEF Call
<1> DEFINE r == [NoCall EXCEPT !.op = op, !.pc = "wait", !.todo = todo, !.strict = strict]
<1>2. /\ r \in TaskRecords /\ r.op = op /\ r.pc = "wait" /\ r.todo = todo /\ r.copy = 0 /\ r.mine = <<>>
      /\ op # "undo"
  <2>1. NoCall \in TaskRecords
    BY DEF NoCall, TaskRecords, HostPlaces
  <2>2. r \in TaskRecords
    BY <2>1 DEF TaskRecords, HostPlaces
  <2> QED
    BY <2>2 DEF NoCall
<1>3. /\ user[t].pc = "idle" /\ todo # <<>> /\ user' = [user EXCEPT ![t] = r] /\ line' = Append(line, t)
      /\ UNCHANGED <<handles, copies, trouble, dropped, twice, failed>> /\ operations' = operations + 1
  BY <1>1 DEF Asks, UserAt
<1> HIDE DEF r
<1>4. HostShape /\ HostLineInv
  BY DEF HostInv
<1>5. user' \in [Users -> TaskRecords] /\ user'[t] = r /\ \A s \in Users \ {t} : user'[s] = user[s]
  BY <1>2, <1>3, <1>4 DEF HostShape
<1>6. \A i \in DOMAIN line : line[i] # t
  BY <1>3, <1>4 DEF HostLineInv, InHostLine
<1> DEFINE w == Append(line, t)
<1>7. /\ w \in Seq(Users)
      /\ \A i, j \in DOMAIN w : w[i] = w[j] => i = j
      /\ \A s \in Users : (\E i \in DOMAIN w : w[i] = s) <=> s = t \/ \E i \in DOMAIN line : line[i] = s
      /\ line # <<>> => w[1] = line[1]
  BY <1>4, <1>6, Joined DEF HostShape, HostLineInv
<1>8. line' = w
  BY <1>3
<1> HIDE DEF w
<1>9. HostShape'
  BY <1>3, <1>4, <1>5, <1>7, <1>8 DEF HostShape
<1>10. HostLineInv'
  <2>1. ASSUME NEW s \in Users
        PROVE  /\ (\E i \in DOMAIN w : w[i] = s) <=> user'[s].pc # "idle"
               /\ user'[s].pc = "idle" => user'[s].op = "none"
               /\ user'[s].pc # "idle" => user'[s].todo # <<>>
               /\ user'[s].pc \in {"idle", "wait"} => user'[s].copy = 0
               /\ user'[s].pc \notin {"idle", "wait"} => w[1] = s /\ user'[s].copy \in DOMAIN copies
               /\ \A j \in DOMAIN user'[s].mine : user'[s].mine[j] \in DOMAIN copies
    <3>1. CASE s = t
      BY <3>1, <1>2, <1>3, <1>5, <1>7
    <3>2. CASE s # t
      <4>1. user'[s] = user[s]
        BY <3>2, <1>5
      <4>2. user[s].pc # "idle" => line # <<>>
        BY <1>4 DEF HostLineInv, InHostLine
      <4> QED
        BY <3>2, <4>1, <4>2, <1>4, <1>7 DEF HostLineInv, InHostLine
    <3> QED
      BY <3>1, <3>2
  <2> QED
    BY <2>1, <1>3, <1>7, <1>8 DEF HostLineInv, InHostLine
<1>11. HolderInv'
  <2>1. ASSUME NEW s \in Users, user'[s] = user[s] PROVE HolderKnows(s)'
    BY <2>1, <1>3, KnowsStill DEF HostInv, HolderInv
  <2>2. HolderKnows(t)'
    BY <1>2, <1>5 DEF HolderKnows
  <2> QED
    BY <2>1, <2>2, <1>5 DEF HolderInv
<1>12. UseInv'
  <2>1. ASSUME NEW s \in Users, user[s].pc = "exchanging" PROVE user'[s] = user[s]
    BY <2>1, <1>3, <1>5
  <2> QED
    BY <2>1, <1>3 DEF HostInv, UseInv, Todo, InUse, Active
<1>13. CopyInv'
  <2>1. ASSUME NEW i \in DOMAIN copies, NEW s \in Users, user[s].copy = i PROVE user'[s] = user[s]
    <3>1. user[t].copy = 0 /\ i # 0
      BY <1>3, <1>4, LenProperties DEF HostShape, HostLineInv
    <3> QED
      BY <2>1, <3>1, <1>5
  <2> QED
    BY <2>1, <1>3 DEF HostInv, CopyInv, InUse, Active
<1>14. FailedInv'
  <2>1. ASSUME NEW s \in Users, user[s].op = "undo" PROVE user'[s] = user[s]
    BY <2>1, <1>3, <1>4, <1>5 DEF HostLineInv
  <2>2. InUse' = InUse
    BY <1>3 DEF InUse, Active
  <2> QED
    BY <2>1, <2>2, <1>3 DEF HostInv, FailedInv
<1> QED
  BY <1>9, <1>10, <1>11, <1>12, <1>13, <1>14 DEF HostInv

LEMMA Backwards ==
    ASSUME NEW S, NEW s \in Seq(S)
    PROVE  LET w == Reverse(s) IN
           /\ w \in Seq(S) /\ DOMAIN w = DOMAIN s /\ (w = <<>> <=> s = <<>>)
           /\ \A i \in DOMAIN w : \E j \in DOMAIN s : w[i] = s[j]
           /\ \A j \in DOMAIN s : \E i \in DOMAIN w : w[i] = s[j]
           /\ ToSet(w) = {s[i] : i \in DOMAIN s}
<1> DEFINE w == Reverse(s)
<1>1. Len(s) \in Nat /\ DOMAIN s = 1 .. Len(s) /\ \A i \in DOMAIN s : s[i] \in S
  BY LenProperties, ElementOfSeq
<1>2. w = [i \in 1 .. Len(s) |-> s[(Len(s) - i) + 1]]
  BY DEF Reverse
<1> HIDE DEF w
<1>3. w \in [1 .. Len(s) -> S]
  BY <1>1, <1>2
<1>4. w \in Seq(S) /\ DOMAIN w = DOMAIN s
  BY <1>1, <1>3, SeqDef
<1>5. \A i \in DOMAIN s : (Len(s) - i) + 1 \in DOMAIN s /\ (Len(s) - ((Len(s) - i) + 1)) + 1 = i
  BY <1>1
<1>6. \A i \in DOMAIN s : w[i] = s[(Len(s) - i) + 1] /\ s[i] = w[(Len(s) - i) + 1]
  BY <1>1, <1>2, <1>5
<1>7. /\ \A i \in DOMAIN w : \E j \in DOMAIN s : w[i] = s[j]
      /\ \A j \in DOMAIN s : \E i \in DOMAIN w : w[i] = s[j]
  BY <1>4, <1>5, <1>6
<1>8. ToSet(w) = {s[i] : i \in DOMAIN s}
  BY <1>7 DEF ToSet
<1>9. w = <<>> <=> s = <<>>
  BY <1>1, <1>4, EmptySeq, LenProperties
<1> QED
  BY <1>4, <1>7, <1>8, <1>9 DEF w

LEMMA FailingKeeps ==
    ASSUME HostAssumption, HostInv, NEW t \in Users, line # <<>>, line[1] = t,
           user[t].op \in {"activate", "reload"},
           \/ user[t].pc = "wait" /\ UNCHANGED copies
           \/ user[t].pc = "cleaning" /\ copies' = Disposed(user[t].copy),
           ActivationFails(t), UNCHANGED <<handles, operations, dropped, twice>>, trouble' \in Nat
    PROVE  HostInv'
<1> DEFINE mine == Reverse(user[t].mine)
           names == [i \in DOMAIN mine |-> copies[mine[i]].ext]
           all == user[t].strict /\ mine # <<>>
<1>1. user[t] \in TaskRecords /\ user[t].mine \in Seq(Nat) /\ user[t].todo \in Seq(All) /\ user[t].todo # <<>>
      /\ copies \in Seq(CopyRecords)
      /\ \A j \in DOMAIN user[t].mine : user[t].mine[j] \in DOMAIN copies
  BY DEF HostInv, HostShape, HostLineInv, TaskRecords
<1>2. /\ mine \in Seq(Nat)
      /\ \A i \in DOMAIN mine : \E j \in DOMAIN user[t].mine : mine[i] = user[t].mine[j]
      /\ \A j \in DOMAIN user[t].mine : \E i \in DOMAIN mine : mine[i] = user[t].mine[j]
      /\ ToSet(mine) = {user[t].mine[i] : i \in DOMAIN user[t].mine}
  <2> DEFINE m == user[t].mine
  <2>1. m \in Seq(Nat)
    BY <1>1
  <2> HIDE DEF m
  <2>2. /\ Reverse(m) \in Seq(Nat)
        /\ \A i \in DOMAIN Reverse(m) : \E j \in DOMAIN m : Reverse(m)[i] = m[j]
        /\ \A j \in DOMAIN m : \E i \in DOMAIN Reverse(m) : Reverse(m)[i] = m[j]
        /\ ToSet(Reverse(m)) = {m[i] : i \in DOMAIN m}
    BY <2>1, Backwards
  <2> QED
    BY <2>2 DEF m
<1>u. PICK u \in TaskRecords :
        /\ GoOn(t, u) /\ u.mine = user[t].mine
        /\ all => u.op = "undo" /\ u.todo = names /\ failed' = failed \cup ToSet(mine) /\ names # <<>>
        /\ ~all => u.op = user[t].op /\ failed' = failed
  <2>1. CASE all
    <3>1. names \in Seq(All) /\ names # <<>>
      <4>1. DOMAIN mine = 1 .. Len(mine) /\ Len(mine) \in Nat /\ Len(mine) # 0
        BY <1>2, <2>1, LenProperties, EmptySeq
      <4>2. \A i \in DOMAIN mine : mine[i] \in DOMAIN copies /\ copies[mine[i]] \in CopyRecords
        BY <1>1, <1>2, ElementOfSeq
      <4>3. names \in [1 .. Len(mine) -> All]
        BY <4>1, <4>2 DEF CopyRecords
      <4>4. names \in Seq(All)
        BY <4>1, <4>3, SeqDef
      <4> HIDE DEF names
      <4>5. names # <<>>
        BY <4>1, <4>3
      <4> QED
        BY <4>4, <4>5
    <3> DEFINE u == [user[t] EXCEPT !.op = "undo", !.todo = names]
    <3>2. GoOn(t, u) /\ failed' = failed \cup ToSet(mine)
      BY <2>1 DEF ActivationFails
    <3> HIDE DEF names
    <3>3. u \in TaskRecords /\ u.mine = user[t].mine /\ u.op = "undo" /\ u.todo = names
      BY <1>1, <3>1 DEF TaskRecords
    <3> HIDE DEF u
    <3> QED
      BY <2>1, <3>1, <3>2, <3>3
  <2>2. CASE ~all
    <3> DEFINE u == IF user[t].strict THEN [user[t] EXCEPT !.todo = <<>>] ELSE Done(t)
    <3>1. GoOn(t, u) /\ failed' = failed
      BY <2>2 DEF ActivationFails
    <3>2. Tail(user[t].todo) \in Seq(All) /\ <<>> \in Seq(All)
      BY <1>1, HeadTailProperties
    <3>3. Done(t) \in TaskRecords /\ Done(t).mine = user[t].mine /\ Done(t).op = user[t].op
      BY <1>1, <3>2 DEF Done, TaskRecords
    <3>4. LET v == [user[t] EXCEPT !.todo = <<>>] IN
          v \in TaskRecords /\ v.mine = user[t].mine /\ v.op = user[t].op
      BY <1>1, <3>2 DEF TaskRecords
    <3>5. u \in TaskRecords /\ u.mine = user[t].mine /\ u.op = user[t].op
      BY <3>3, <3>4
    <3> HIDE DEF u
    <3> QED
      BY <2>2, <3>1, <3>5
  <2> QED
    BY <2>1, <2>2
<1>a. (all => mine # <<>>) /\ \A i \in DOMAIN mine : names[i] = copies[mine[i]].ext
  OBVIOUS
<1>b. DOMAIN names = DOMAIN mine
  OBVIOUS
<1> HIDE DEF all, names, mine
<1>3. /\ copies' \in Seq(CopyRecords) /\ DOMAIN copies' = DOMAIN copies
      /\ \A i \in DOMAIN copies :
            /\ copies'[i].ext = copies[i].ext /\ copies'[i].tools = copies[i].tools
            /\ copies'[i].times = copies[i].times
            /\ i # user[t].copy => copies'[i] = copies[i]
            /\ i = user[t].copy => copies'[i].stage = "disposed"
  <2>1. CASE user[t].pc = "wait" /\ UNCHANGED copies
    BY <1>1, <2>1, LenProperties, SMTT(30) DEF HostInv, HostLineInv
  <2>2. CASE user[t].pc = "cleaning" /\ copies' = Disposed(user[t].copy)
    <3>1. DOMAIN copies = 1 .. Len(copies) /\ \A i \in DOMAIN copies : copies[i] \in CopyRecords
      BY <1>1, LenProperties, ElementOfSeq
    <3>2. copies' = [copies EXCEPT ![user[t].copy].stage = "disposed"]
      BY <2>2 DEF Disposed
    <3>3. DOMAIN copies' = DOMAIN copies /\ \A i \in DOMAIN copies : copies'[i] \in CopyRecords
      BY <3>1, <3>2 DEF CopyRecords, HostStages
    <3>4. copies' \in Seq(CopyRecords)
      <4>1. Len(copies) \in Nat
        BY <1>1, LenProperties
      <4>2. copies' \in [1 .. Len(copies) -> CopyRecords]
        BY <3>1, <3>2, <3>3
      <4> QED
        BY <4>1, <4>2, SeqDef
    <3> QED
      BY <3>1, <3>2, <3>3, <3>4 DEF CopyRecords
  <2> QED
    BY <2>1, <2>2
<1>4. /\ line' \in Seq(Users) /\ user' \in [Users -> TaskRecords]
      /\ HostLineInv' /\ HolderInv'
      /\ \A s \in Users \ {t} : user'[s] = user[s]
      /\ user'[t] = IF u.todo = <<>> THEN NoCall ELSE [u EXCEPT !.pc = "wait", !.copy = 0]
  BY <1>1, <1>3, <1>u, GoesOn, ZenonT(60)
<1>5. HostShape'
  BY <1>3, <1>4 DEF HostInv, HostShape
<1>6. InUse' = InUse /\ user[t].copy \notin InUse
  <2>1. user[t].copy \notin InUse
    <3>1. CASE user[t].pc = "cleaning"
      BY <3>1 DEF HostInv, HolderInv, HolderKnows
    <3>2. CASE user[t].pc = "wait"
      <4>1. user[t].copy = 0
        BY <3>2 DEF HostInv, HostLineInv
      <4>2. 0 \notin DOMAIN copies
        BY <1>1, LenProperties
      <4>3. InUse \subseteq DOMAIN copies
        BY DEF HostInv, UseInv, InUse
      <4> QED
        BY <4>1, <4>2, <4>3
    <3> QED
      BY <3>1, <3>2
  <2> QED
    BY <2>1 DEF InUse, Active
<1>7. \A s \in Users : user[s].pc # "exchanging" /\ (s # t => user[s].copy = 0)
  BY OthersWait DEF HostInv
<1>8. UseInv'
  <2>1. \A e \in All : handles[e] # Nobody => handles[e] \in DOMAIN copies
    BY DEF HostInv, UseInv, Active
  <2>2. \A i \in InUse : i \in DOMAIN copies
    BY <2>1 DEF InUse, Active
  <2>3. \A i \in InUse \ twice : copies[i].stage = "ready" /\ copies[i].times = 0
    BY <1>7 DEF HostInv, UseInv
  <2>4. \A i \in InUse : copies'[i] = copies[i]
    BY <1>3, <1>6, <2>2
  <2>5. \A i \in InUse' \ twice' : copies'[i].stage = "ready" /\ copies'[i].times = 0
    BY <1>6, <2>3, <2>4
  <2>6. \A e \in All : handles[e] # Nobody => copies'[handles[e]] = copies[handles[e]]
    BY <2>4 DEF InUse, Active
  <2>7. \A i \in InUse' : copies'[i].tools \cap Base = {}
    BY <1>6, <2>4 DEF HostInv, UseInv
  <2> QED
    BY <1>3, <2>1, <2>5, <2>6, <2>7 DEF HostInv, UseInv, Active
<1>9. CopyInv'
  <2>1. ASSUME NEW i \in DOMAIN copies PROVE i \in InUse \cup dropped \cup twice \/ copies'[i].stage = "disposed"
    <3>1. i # 0
      BY <1>1, LenProperties
    <3>2. \A s \in Users : user[s].copy = i => i = user[t].copy
      BY <3>1, <1>7
    <3> QED
      BY <1>3, <3>2 DEF HostInv, CopyInv
  <2>2. failed' \subseteq DOMAIN copies
    BY <1>u, <1>1, <1>2 DEF HostInv, CopyInv
  <2> QED
    BY <1>3, <1>6, <2>1, <2>2 DEF HostInv, CopyInv
<1>10. FailedInv'
  <2> SUFFICES ASSUME NEW i \in failed' \cap InUse
               PROVE  \E s \in Users :
                        /\ user'[s].op = "undo"
                        /\ \E j \in DOMAIN user'[s].mine : user'[s].mine[j] = i
                        /\ \E j \in DOMAIN user'[s].todo : user'[s].todo[j] = copies'[i].ext
    BY <1>6 DEF FailedInv
  <2>1. CASE i \in failed
    <3>1. PICK s \in Users :
            /\ user[s].op = "undo"
            /\ \E j \in DOMAIN user[s].mine : user[s].mine[j] = i
            /\ \E j \in DOMAIN user[s].todo : user[s].todo[j] = copies[i].ext
      BY <2>1 DEF HostInv, FailedInv
    <3>2. user'[s] = user[s]
      BY <3>1, <1>4
    <3>3. copies'[i].ext = copies[i].ext
      BY <2>1, <1>3 DEF HostInv, CopyInv
    <3> QED
      BY <3>1, <3>2, <3>3
  <2>2. CASE i \notin failed
    <3>1. all /\ i \in ToSet(mine)
      BY <2>2, <1>u
    <3>2. PICK j \in DOMAIN mine : mine[j] = i
      BY <3>1 DEF ToSet
    <3>3. user'[t].op = "undo" /\ user'[t].mine = user[t].mine /\ user'[t].todo = names
      BY <3>1, <1>4, <1>u DEF TaskRecords
    <3>4. names[j] = copies[i].ext /\ j \in DOMAIN names
      BY <3>2, <1>a, <1>b
    <3>5. \E k \in DOMAIN user[t].mine : user[t].mine[k] = i
      BY <3>2, <1>2
    <3>6. copies'[i].ext = copies[i].ext
      BY <3>5, <1>1, <1>3
    <3> QED
      BY <3>3, <3>4, <3>5, <3>6
  <2> QED
    BY <2>1, <2>2
<1> QED
  BY <1>4, <1>5, <1>8, <1>9, <1>10 DEF HostInv

LEMMA RefusedKeeps == ASSUME HostAssumption, HostInv, NEW t \in Users, Refused(t) PROVE HostInv'
<1>1. line # <<>> /\ line[1] = t /\ user[t].pc = "wait" /\ user[t].op \in {"activate", "reload"}
  BY DEF Refused, Gets, UserAt, HostInv, HostShape
<1>2. trouble' \in Nat
  BY DEF Refused, Trouble, HostInv, HostShape
<1> QED
  BY <1>1, <1>2, FailingKeeps DEF Refused

LEMMA CleanedKeeps == ASSUME HostAssumption, HostInv, NEW t \in Users, Cleaned(t) PROVE HostInv'
<1>1. line # <<>> /\ line[1] = t /\ user[t].pc = "cleaning" /\ user[t].op \in {"activate", "reload"}
  <2>1. user[t].pc = "cleaning"
    BY DEF Cleaned, UserAt
  <2>2. user[t].op \in {"activate", "reload"}
    BY <2>1 DEF HostInv, HolderInv, HolderKnows
  <2>3. line[1] = t /\ \E i \in DOMAIN line : line[i] = t
    BY <2>1 DEF HostInv, HostLineInv, InHostLine
  <2> QED
    BY <2>1, <2>2, <2>3
<1>2. trouble' \in Nat
  BY DEF Cleaned, HostInv, HostShape
<1> QED
  BY <1>1, <1>2, FailingKeeps DEF Cleaned

(* The holder of the lock takes a step and keeps it. *)
LEMMA HolderMoves ==
    ASSUME HostInv, NEW t \in Users, line # <<>>, line[1] = t, NEW r \in TaskRecords,
           user' = [user EXCEPT ![t] = r], UNCHANGED line, r.pc \notin {"idle", "wait"},
           r.todo # <<>>, r.mine = user[t].mine, r.copy \in DOMAIN copies', DOMAIN copies \subseteq DOMAIN copies'
    PROVE  /\ user' \in [Users -> TaskRecords] /\ user'[t] = r
           /\ HostLineInv'
           /\ \A s \in Users \ {t} : user'[s] = user[s] /\ user[s].pc \in {"idle", "wait"} /\ user[s].copy = 0
           /\ HolderKnows(t)' => HolderInv'
<1>1. user \in [Users -> TaskRecords] /\ HostLineInv
  BY DEF HostInv, HostShape
<1>2. user' \in [Users -> TaskRecords] /\ user'[t] = r /\ \A s \in Users \ {t} : user'[s] = user[s]
  BY <1>1
<1>3. \A s \in Users \ {t} : user[s].pc \in {"idle", "wait"} /\ user[s].copy = 0
  BY <1>1, OthersWait
<1>4. 1 \in DOMAIN line
  BY LenProperties, EmptySeq DEF HostInv, HostShape
<1>5. ASSUME NEW s \in Users
      PROVE  /\ (\E i \in DOMAIN line : line[i] = s) <=> user'[s].pc # "idle"
             /\ user'[s].pc = "idle" => user'[s].op = "none"
             /\ user'[s].pc # "idle" => user'[s].todo # <<>>
             /\ user'[s].pc \in {"idle", "wait"} => user'[s].copy = 0
             /\ user'[s].pc \notin {"idle", "wait"} => line[1] = s /\ user'[s].copy \in DOMAIN copies'
             /\ \A j \in DOMAIN user'[s].mine : user'[s].mine[j] \in DOMAIN copies'
  <2>1. CASE s = t
    BY <2>1, <1>1, <1>2, <1>4 DEF HostLineInv
  <2>2. CASE s # t
    BY <2>2, <1>1, <1>2, <1>3 DEF HostLineInv, InHostLine
  <2> QED
    BY <2>1, <2>2
<1>6. HostLineInv'
  BY <1>1, <1>5 DEF HostLineInv, InHostLine
<1>7. ASSUME HolderKnows(t)' PROVE HolderInv'
  <2>1. ASSUME NEW s \in Users \ {t} PROVE HolderKnows(s)'
    BY <1>2, <1>3 DEF HolderKnows
  <2> QED
    BY <1>7, <2>1 DEF HolderInv
<1> QED
  BY <1>2, <1>3, <1>6, <1>7

(* What the invariant says of the copies in use. *)
LEMMA UsedAre ==
    ASSUME HostInv
    PROVE  /\ InUse \subseteq DOMAIN copies /\ 0 \notin DOMAIN copies
           /\ \A i \in DOMAIN copies : copies[i] \in CopyRecords
           /\ \A e \in All : handles[e] # Nobody =>
                handles[e] \in InUse /\ handles[e] \in DOMAIN copies /\ copies[handles[e]].ext = e
           /\ \A i \in InUse : copies[i].ext \in All /\ handles[copies[i].ext] = i /\ i # Nobody
<1>1. copies \in Seq(CopyRecords) /\ UseInv
  BY DEF HostInv, HostShape
<1>2. 0 \notin DOMAIN copies /\ \A i \in DOMAIN copies : copies[i] \in CopyRecords
  BY <1>1, LenProperties, ElementOfSeq
<1>3. \A e \in All : handles[e] # Nobody =>
            handles[e] \in InUse /\ handles[e] \in DOMAIN copies /\ copies[handles[e]].ext = e
  BY <1>1 DEF UseInv, InUse, Active
<1>4. \A i \in InUse : \E e \in All : handles[e] = i /\ handles[e] # Nobody
  BY DEF InUse, Active
<1> QED
  BY <1>2, <1>3, <1>4

LEMMA NamesAreTools ==
    ASSUME HostAssumption, HostInv, NEW x
    PROVE  Reserved(x) \subseteq Tools
<1>1. \A e \in All : handles[e] # Nobody => copies[handles[e]].tools \subseteq Tools
  BY UsedAre DEF CopyRecords
<1> QED
  BY <1>1 DEF HostAssumption, Reserved, Active

(* They stay what they are as long as the copies in use have their tools. *)
LEMMA SameNames ==
    ASSUME UNCHANGED handles, NEW CONSTANT x,
           \A e \in All : handles[e] # Nobody => copies'[handles[e]].tools = copies[handles[e]].tools
    PROVE  Reserved(x)' = Reserved(x)
<1>1. {copies'[handles[e]].tools : e \in {y \in All \ x : handles[y] # Nobody}} =
      {copies[handles[e]].tools : e \in {y \in All \ x : handles[y] # Nobody}}
  OBVIOUS
<1> QED
  BY <1>1 DEF Reserved, Active

LEMMA StageKeeps == ASSUME HostAssumption, HostInv, NEW t \in Users, Stage(t) PROVE HostInv'
<1> DEFINE n == Len(copies) + 1
           new == [ext |-> Todo(t), tools |-> {}, stage |-> "staging", times |-> 0]
           ignored == IF user[t].op = "reload" THEN {Todo(t)} ELSE {}
           r == [user[t] EXCEPT !.pc = "staging", !.copy = n, !.taken = Reserved(ignored)]
<1>1. /\ line # <<>> /\ line[1] = t /\ user[t].pc = "wait" /\ user[t].op \in {"activate", "reload"}
      /\ (handles[Todo(t)] # Nobody <=> user[t].op = "reload")
      /\ copies' = Append(copies, new)
      /\ user' = [user EXCEPT ![t] = r]
      /\ UNCHANGED <<handles, line, operations, trouble, dropped, twice, failed>>
  <2>1. user' = [user EXCEPT ![t].pc = "staging", ![t].copy = n, ![t].taken = Reserved(ignored)]
    BY DEF Stage
  <2>2. user \in [Users -> TaskRecords]
    BY DEF HostInv, HostShape
  <2>3. user' = [user EXCEPT ![t] = r]
    BY <2>1, <2>2 DEF TaskRecords
  <2>4. line # <<>> /\ line[1] = t /\ user[t].pc = "wait" /\ user[t].op \in {"activate", "reload"}
    <3>1. line \in Seq(Users)
      BY DEF HostInv, HostShape
    <3> QED
      BY <3>1 DEF Stage, Gets, UserAt
  <2>5. (handles[Todo(t)] # Nobody <=> user[t].op = "reload") /\ copies' = Append(copies, new)
    BY DEF Stage, Active
  <2>6. UNCHANGED <<handles, line, operations, trouble, dropped, twice, failed>>
    BY DEF Stage
  <2> HIDE DEF r, new
  <2> QED
    BY <2>3, <2>4, <2>5, <2>6
<1>2. user[t] \in TaskRecords /\ user[t].todo # <<>> /\ user[t].todo \in Seq(All) /\ copies \in Seq(CopyRecords)
      /\ Todo(t) \in All
  BY <1>1, SMTT(30) DEF HostInv, HostShape, HostLineInv, TaskRecords, Todo
<1>3. new \in CopyRecords /\ new.stage = "staging" /\ new.times = 0 /\ new.ext = Todo(t)
  BY <1>2 DEF CopyRecords, HostStages
<1> HIDE DEF new
<1>4. /\ copies' \in Seq(CopyRecords) /\ n \in Nat /\ DOMAIN copies' = DOMAIN copies \cup {n}
      /\ n \notin DOMAIN copies /\ copies'[n] = new /\ \A i \in DOMAIN copies : copies'[i] = copies[i]
  BY <1>1, <1>2, <1>3, AppendProperties, LenProperties
<1> HIDE DEF n
<1>5. Reserved(ignored) \in SUBSET Tools
  BY NamesAreTools
<1>6. r \in TaskRecords /\ r.pc = "staging" /\ r.copy = n /\ r.taken = Reserved(ignored)
      /\ r.todo = user[t].todo /\ r.op = user[t].op /\ r.mine = user[t].mine
  BY <1>2, <1>4, <1>5 DEF TaskRecords, HostPlaces
<1> HIDE DEF r, ignored
<1>7. /\ user' \in [Users -> TaskRecords] /\ user'[t] = r
      /\ HostLineInv'
      /\ \A s \in Users \ {t} : user'[s] = user[s] /\ user[s].pc \in {"idle", "wait"} /\ user[s].copy = 0
      /\ HolderKnows(t)' => HolderInv'
  BY <1>1, <1>2, <1>4, <1>6, HolderMoves
<1>8. InUse' = InUse /\ InUse \subseteq DOMAIN copies
  BY <1>1, UsedAre DEF InUse, Active
<1>9. \A e \in All : handles[e] # Nobody => copies'[handles[e]] = copies[handles[e]]
  BY <1>4, UsedAre
<1>10. HostShape'
  BY <1>1, <1>4, <1>7 DEF HostInv, HostShape
<1>11. HolderKnows(t)'
  <2>1. r.copy \notin InUse \cup failed \cup twice
    BY <1>4, <1>6, <1>8 DEF HostInv, CopyInv
  <2>2. (Todo(t))' = Todo(t)
    BY <1>6, <1>7 DEF Todo
  <2>3. (user[t].taken = Reserved(IF user[t].op = "reload" THEN {Todo(t)} ELSE {}))'
    <3>1. PICK x : x = ignored
      OBVIOUS
    <3>2. user'[t].taken = Reserved(x)
      BY <3>1, <1>6, <1>7
    <3>3. Reserved(x)' = Reserved(x)
      BY <1>1, <1>9, SameNames
    <3>4. (IF user[t].op = "reload" THEN {Todo(t)} ELSE {})' = x
      BY <3>1, <1>6, <1>7 DEF ignored, Todo
    <3> QED
      BY <3>2, <3>3, <3>4 DEF Reserved
  <2> QED
    BY <1>1, <1>3, <1>4, <1>6, <1>7, <1>8, <2>1, <2>2, <2>3 DEF HolderKnows, Active, Todo
<1>12. UseInv'
  <2>1. \A s \in Users : user[s].pc # "exchanging"
    BY <1>1, <1>7
  <2>2. \A i \in InUse \ twice : copies[i].stage = "ready" /\ copies[i].times = 0
    BY <2>1 DEF HostInv, UseInv
  <2>3. \A i \in InUse : copies'[i] = copies[i]
    BY <1>4, <1>8
  <2> QED
    BY <1>1, <1>4, <1>8, <1>9, <2>2, <2>3, UsedAre DEF HostInv, UseInv, Active
<1>13. CopyInv'
  <2>1. ASSUME NEW i \in DOMAIN copies PROVE i \in InUse \cup dropped \cup twice \/ copies'[i].stage = "disposed"
    <3>1. \A s \in Users : user[s].copy = 0
      BY <1>1, <1>7 DEF HostInv, HostLineInv
    <3> QED
      BY <3>1, <1>4, UsedAre DEF HostInv, CopyInv
  <2>2. user'[t].copy = n
    BY <1>6, <1>7
  <2>3. \A i \in DOMAIN copies' \ twice : copies'[i].times <= 1
    BY <1>3, <1>4 DEF HostInv, CopyInv
  <2> QED
    BY <1>1, <1>4, <1>8, <2>1, <2>2, <2>3 DEF HostInv, CopyInv
<1>14. FailedInv'
  <2>1. \A i \in failed : copies'[i] = copies[i]
    BY <1>4 DEF HostInv, CopyInv
  <2>2. \A s \in Users : user[s].op = "undo" => user'[s] = user[s]
    BY <1>1, <1>7
  <2> QED
    BY <1>1, <1>8, <2>1, <2>2 DEF HostInv, FailedInv
<1> QED
  BY <1>7, <1>10, <1>11, <1>12, <1>13, <1>14 DEF HostInv

LEMMA HolderIs ==
    ASSUME HostInv, NEW t \in Users, user[t].pc \notin {"idle", "wait"}
    PROVE  /\ line # <<>> /\ line[1] = t /\ user[t].copy \in DOMAIN copies /\ user[t] \in TaskRecords
           /\ user[t].todo # <<>> /\ user[t].todo \in Seq(All) /\ Todo(t) \in All
           /\ HolderKnows(t)
           /\ \A j \in DOMAIN user[t].mine : user[t].mine[j] \in DOMAIN copies
           /\ \A s \in Users \ {t} : user[s].pc \in {"idle", "wait"} /\ user[s].copy = 0
<1>1. user[t] \in TaskRecords /\ user[t].todo \in Seq(All)
  BY DEF HostInv, HostShape, TaskRecords
<1>2. /\ \E i \in DOMAIN line : line[i] = t
      /\ line[1] = t /\ user[t].copy \in DOMAIN copies /\ user[t].todo # <<>>
      /\ \A j \in DOMAIN user[t].mine : user[t].mine[j] \in DOMAIN copies
  BY DEF HostInv, HostLineInv, InHostLine
<1>3. line # <<>>
  BY <1>2
<1>4. Todo(t) \in All
  BY <1>1, <1>2 DEF Todo
<1> QED
  BY <1>1, <1>2, <1>3, <1>4, OthersWait DEF HostInv, HolderInv

LEMMA OneCopyChanges ==
    ASSUME HostInv, NEW c \in DOMAIN copies, NEW d \in CopyRecords, copies' = [copies EXCEPT ![c] = d]
    PROVE  /\ copies' \in Seq(CopyRecords) /\ DOMAIN copies' = DOMAIN copies
           /\ copies'[c] = d /\ \A i \in DOMAIN copies \ {c} : copies'[i] = copies[i]
<1>1. copies \in Seq(CopyRecords)
  BY DEF HostInv, HostShape
<1>2. Len(copies) \in Nat /\ DOMAIN copies = 1 .. Len(copies) /\ \A i \in DOMAIN copies : copies[i] \in CopyRecords
  BY <1>1, LenProperties, ElementOfSeq
<1>3. copies' \in [1 .. Len(copies) -> CopyRecords]
  BY <1>2
<1>4. copies' \in Seq(CopyRecords)
  BY <1>2, <1>3, SeqDef
<1> QED
  BY <1>2, <1>4

(* The holder has done with one extension: whoever comes to copies of a failed activation
   still comes to those in use. *)
LEMMA Advances ==
    ASSUME HostInv, NEW t \in Users, line # <<>>, line[1] = t, user[t].todo # <<>>,
           NEW u \in TaskRecords, GoOn(t, u), u.op = user[t].op, u.op # "none", u.todo = Tail(user[t].todo),
           DOMAIN copies' = DOMAIN copies,
           \A j \in DOMAIN u.mine : u.mine[j] \in DOMAIN copies,
           \A j \in DOMAIN user[t].mine : \E k \in DOMAIN u.mine : u.mine[k] = user[t].mine[j],
           UNCHANGED failed,
           \A i \in failed \cap InUse' :
                i \in InUse /\ copies'[i].ext = copies[i].ext /\ copies[i].ext # Todo(t)
    PROVE  /\ line' \in Seq(Users) /\ user' \in [Users -> TaskRecords]
           /\ HostLineInv' /\ HolderInv' /\ FailedInv'
           /\ \A s \in Users : user'[s].pc \in {"idle", "wait"} /\ user'[s].copy = 0
<1>1. /\ line' \in Seq(Users) /\ user' \in [Users -> TaskRecords]
      /\ HostLineInv' /\ HolderInv'
      /\ \A s \in Users : user'[s].pc \in {"idle", "wait"} /\ user'[s].copy = 0
      /\ \A s \in Users \ {t} : user'[s] = user[s]
      /\ user'[t] = IF u.todo = <<>> THEN NoCall ELSE [u EXCEPT !.pc = "wait", !.copy = 0]
  BY GoesOn
<1>2. FailedInv'
  <2> SUFFICES ASSUME NEW i \in failed \cap InUse'
               PROVE  \E s \in Users :
                        /\ user'[s].op = "undo"
                        /\ \E j \in DOMAIN user'[s].mine : user'[s].mine[j] = i
                        /\ \E j \in DOMAIN user'[s].todo : user'[s].todo[j] = copies'[i].ext
    BY DEF FailedInv
  <2>1. i \in InUse /\ copies'[i].ext = copies[i].ext /\ copies[i].ext # Todo(t)
    OBVIOUS
  <2>2. PICK s \in Users :
          /\ user[s].op = "undo"
          /\ \E j \in DOMAIN user[s].mine : user[s].mine[j] = i
          /\ \E j \in DOMAIN user[s].todo : user[s].todo[j] = copies[i].ext
    BY <2>1 DEF HostInv, FailedInv
  <2>3. CASE s # t
    BY <1>1, <2>1, <2>2, <2>3
  <2>4. CASE s = t
    <3>1. PICK j \in DOMAIN user[t].todo : user[t].todo[j] = copies[i].ext
      BY <2>2, <2>4
    <3>2. user[t].todo \in Seq(All) /\ Todo(t) = user[t].todo[1]
      BY DEF HostInv, HostShape, TaskRecords, Todo
    <3>3. j # 1 /\ j \in 1 .. Len(user[t].todo)
      BY <2>1, <3>1, <3>2, LenProperties
    <3>4. j - 1 \in DOMAIN u.todo /\ u.todo[j - 1] = copies[i].ext
      BY <3>1, <3>2, <3>3, HeadTailProperties, LenProperties
    <3>5. u.todo # <<>>
      BY <3>4
    <3>6. user'[t] = [u EXCEPT !.pc = "wait", !.copy = 0]
      BY <1>1, <3>5
    <3>7. user'[t].op = "undo" /\ user'[t].mine = u.mine /\ user'[t].todo = u.todo
      BY <2>2, <2>4, <3>6 DEF TaskRecords
    <3>8. \E k \in DOMAIN user'[t].mine : user'[t].mine[k] = i
      <4>1. \E k \in DOMAIN u.mine : u.mine[k] = i
        BY <2>2, <2>4
      <4> QED
        BY <4>1, <3>7
    <3>a. user'[t].op = "undo"
      BY <3>7
    <3>9. \E k \in DOMAIN user'[t].todo : user'[t].todo[k] = copies'[i].ext
      BY <2>1, <3>4, <3>7
    <3> QED
      BY <3>a, <3>8, <3>9
  <2> QED
    BY <2>3, <2>4
<1> QED
  BY <1>1, <1>2

LEMMA RaisedKeeps == ASSUME HostInv, NEW t \in Users, Raised(t) PROVE HostInv'
<1> DEFINE c == user[t].copy
           d == [copies[c] EXCEPT !.times = 1]
           r == [user[t] EXCEPT !.pc = "cleaning"]
<1>1. /\ user[t].pc = "staging" /\ copies' = [copies EXCEPT ![c].times = 1]
      /\ user' = [user EXCEPT ![t].pc = "cleaning"] /\ trouble' \in Nat
      /\ UNCHANGED <<handles, line, operations, dropped, twice, failed>>
  BY DEF Raised, UserAt, Trouble, HostInv, HostShape
<1>2. /\ line # <<>> /\ line[1] = t /\ c \in DOMAIN copies /\ user[t] \in TaskRecords
      /\ user[t].todo # <<>> /\ HolderKnows(t)
      /\ \A s \in Users \ {t} : user[s].pc \in {"idle", "wait"} /\ user[s].copy = 0
  BY <1>1, HolderIs
<1>3. copies' = [copies EXCEPT ![c] = d] /\ user' = [user EXCEPT ![t] = r]
  BY <1>1
<1>4. d \in CopyRecords /\ d.times = 1 /\ d.tools = copies[c].tools /\ d.ext = copies[c].ext
  BY <1>2, UsedAre DEF CopyRecords
<1>5. r \in TaskRecords /\ r.pc = "cleaning" /\ r.copy = c /\ r.todo = user[t].todo /\ r.op = user[t].op
      /\ r.mine = user[t].mine
  BY <1>2 DEF TaskRecords, HostPlaces
<1> HIDE DEF d, r
<1>6. /\ copies' \in Seq(CopyRecords) /\ DOMAIN copies' = DOMAIN copies
      /\ copies'[c] = d /\ \A i \in DOMAIN copies \ {c} : copies'[i] = copies[i]
  BY <1>2, <1>3, <1>4, OneCopyChanges
<1>7. /\ user' \in [Users -> TaskRecords] /\ user'[t] = r
      /\ HostLineInv'
      /\ \A s \in Users \ {t} : user'[s] = user[s]
      /\ HolderKnows(t)' => HolderInv'
  <2>1. user' = [user EXCEPT ![t] = r] /\ line' = line
    BY <1>1, <1>3
  <2>2. r.pc \notin {"idle", "wait"} /\ r.todo # <<>> /\ r.mine = user[t].mine /\ r.copy \in DOMAIN copies'
        /\ DOMAIN copies \subseteq DOMAIN copies'
    BY <1>2, <1>5, <1>6
  <2> QED
    BY <1>2, <1>5, <2>1, <2>2, HolderMoves
<1>8. InUse' = InUse /\ InUse \subseteq DOMAIN copies /\ c \notin InUse
  BY <1>1, <1>2, UsedAre DEF InUse, Active, HolderKnows
<1>9. HolderKnows(t)'
  BY <1>1, <1>2, <1>4, <1>5, <1>6, <1>7, <1>8 DEF HolderKnows, Todo, Active
<1>10. UseInv'
  <2>1. \A i \in InUse : copies'[i] = copies[i]
    BY <1>6, <1>8
  <2>2. \A i \in InUse \ twice : copies[i].stage = "ready" /\ copies[i].times = 0
    BY <1>1, <1>2 DEF HostInv, UseInv
  <2>3. \A e \in All : handles[e] # Nobody => copies'[handles[e]] = copies[handles[e]]
    BY <2>1, UsedAre
  <2> QED
    BY <1>1, <1>6, <1>8, <2>1, <2>2, <2>3, UsedAre DEF HostInv, UseInv, Active
<1>11. CopyInv'
  <2>1. user'[t].copy = c
    BY <1>5, <1>7
  <2>2. ASSUME NEW i \in DOMAIN copies, i # c
        PROVE  i \in InUse \cup dropped \cup twice \/ copies'[i].stage = "disposed"
    <3>1. \A s \in Users : user[s].copy # i
      BY <1>2, <2>2, UsedAre
    <3> QED
      BY <3>1, <2>2, <1>6 DEF HostInv, CopyInv
  <2>3. \A i \in DOMAIN copies' \ twice : copies'[i].times <= 1
    BY <1>4, <1>6 DEF HostInv, CopyInv
  <2> QED
    BY <1>1, <1>6, <1>8, <2>1, <2>2, <2>3 DEF HostInv, CopyInv
<1>12. FailedInv'
  <2>1. \A i \in failed : copies'[i].ext = copies[i].ext
    BY <1>4, <1>6 DEF HostInv, CopyInv
  <2>2. \A s \in Users : user'[s].op = user[s].op /\ user'[s].mine = user[s].mine /\ user'[s].todo = user[s].todo
    BY <1>5, <1>7
  <2> QED
    BY <1>1, <1>8, <2>1, <2>2 DEF HostInv, FailedInv
<1>13. HostShape'
  BY <1>1, <1>6, <1>7 DEF HostInv, HostShape
<1> QED
  BY <1>7, <1>9, <1>10, <1>11, <1>12, <1>13 DEF HostInv

LEMMA DeactivatedKeeps == ASSUME HostInv, NEW t \in Users, Deactivated(t) PROVE HostInv'
<1> DEFINE c == user[t].copy
           d == [copies[c] EXCEPT !.stage = "disposed"]
<1>1. /\ user[t].pc = "disposing" /\ copies' = [copies EXCEPT ![c] = d] /\ GoOn(t, Done(t))
      /\ UNCHANGED <<handles, operations, trouble, dropped, twice, failed>>
  BY DEF Deactivated, UserAt, Disposed
<1>2. /\ line # <<>> /\ line[1] = t /\ c \in DOMAIN copies /\ user[t] \in TaskRecords
      /\ user[t].todo # <<>> /\ user[t].todo \in Seq(All) /\ Todo(t) \in All /\ HolderKnows(t)
      /\ \A j \in DOMAIN user[t].mine : user[t].mine[j] \in DOMAIN copies
      /\ \A s \in Users \ {t} : user[s].pc \in {"idle", "wait"} /\ user[s].copy = 0
  BY <1>1, HolderIs
<1>3. d \in CopyRecords /\ d.times = copies[c].times /\ d.ext = copies[c].ext /\ d.stage = "disposed"
  BY <1>2, UsedAre DEF CopyRecords, HostStages
<1> HIDE DEF d
<1>4. /\ copies' \in Seq(CopyRecords) /\ DOMAIN copies' = DOMAIN copies
      /\ copies'[c] = d /\ \A i \in DOMAIN copies \ {c} : copies'[i] = copies[i]
  BY <1>1, <1>2, <1>3, OneCopyChanges
<1>5. Done(t) \in TaskRecords /\ Done(t).op = user[t].op /\ Done(t).mine = user[t].mine
      /\ Done(t).todo = Tail(user[t].todo)
  <2>1. Tail(user[t].todo) \in Seq(All)
    BY <1>2, HeadTailProperties
  <2> QED
    BY <1>2, <2>1 DEF Done, TaskRecords
<1>6. InUse' = InUse /\ InUse \subseteq DOMAIN copies /\ c \notin InUse
      /\ handles[Todo(t)] = Nobody /\ user[t].op # "none"
  BY <1>1, <1>2, UsedAre DEF InUse, Active, HolderKnows
<1>7. \A i \in InUse : copies'[i] = copies[i] /\ copies[i].ext # Todo(t)
  BY <1>4, <1>6, UsedAre
<1>8. /\ line' \in Seq(Users) /\ user' \in [Users -> TaskRecords]
      /\ HostLineInv' /\ HolderInv' /\ FailedInv'
  BY <1>1, <1>2, <1>4, <1>5, <1>6, <1>7, Advances
<1>9. UseInv'
  <2>2. \A i \in InUse \ twice : copies[i].stage = "ready" /\ copies[i].times = 0
    BY <1>1, <1>2 DEF HostInv, UseInv
  <2>3. \A e \in All : handles[e] # Nobody => copies'[handles[e]] = copies[handles[e]]
    BY <1>7, UsedAre
  <2> QED
    BY <1>1, <1>4, <1>6, <1>7, <2>2, <2>3, UsedAre DEF HostInv, UseInv, Active
<1>10. CopyInv'
  <2>2. ASSUME NEW i \in DOMAIN copies, i # c
        PROVE  i \in InUse \cup dropped \cup twice \/ copies'[i].stage = "disposed"
    <3>1. \A s \in Users : user[s].copy # i
      BY <1>2, <2>2, UsedAre
    <3> QED
      BY <3>1, <2>2, <1>4 DEF HostInv, CopyInv
  <2>3. \A i \in DOMAIN copies' \ twice : copies'[i].times <= 1
    BY <1>3, <1>4 DEF HostInv, CopyInv
  <2> QED
    BY <1>1, <1>3, <1>4, <1>6, <2>2, <2>3 DEF HostInv, CopyInv
<1>11. HostShape'
  BY <1>1, <1>4, <1>8 DEF HostInv, HostShape
<1> QED
  BY <1>8, <1>9, <1>10, <1>11 DEF HostInv

LEMMA StagedKeeps == ASSUME HostInv, NEW t \in Users, Staged(t) PROVE HostInv'
<1> DEFINE c == user[t].copy
           e == Todo(t)
<1>1. user[t].pc = "staging" /\ UNCHANGED <<operations, trouble, dropped, twice, failed>>
  BY DEF Staged, UserAt
<1>2. /\ line # <<>> /\ line[1] = t /\ c \in DOMAIN copies /\ user[t] \in TaskRecords
      /\ user[t].todo # <<>> /\ user[t].todo \in Seq(All) /\ e \in All /\ HolderKnows(t)
      /\ \A j \in DOMAIN user[t].mine : user[t].mine[j] \in DOMAIN copies
      /\ \A s \in Users \ {t} : user[s].pc \in {"idle", "wait"} /\ user[s].copy = 0
  BY <1>1, HolderIs
<1>3. /\ c \notin InUse \cup failed \cup twice /\ user[t].op \in {"activate", "reload"}
      /\ handles[e] # Nobody <=> user[t].op = "reload"
      /\ copies[c].stage = "staging" /\ copies[c].times = 0 /\ copies[c].ext = e
      /\ user[t].taken = Reserved(IF user[t].op = "reload" THEN {e} ELSE {})
  BY <1>1, <1>2 DEF HolderKnows, Active
<1>4. \A i \in InUse \ twice : copies[i].stage = "ready" /\ copies[i].times = 0
  BY <1>1, <1>2, SMTT(30) DEF HostInv, UseInv
<1>5. PICK tools \in SUBSET (Tools \ user[t].taken) :
        LET ready == [copies EXCEPT ![c].tools = tools, ![c].stage = "ready"] IN
        IF user[t].op = "reload"
        THEN /\ copies' = [ready EXCEPT ![handles[e]].times = @ + 1]
             /\ user' = [user EXCEPT ![t].pc = "exchanging"]
             /\ UNCHANGED <<handles, line>>
        ELSE /\ copies' = ready
             /\ handles' = [handles EXCEPT ![e] = c]
             /\ GoOn(t, [Done(t) EXCEPT !.mine = Append(@, c)])
  BY DEF Staged
<1> DEFINE d == [copies[c] EXCEPT !.tools = tools, !.stage = "ready"]
<1>6. d \in CopyRecords /\ d.tools = tools /\ d.stage = "ready" /\ d.times = 0 /\ d.ext = e
  <2>1. copies[c] \in CopyRecords /\ tools \in SUBSET Tools
    BY <1>2, UsedAre
  <2> QED
    BY <1>3, <2>1 DEF CopyRecords, HostStages
<1>7. [copies EXCEPT ![c].tools = tools, ![c].stage = "ready"] = [copies EXCEPT ![c] = d]
  <2>1. copies[c] \in CopyRecords
    BY <1>2, UsedAre
  <2> QED
    BY <1>2, <2>1 DEF HostInv, HostShape, CopyRecords
<1> HIDE DEF d
<1>8. CASE user[t].op = "activate"
  <2> DEFINE u == [Done(t) EXCEPT !.mine = Append(@, c)]
  <2>1. copies' = [copies EXCEPT ![c] = d] /\ handles' = [handles EXCEPT ![e] = c] /\ GoOn(t, u)
    BY <1>5, <1>7, <1>8
  <2>2. /\ u \in TaskRecords /\ u.op = user[t].op /\ u.mine = Append(user[t].mine, c)
        /\ u.todo = Tail(user[t].todo)
    <3>1. Tail(user[t].todo) \in Seq(All)
      BY <1>2, HeadTailProperties
    <3>2. user[t].mine \in Seq(Nat) /\ c \in Nat
      BY <1>2 DEF TaskRecords
    <3>3. Append(user[t].mine, c) \in Seq(Nat)
      BY <3>2, AppendProperties
    <3>4. Done(t) \in TaskRecords /\ Done(t).op = user[t].op /\ Done(t).mine = user[t].mine
          /\ Done(t).todo = Tail(user[t].todo)
      BY <1>2, <3>1 DEF Done, TaskRecords
    <3> QED
      BY <3>3, <3>4 DEF TaskRecords
  <2> HIDE DEF u
  <2>3. /\ copies' \in Seq(CopyRecords) /\ DOMAIN copies' = DOMAIN copies
        /\ copies'[c] = d /\ \A i \in DOMAIN copies \ {c} : copies'[i] = copies[i]
    BY <1>2, <1>6, <2>1, OneCopyChanges
  <2>4. c \in Nat /\ c # Nobody
    <3>1. c \in Nat
      BY <1>2 DEF TaskRecords
    <3> QED
      BY <3>1, HostAssumption DEF HostAssumption
  <2>5. /\ handles[e] = Nobody /\ handles' \in [All -> Nat \cup {Nobody}]
        /\ handles'[e] = c /\ \A f \in All \ {e} : handles'[f] = handles[f]
    BY <1>2, <1>3, <1>8, <2>1, <2>4 DEF HostInv, HostShape
  <2>6. InUse' = InUse \cup {c} /\ InUse \subseteq DOMAIN copies
    BY <1>2, <2>4, <2>5, UsedAre DEF InUse, Active
  <2>7. \A i \in InUse : copies'[i] = copies[i] /\ copies[i].ext # e
    BY <1>3, <2>3, <2>5, <2>6, UsedAre
  <2>8. /\ line' \in Seq(Users) /\ user' \in [Users -> TaskRecords]
        /\ HostLineInv' /\ HolderInv' /\ FailedInv'
    <3>1. user[t].mine \in Seq(Nat) /\ c \in Nat
      BY <1>2, <2>4 DEF TaskRecords
    <3>2. /\ \A j \in DOMAIN u.mine : u.mine[j] \in DOMAIN copies
          /\ \A j \in DOMAIN user[t].mine : \E k \in DOMAIN u.mine : u.mine[k] = user[t].mine[j]
      <4> DEFINE m == user[t].mine
      <4>1. m \in Seq(Nat) /\ u.mine = Append(m, c) /\ \A j \in DOMAIN m : m[j] \in DOMAIN copies
        BY <1>2, <2>2, <3>1
      <4> HIDE DEF m
      <4>2. /\ DOMAIN m = 1 .. Len(m) /\ Len(m) \in Nat /\ DOMAIN u.mine = 1 .. Len(m) + 1
            /\ (\A j \in 1 .. Len(m) : u.mine[j] = m[j]) /\ u.mine[Len(m) + 1] = c
        BY <3>1, <4>1, AppendProperties, LenProperties
      <4>3. \A j \in DOMAIN u.mine : u.mine[j] \in DOMAIN copies
        BY <1>2, <4>1, <4>2
      <4>4. \A j \in DOMAIN m : \E k \in DOMAIN u.mine : u.mine[k] = m[j]
        BY <4>2
      <4> QED
        BY <4>3, <4>4 DEF m
    <3>3. u.op # "none"
      BY <1>3, <2>2
    <3>4. \A i \in failed \cap InUse' : i \in InUse /\ copies'[i].ext = copies[i].ext /\ copies[i].ext # Todo(t)
      BY <1>3, <2>6, <2>7
    <3> QED
      BY <1>1, <1>2, <2>1, <2>2, <2>3, <3>2, <3>3, <3>4, Advances
  <2>9. UseInv'
    <3>1. \A f \in All \ {e} : handles[f] # Nobody =>
            /\ copies'[handles[f]] = copies[handles[f]]
            /\ copies[handles[f]].tools \subseteq user[t].taken
      BY <1>3, <1>8, <2>7, UsedAre DEF Reserved, Active
    <3>2. tools \cap user[t].taken = {} /\ Base \subseteq user[t].taken
      BY <1>3 DEF Reserved
    <3>3. \A f \in All : handles'[f] # Nobody => handles'[f] \in DOMAIN copies' /\ copies'[handles'[f]].ext = f
      BY <1>2, <1>6, <2>3, <2>5, <3>1, UsedAre
    <3>4. ASSUME NEW f \in All, NEW g \in All, f # g, handles'[f] # Nobody, handles'[g] # Nobody
          PROVE  copies'[handles'[f]].tools \cap copies'[handles'[g]].tools = {}
      <4>1. CASE f = e
        BY <4>1, <3>1, <3>2, <3>4, <1>6, <2>3, <2>5
      <4>2. CASE g = e
        BY <4>2, <3>1, <3>2, <3>4, <1>6, <2>3, <2>5
      <4>3. CASE f # e /\ g # e
        BY <4>3, <3>1, <3>4, <2>5 DEF HostInv, UseInv, Active
      <4> QED
        BY <4>1, <4>2, <4>3
    <3>5. \A i \in InUse' : copies'[i].tools \cap Base = {}
      BY <1>6, <2>3, <2>6, <2>7, <3>2 DEF HostInv, UseInv
    <3>6. \A i \in InUse' \ twice' : copies'[i].stage = "ready" /\ copies'[i].times = 0
      BY <1>1, <1>4, <1>6, <2>3, <2>6, <2>7
    <3> QED
      BY <3>3, <3>4, <3>5, <3>6 DEF UseInv, Active
  <2>10. CopyInv'
    <3>1. ASSUME NEW i \in DOMAIN copies, i # c
          PROVE  i \in InUse \cup dropped \cup twice \/ copies'[i].stage = "disposed"
      <4>1. \A s \in Users : user[s].copy # i
        BY <1>2, <3>1, UsedAre
      <4> QED
        BY <4>1, <3>1, <2>3 DEF HostInv, CopyInv
    <3>2. \A i \in DOMAIN copies' \ twice : copies'[i].times <= 1
      BY <1>6, <2>3 DEF HostInv, CopyInv
    <3> QED
      BY <1>1, <2>3, <2>6, <3>1, <3>2 DEF HostInv, CopyInv
  <2>11. HostShape'
    BY <1>1, <2>3, <2>5, <2>8 DEF HostInv, HostShape
  <2> QED
    BY <2>8, <2>9, <2>10, <2>11 DEF HostInv
<1>9. CASE user[t].op = "reload"
  <2> DEFINE o == handles[e]
             b == [copies[o] EXCEPT !.times = @ + 1]
             r == [user[t] EXCEPT !.pc = "exchanging"]
  <2>1. copies' = [[copies EXCEPT ![c] = d] EXCEPT ![o].times = @ + 1] /\ user' = [user EXCEPT ![t].pc = "exchanging"]
        /\ UNCHANGED <<handles, line>>
    BY <1>5, <1>7, <1>9
  <2>2. o \in InUse /\ o \in DOMAIN copies /\ o # c /\ copies[o] \in CopyRecords /\ copies[o].ext = e /\ o # Nobody
    BY <1>2, <1>3, <1>9, UsedAre
  <2>3. /\ b \in CopyRecords /\ b.tools = copies[o].tools /\ b.stage = copies[o].stage /\ b.ext = e
        /\ b.times = copies[o].times + 1
    BY <2>2 DEF CopyRecords
  <2>4. /\ copies' \in Seq(CopyRecords) /\ DOMAIN copies' = DOMAIN copies
        /\ copies'[c] = d /\ copies'[o] = b /\ \A i \in DOMAIN copies \ {c, o} : copies'[i] = copies[i]
    <3>1. Len(copies) \in Nat /\ DOMAIN copies = 1 .. Len(copies) /\ copies \in Seq(CopyRecords)
          /\ \A i \in DOMAIN copies : copies[i] \in CopyRecords
      BY UsedAre, LenProperties DEF HostInv, HostShape
    <3>2. copies' = [[copies EXCEPT ![c] = d] EXCEPT ![o] = b]
      BY <2>1, <2>2, <3>1
    <3> HIDE DEF b
    <3>3. copies' \in [1 .. Len(copies) -> CopyRecords]
      BY <1>6, <2>3, <3>1, <3>2
    <3>4. copies' \in Seq(CopyRecords)
      BY <3>1, <3>3, SeqDef
    <3> QED
      BY <1>2, <2>2, <3>1, <3>2, <3>4
  <2>5. r \in TaskRecords /\ r.pc = "exchanging" /\ r.copy = c /\ r.todo = user[t].todo /\ r.op = "reload"
        /\ r.mine = user[t].mine
    BY <1>2, <1>9 DEF TaskRecords, HostPlaces
  <2>6. user' = [user EXCEPT ![t] = r] /\ line' = line
    BY <2>1
  <2> HIDE DEF b, r
  <2>7. /\ user' \in [Users -> TaskRecords] /\ user'[t] = r
        /\ HostLineInv'
        /\ \A s \in Users \ {t} : user'[s] = user[s]
        /\ HolderKnows(t)' => HolderInv'
    <3>1. r.pc \notin {"idle", "wait"} /\ r.todo # <<>> /\ r.mine = user[t].mine /\ r.copy \in DOMAIN copies'
          /\ DOMAIN copies \subseteq DOMAIN copies'
      BY <1>2, <2>4, <2>5
    <3> QED
      BY <1>2, <2>5, <2>6, <3>1, HolderMoves
  <2>8. InUse' = InUse /\ InUse \subseteq DOMAIN copies
    BY <2>1, UsedAre DEF InUse, Active
  <2>9. \A i \in InUse : copies'[i].tools = copies[i].tools /\ copies'[i].stage = copies[i].stage
                          /\ copies'[i].ext = copies[i].ext /\ (i # o => copies'[i] = copies[i])
    BY <1>3, <2>2, <2>3, <2>4, <2>8
  <2>10. HolderKnows(t)'
    <3>1. PICK x : x = {e}
      OBVIOUS
    <3>2. Reserved(x)' = Reserved(x)
      BY <2>1, <2>9, UsedAre, SameNames
    <3>3. ({Todo(t)})' = x
      BY <2>5, <2>7, <3>1 DEF Todo
    <3>4. tools \cap Reserved(x) = {}
      BY <1>3, <1>9, <3>1
    <3>5. (copies[user[t].copy].tools \cap Reserved({Todo(t)}) = {})'
      <4>1. copies'[user'[t].copy].tools = tools
        BY <1>6, <2>4, <2>5, <2>7
      <4> QED
        BY <3>2, <3>3, <3>4, <4>1 DEF Reserved
    <3>6. (Todo(t))' = e
      BY <2>5, <2>7 DEF Todo
    <3>7. user'[t].pc = "exchanging" /\ user'[t].op = "reload" /\ user'[t].copy = c
      BY <2>5, <2>7
    <3>8. c \notin InUse' \cup failed' \cup twice'
      BY <1>1, <1>3, <2>8
    <3>9. (Active(Todo(t)))'
      BY <1>3, <1>9, <2>1, <3>6 DEF Active
    <3>10. (copies[user[t].copy])' = d
      BY <2>4, <3>7
    <3> QED
      BY <1>6, <3>5, <3>6, <3>7, <3>8, <3>9, <3>10 DEF HolderKnows
  <2>11. UseInv'
    <3>1. user'[t].pc = "exchanging" /\ handles'[Todo(t)'] = o
      BY <2>1, <2>5, <2>7 DEF Todo
    <3>2. \A i \in InUse' \ twice' :
            /\ copies'[i].stage = "ready"
            /\ copies'[i].times = 0 \/ i = o
      BY <1>1, <1>4, <2>8, <2>9
    <3>3. \A f \in All : handles[f] # Nobody =>
            handles[f] \in InUse /\ copies'[handles[f]].ext = f /\ copies'[handles[f]].tools = copies[handles[f]].tools
      BY <2>9, UsedAre
    <3>4. \A i \in InUse' : copies'[i].tools \cap Base = {}
      BY <2>8, <2>9 DEF HostInv, UseInv
    <3> QED
      BY <2>1, <2>4, <2>8, <3>1, <3>2, <3>3, <3>4, SMTT(30) DEF HostInv, UseInv, Active
  <2>12. CopyInv'
    <3>1. user'[t].copy = c
      BY <2>5, <2>7
    <3>2. ASSUME NEW i \in DOMAIN copies, i # c
          PROVE  i \in InUse \cup dropped \cup twice \/ copies'[i].stage = "disposed"
      <4>1. \A s \in Users : user[s].copy # i
        BY <1>2, <3>2, UsedAre
      <4> QED
        BY <4>1, <3>2, <2>2, <2>4 DEF HostInv, CopyInv
    <3>3. \A i \in DOMAIN copies' \ twice : copies'[i].times <= 1
      BY <1>4, <1>6, <2>2, <2>3, <2>4 DEF HostInv, CopyInv
    <3> QED
      BY <1>1, <2>4, <2>8, <3>1, <3>2, <3>3 DEF HostInv, CopyInv
  <2>13. FailedInv'
    <3>1. \A s \in Users : user'[s].op = user[s].op /\ user'[s].mine = user[s].mine /\ user'[s].todo = user[s].todo
      BY <1>9, <2>5, <2>7
    <3> QED
      BY <1>1, <2>8, <2>9, <3>1 DEF HostInv, FailedInv
  <2>14. HostShape'
    BY <1>1, <2>1, <2>4, <2>7 DEF HostInv, HostShape
  <2> QED
    BY <2>7, <2>10, <2>11, <2>12, <2>13, <2>14 DEF HostInv
<1> QED
  BY <1>3, <1>8, <1>9

LEMMA ExchangedKeeps == ASSUME HostInv, NEW t \in Users, Exchanged(t) PROVE HostInv'
<1> DEFINE c == user[t].copy
           e == Todo(t)
           o == handles[e]
           d == [copies[o] EXCEPT !.stage = "disposed"]
<1>1. /\ user[t].pc = "exchanging" /\ copies' = [copies EXCEPT ![o] = d] /\ handles' = [handles EXCEPT ![e] = c]
      /\ GoOn(t, Done(t))
      /\ UNCHANGED <<operations, trouble, dropped, twice, failed>>
  BY DEF Exchanged, UserAt, Disposed
<1>2. /\ line # <<>> /\ line[1] = t /\ c \in DOMAIN copies /\ user[t] \in TaskRecords
      /\ user[t].todo # <<>> /\ user[t].todo \in Seq(All) /\ e \in All /\ HolderKnows(t)
      /\ \A j \in DOMAIN user[t].mine : user[t].mine[j] \in DOMAIN copies
      /\ \A s \in Users \ {t} : user[s].pc \in {"idle", "wait"} /\ user[s].copy = 0
  BY <1>1, HolderIs
<1>3. /\ c \notin InUse \cup failed \cup twice /\ user[t].op = "reload" /\ o # Nobody
      /\ copies[c].stage = "ready" /\ copies[c].times = 0 /\ copies[c].ext = e
      /\ copies[c].tools \cap Reserved({e}) = {}
  BY <1>1, <1>2 DEF HolderKnows, Active
<1>4. \A i \in InUse \ (twice \cup {o}) : copies[i].stage = "ready" /\ copies[i].times = 0
  BY <1>1, <1>2 DEF HostInv, UseInv
<1>5. o \in InUse /\ o \in DOMAIN copies /\ o # c /\ copies[o] \in CopyRecords /\ copies[o].ext = e
  BY <1>2, <1>3, UsedAre
<1>6. d \in CopyRecords /\ d.times = copies[o].times /\ d.stage = "disposed"
  BY <1>5 DEF CopyRecords, HostStages
<1> HIDE DEF d
<1>7. /\ copies' \in Seq(CopyRecords) /\ DOMAIN copies' = DOMAIN copies
      /\ copies'[o] = d /\ \A i \in DOMAIN copies \ {o} : copies'[i] = copies[i]
  BY <1>1, <1>5, <1>6, OneCopyChanges
<1>8. c \in Nat /\ c # Nobody
  <2>1. c \in Nat
    BY <1>2 DEF TaskRecords
  <2> QED
    BY <2>1, HostAssumption DEF HostAssumption
<1>9. /\ handles' \in [All -> Nat \cup {Nobody}]
      /\ handles'[e] = c /\ \A f \in All \ {e} : handles'[f] = handles[f]
  BY <1>1, <1>2, <1>8 DEF HostInv, HostShape
<1>10. InUse' = (InUse \ {o}) \cup {c} /\ InUse \subseteq DOMAIN copies
  <2>1. InUse \subseteq DOMAIN copies
    BY UsedAre
  <2>2. ASSUME NEW i \in InUse, i # o PROVE i \in InUse'
    <3>1. copies[i].ext \in All /\ handles[copies[i].ext] = i /\ i # Nobody /\ copies[i].ext # e
      BY <2>2, UsedAre
    <3>2. handles'[copies[i].ext] = i
      BY <1>9, <3>1
    <3> QED
      BY <3>1, <3>2 DEF InUse, Active
  <2>3. c \in InUse'
    BY <1>2, <1>8, <1>9 DEF InUse, Active
  <2>4. ASSUME NEW f \in All, handles'[f] # Nobody PROVE handles'[f] \in (InUse \ {o}) \cup {c}
    <3>1. CASE f = e
      BY <3>1, <1>9
    <3>2. CASE f # e
      BY <3>2, <2>4, <1>5, <1>9, UsedAre
    <3> QED
      BY <3>1, <3>2
  <2>5. \A i \in InUse' : \E f \in All : handles'[f] # Nobody /\ i = handles'[f]
    BY DEF InUse, Active
  <2> QED
    BY <2>1, <2>2, <2>3, <2>4, <2>5
<1>11. \A i \in InUse \ {o} : copies'[i] = copies[i] /\ copies[i].ext # e
  BY <1>7, <1>10, UsedAre
<1>12. copies'[c] = copies[c]
  BY <1>2, <1>5, <1>7
<1>13. Done(t) \in TaskRecords /\ Done(t).op = user[t].op /\ Done(t).mine = user[t].mine
      /\ Done(t).todo = Tail(user[t].todo)
  <2>1. Tail(user[t].todo) \in Seq(All)
    BY <1>2, HeadTailProperties
  <2> QED
    BY <1>2, <2>1 DEF Done, TaskRecords
<1>14. /\ line' \in Seq(Users) /\ user' \in [Users -> TaskRecords]
      /\ HostLineInv' /\ HolderInv' /\ FailedInv'
  <2>1. \A i \in failed \cap InUse' : i \in InUse /\ copies'[i].ext = copies[i].ext /\ copies[i].ext # Todo(t)
    BY <1>3, <1>10, <1>11
  <2> QED
    BY <1>1, <1>2, <1>3, <1>7, <1>13, <2>1, Advances
<1>15. UseInv'
  <2>1. \A f \in All \ {e} : handles[f] # Nobody =>
          /\ handles[f] \in InUse \ {o}
          /\ copies'[handles[f]] = copies[handles[f]]
          /\ copies[handles[f]].tools \subseteq Reserved({e})
    BY <1>5, <1>11, UsedAre DEF Reserved, Active
  <2>2. Base \subseteq Reserved({e})
    BY DEF Reserved
  <2>3. \A f \in All : handles'[f] # Nobody => handles'[f] \in DOMAIN copies' /\ copies'[handles'[f]].ext = f
    BY <1>2, <1>3, <1>7, <1>9, <1>12, <2>1, UsedAre
  <2>4. ASSUME NEW f \in All, NEW g \in All, f # g, handles'[f] # Nobody, handles'[g] # Nobody
        PROVE  copies'[handles'[f]].tools \cap copies'[handles'[g]].tools = {}
    <3>1. CASE f = e
      BY <3>1, <1>3, <1>9, <1>12, <2>1, <2>4
    <3>2. CASE g = e
      BY <3>2, <1>3, <1>9, <1>12, <2>1, <2>4
    <3>3. CASE f # e /\ g # e
      BY <3>3, <1>9, <2>1, <2>4 DEF HostInv, UseInv, Active
    <3> QED
      BY <3>1, <3>2, <3>3
  <2>5. \A i \in InUse' : copies'[i].tools \cap Base = {}
    <3>1. copies[c].tools \cap Base = {}
      BY <1>3, <2>2
    <3>2. \A i \in InUse : copies[i].tools \cap Base = {}
      BY DEF HostInv, UseInv
    <3> QED
      BY <3>1, <3>2, <1>10, <1>11, <1>12
  <2>6. \A i \in InUse' \ twice' : copies'[i].stage = "ready" /\ copies'[i].times = 0
    BY <1>1, <1>3, <1>4, <1>10, <1>11, <1>12
  <2> QED
    BY <2>3, <2>4, <2>5, <2>6 DEF UseInv, Active
<1>16. CopyInv'
  <2>1. ASSUME NEW i \in DOMAIN copies
        PROVE  i \in (InUse \ {o}) \cup {c} \cup dropped \cup twice \/ copies'[i].stage = "disposed"
    <3>1. CASE i = c \/ i = o
      BY <3>1, <1>6, <1>7
    <3>2. CASE i # c /\ i # o
      <4>1. \A s \in Users : user[s].copy # i
        BY <1>2, <3>2, UsedAre
      <4> QED
        BY <4>1, <3>2, <1>7 DEF HostInv, CopyInv
    <3> QED
      BY <3>1, <3>2
  <2>2. \A i \in DOMAIN copies' \ twice : copies'[i].times <= 1
    BY <1>6, <1>7 DEF HostInv, CopyInv
  <2> QED
    BY <1>1, <1>7, <1>10, <2>1, <2>2 DEF HostInv, CopyInv
<1>17. HostShape'
  BY <1>1, <1>7, <1>9, <1>14 DEF HostInv, HostShape
<1> QED
  BY <1>14, <1>15, <1>16, <1>17 DEF HostInv

LEMMA DeactivateKeeps == ASSUME HostInv, NEW t \in Users, Deactivate(t) PROVE HostInv'
<1> DEFINE e == Todo(t)
           c == handles[e]
<1>1. /\ line # <<>> /\ line[1] = t /\ user[t].pc = "wait" /\ user[t].op \in {"deactivate", "undo"}
      /\ UNCHANGED <<operations, trouble, dropped, twice, failed>>
  <2>1. line \in Seq(Users)
    BY DEF HostInv, HostShape
  <2> QED
    BY <2>1 DEF Deactivate, Gets, UserAt
<1>2. /\ user[t] \in TaskRecords /\ user[t].todo # <<>> /\ user[t].todo \in Seq(All) /\ e \in All
      /\ \A j \in DOMAIN user[t].mine : user[t].mine[j] \in DOMAIN copies
      /\ \A s \in Users \ {t} : user[s].pc \in {"idle", "wait"} /\ user[s].copy = 0
      /\ user[t].copy = 0
  <2>1. user[t] \in TaskRecords /\ user[t].todo \in Seq(All)
    BY DEF HostInv, HostShape, TaskRecords
  <2>2. user[t].todo # <<>> /\ user[t].copy = 0 /\ \A j \in DOMAIN user[t].mine : user[t].mine[j] \in DOMAIN copies
    BY <1>1 DEF HostInv, HostLineInv
  <2>3. e \in All
    BY <2>1, <2>2 DEF Todo
  <2> QED
    BY <1>1, <2>1, <2>2, <2>3, OthersWait DEF HostInv
<1>3. \A i \in InUse \ twice : copies[i].stage = "ready" /\ copies[i].times = 0
  BY <1>1, <1>2 DEF HostInv, UseInv
<1>4. CASE c = Nobody
  <2>1. GoOn(t, Done(t)) /\ UNCHANGED <<handles, copies>>
    BY <1>4 DEF Deactivate, Active
  <2>2. Done(t) \in TaskRecords /\ Done(t).op = user[t].op /\ Done(t).mine = user[t].mine
        /\ Done(t).todo = Tail(user[t].todo)
    <3>1. Tail(user[t].todo) \in Seq(All)
      BY <1>2, HeadTailProperties
    <3> QED
      BY <1>2, <3>1 DEF Done, TaskRecords
  <2>3. InUse' = InUse
    BY <2>1 DEF InUse, Active
  <2>4. /\ line' \in Seq(Users) /\ user' \in [Users -> TaskRecords]
        /\ HostLineInv' /\ HolderInv' /\ FailedInv'
        /\ \A s \in Users : user'[s].pc \in {"idle", "wait"} /\ user'[s].copy = 0
    <3>1. \A i \in failed \cap InUse' : i \in InUse /\ copies'[i].ext = copies[i].ext /\ copies[i].ext # Todo(t)
      BY <1>4, <2>1, <2>3, UsedAre
    <3> QED
      BY <1>1, <1>2, <2>1, <2>2, <3>1, Advances
  <2>5. UseInv'
    BY <1>1, <1>3, <2>1, <2>3 DEF HostInv, UseInv, Active
  <2>6. CopyInv'
    <3>1. ASSUME NEW i \in DOMAIN copies PROVE i \in InUse \cup dropped \cup twice \/ copies[i].stage = "disposed"
      BY <1>2, UsedAre DEF HostInv, CopyInv
    <3> QED
      BY <1>1, <2>1, <2>3, <3>1 DEF HostInv, CopyInv
  <2>7. HostShape'
    BY <1>1, <2>1, <2>4 DEF HostInv, HostShape
  <2> QED
    BY <2>4, <2>5, <2>6, <2>7 DEF HostInv
<1>5. CASE c # Nobody
  <2> DEFINE d == [copies[c] EXCEPT !.times = @ + 1]
             r == [user[t] EXCEPT !.pc = "disposing", !.copy = c]
  <2>1. /\ handles' = [handles EXCEPT ![e] = Nobody] /\ copies' = [copies EXCEPT ![c].times = @ + 1]
        /\ user' = [user EXCEPT ![t].pc = "disposing", ![t].copy = c] /\ line' = line
    BY <1>5 DEF Deactivate, Active
  <2>2. c \in InUse /\ c \in DOMAIN copies /\ copies[c] \in CopyRecords /\ copies[c].ext = e /\ c \in Nat
    <3>1. c \in InUse /\ c \in DOMAIN copies /\ copies[c] \in CopyRecords /\ copies[c].ext = e
      BY <1>2, <1>5, UsedAre
    <3>2. c \in Nat
      BY <1>2, <1>5 DEF HostInv, HostShape
    <3> QED
      BY <3>1, <3>2
  <2>3. copies' = [copies EXCEPT ![c] = d] /\ user' = [user EXCEPT ![t] = r]
    <3>1. user \in [Users -> TaskRecords]
      BY DEF HostInv, HostShape
    <3> QED
      BY <2>1, <2>2, <3>1 DEF TaskRecords
  <2>4. d \in CopyRecords /\ d.tools = copies[c].tools /\ d.ext = e /\ d.times = copies[c].times + 1
        /\ d.stage = copies[c].stage
    BY <2>2 DEF CopyRecords
  <2>5. r \in TaskRecords /\ r.pc = "disposing" /\ r.copy = c /\ r.todo = user[t].todo /\ r.op = user[t].op
        /\ r.mine = user[t].mine
    BY <1>2, <2>2 DEF TaskRecords, HostPlaces
  <2> HIDE DEF d, r
  <2>6. /\ copies' \in Seq(CopyRecords) /\ DOMAIN copies' = DOMAIN copies
        /\ copies'[c] = d /\ \A i \in DOMAIN copies \ {c} : copies'[i] = copies[i]
    BY <2>2, <2>3, <2>4, OneCopyChanges
  <2>7. /\ user' \in [Users -> TaskRecords] /\ user'[t] = r
        /\ HostLineInv'
        /\ \A s \in Users \ {t} : user'[s] = user[s]
        /\ HolderKnows(t)' => HolderInv'
    <3>1. r.pc \notin {"idle", "wait"} /\ r.todo # <<>> /\ r.mine = user[t].mine /\ r.copy \in DOMAIN copies'
          /\ DOMAIN copies \subseteq DOMAIN copies'
      BY <1>2, <2>2, <2>5, <2>6
    <3>2. line' = line /\ user' = [user EXCEPT ![t] = r]
      BY <2>1, <2>3
    <3> QED
      BY <1>1, <2>5, <3>1, <3>2, HolderMoves
  <2>8. /\ handles' \in [All -> Nat \cup {Nobody}]
        /\ handles'[e] = Nobody /\ \A f \in All \ {e} : handles'[f] = handles[f]
    BY <1>2, <2>1 DEF HostInv, HostShape
  <2>9. InUse' = InUse \ {c} /\ InUse \subseteq DOMAIN copies
    <3>1. ASSUME NEW i \in InUse, i # c PROVE i \in InUse'
      <4>1. copies[i].ext \in All /\ handles[copies[i].ext] = i /\ i # Nobody /\ copies[i].ext # e
        BY <3>1, UsedAre
      <4>2. handles'[copies[i].ext] = i
        BY <2>8, <4>1
      <4> QED
        BY <4>1, <4>2 DEF InUse, Active
    <3>2. ASSUME NEW f \in All, handles'[f] # Nobody PROVE handles'[f] \in InUse \ {c}
      BY <2>2, <2>8, <3>2, UsedAre
    <3>3. \A i \in InUse' : \E f \in All : handles'[f] # Nobody /\ i = handles'[f]
      BY DEF InUse, Active
    <3> QED
      BY <3>1, <3>2, <3>3, UsedAre
  <2>10. \A i \in InUse \ {c} : copies'[i] = copies[i]
    BY <2>6, <2>9
  <2>11. HolderKnows(t)'
    <3>1. user'[t].pc = "disposing" /\ user'[t].op \in {"deactivate", "undo"} /\ user'[t].copy = c
      BY <1>1, <2>5, <2>7
    <3>2. (Todo(t))' = e
      BY <2>5, <2>7 DEF Todo
    <3>3. (~Active(Todo(t)))'
      BY <2>8, <3>2 DEF Active
    <3> QED
      BY <2>9, <3>1, <3>3 DEF HolderKnows
  <2>12. UseInv'
    <3>1. \A f \in All : handles'[f] # Nobody =>
            /\ f # e /\ handles'[f] = handles[f]
            /\ handles[f] \in InUse \ {c} /\ copies'[handles[f]] = copies[handles[f]]
      BY <2>2, <2>8, <2>10, UsedAre
    <3>2. \A i \in InUse' \ twice' : copies'[i].stage = "ready" /\ copies'[i].times = 0
      BY <1>1, <1>3, <2>9, <2>10
    <3>3. \A i \in InUse' : copies'[i].tools \cap Base = {}
      BY <2>9, <2>10 DEF HostInv, UseInv
    <3> QED
      BY <2>6, <3>1, <3>2, <3>3, UsedAre DEF HostInv, UseInv, Active
  <2>13. CopyInv'
    <3>1. user'[t].copy = c
      BY <2>5, <2>7
    <3>2. ASSUME NEW i \in DOMAIN copies, i # c
          PROVE  i \in InUse \cup dropped \cup twice \/ copies'[i].stage = "disposed"
      <4>1. \A s \in Users : user[s].copy # i
        BY <1>2, <3>2, UsedAre
      <4> QED
        BY <4>1, <3>2, <2>6 DEF HostInv, CopyInv
    <3>3. \A i \in DOMAIN copies' \ twice : copies'[i].times <= 1
      BY <1>3, <2>2, <2>4, <2>6 DEF HostInv, CopyInv
    <3> QED
      BY <1>1, <2>6, <2>9, <3>1, <3>2, <3>3 DEF HostInv, CopyInv
  <2>14. FailedInv'
    <3>1. \A s \in Users : user'[s].op = user[s].op /\ user'[s].mine = user[s].mine /\ user'[s].todo = user[s].todo
      BY <2>5, <2>7
    <3> QED
      BY <1>1, <2>9, <2>10, <3>1 DEF HostInv, FailedInv
  <2>15. HostShape'
    BY <1>1, <2>1, <2>6, <2>7, <2>8 DEF HostInv, HostShape
  <2> QED
    BY <2>7, <2>11, <2>12, <2>13, <2>14, <2>15 DEF HostInv
<1> QED
  BY <1>4, <1>5

(* A cancelled task leaves the line, whether it waits or holds the lock. *)
LEMMA LeavesLine ==
    ASSUME HostInv, NEW t \in Users, user[t].pc # "idle",
           user' = [user EXCEPT ![t] = NoCall], line' = Without(line, t), DOMAIN copies' = DOMAIN copies
    PROVE  /\ line' \in Seq(Users) /\ user' \in [Users -> TaskRecords]
           /\ user'[t] = NoCall /\ \A s \in Users \ {t} : user'[s] = user[s]
           /\ HostLineInv'
<1>1. /\ user \in [Users -> TaskRecords] /\ line \in Seq(Users) /\ HostLineInv
      /\ \A i, j \in DOMAIN line : line[i] = line[j] => i = j
  BY DEF HostInv, HostShape, HostLineInv
<1>2. PICK m \in DOMAIN line : line[m] = t
  BY <1>1 DEF HostLineInv, InHostLine
<1>3. NoCall \in TaskRecords /\ NoCall.pc = "idle" /\ NoCall.op = "none" /\ NoCall.copy = 0 /\ NoCall.mine = <<>>
  BY DEF NoCall, TaskRecords, HostPlaces
<1>4. user' \in [Users -> TaskRecords] /\ user'[t] = NoCall /\ \A s \in Users \ {t} : user'[s] = user[s]
  BY <1>1, <1>3
<1> DEFINE w == Without(line, line[m])
<1>5. w \in Seq(Users)
  BY <1>1, WithoutShape
<1>6. /\ \A i \in DOMAIN w : w[i] # line[m] /\ \E j \in DOMAIN line : w[i] = line[j]
      /\ \A j \in DOMAIN line : line[j] # line[m] => \E i \in DOMAIN w : w[i] = line[j]
      /\ \A i, j \in DOMAIN w : w[i] = w[j] => i = j
      /\ m # 1 => 1 \in DOMAIN w /\ w[1] = line[1]
  BY <1>1, WithoutMembers
<1>7. line' = w
  BY <1>2
<1> HIDE DEF w
<1>8. ASSUME NEW s \in Users
      PROVE  /\ (\E i \in DOMAIN w : w[i] = s) <=> user'[s].pc # "idle"
             /\ user'[s].pc = "idle" => user'[s].op = "none"
             /\ user'[s].pc # "idle" => user'[s].todo # <<>>
             /\ user'[s].pc \in {"idle", "wait"} => user'[s].copy = 0
             /\ user'[s].pc \notin {"idle", "wait"} => w[1] = s /\ user'[s].copy \in DOMAIN copies
             /\ \A j \in DOMAIN user'[s].mine : user'[s].mine[j] \in DOMAIN copies
  <2>1. CASE s = t
    BY <2>1, <1>2, <1>3, <1>4, <1>6
  <2>2. CASE s # t
    <3>1. user'[s] = user[s]
      BY <2>2, <1>4
    <3>2. (\E i \in DOMAIN w : w[i] = s) <=> \E i \in DOMAIN line : line[i] = s
      BY <2>2, <1>2, <1>6
    <3>3. user[s].pc \notin {"idle", "wait"} => w[1] = s
      BY <2>2, <1>1, <1>2, <1>6 DEF HostLineInv
    <3> QED
      BY <3>1, <3>2, <3>3, <1>1 DEF HostLineInv, InHostLine
  <2> QED
    BY <2>1, <2>2
<1>9. HostLineInv'
  BY <1>6, <1>7, <1>8 DEF HostLineInv, InHostLine
<1> QED
  BY <1>4, <1>5, <1>7, <1>9

LEMMA CancelUserKeeps == ASSUME HostInv, NEW t \in Users, CancelUser(t) PROVE HostInv'
<1> DEFINE u == user[t]
           half == IF u.pc = "exchanging" THEN handles[Todo(t)] ELSE u.copy
           d == [copies[half] EXCEPT !.stage = "half"]
<1>1. /\ u.pc # "idle" /\ user' = [user EXCEPT ![t] = NoCall] /\ line' = Without(line, t) /\ trouble' \in Nat
      /\ copies' = IF u.pc \in {"cleaning", "disposing", "exchanging"} THEN [copies EXCEPT ![half].stage = "half"]
                   ELSE copies
      /\ dropped' = (IF u.copy = 0 THEN dropped ELSE dropped \cup {u.copy})
      /\ twice' = IF u.pc = "exchanging" THEN twice \cup {half} ELSE twice
      /\ UNCHANGED <<handles, operations>>
  BY DEF CancelUser, Trouble, HostInv, HostShape
<1>2. failed' = failed \ ToSet(u.mine)
  BY DEF CancelUser
<1>3. u.pc = "exchanging" => half \in InUse /\ copies[half].ext = Todo(t)
  <2> SUFFICES ASSUME u.pc = "exchanging" PROVE half \in InUse /\ copies[half].ext = Todo(t)
    OBVIOUS
  <2>1. Todo(t) \in All /\ HolderKnows(t)
    BY HolderIs
  <2>2. handles[Todo(t)] # Nobody
    BY <2>1 DEF HolderKnows, Active
  <2> QED
    BY <2>1, <2>2, UsedAre
<1>4. u.pc \in {"cleaning", "disposing"} => half \notin InUse
  BY HolderIs DEF HolderKnows
<1>5. /\ copies' \in Seq(CopyRecords) /\ DOMAIN copies' = DOMAIN copies
      /\ \A i \in DOMAIN copies :
            /\ copies'[i].ext = copies[i].ext /\ copies'[i].tools = copies[i].tools /\ copies'[i].times = copies[i].times
            /\ copies'[i] = copies[i]
               \/ (u.pc \in {"cleaning", "disposing"} /\ i = u.copy)
               \/ (u.pc = "exchanging" /\ i = half)
  <2>1. CASE u.pc \in {"cleaning", "disposing", "exchanging"}
    <3>1. half \in DOMAIN copies
      BY <2>1, <1>3, HolderIs, UsedAre
    <3>2. copies' = [copies EXCEPT ![half] = d]
      BY <2>1, <1>1
    <3>3. d \in CopyRecords /\ d.ext = copies[half].ext /\ d.tools = copies[half].tools /\ d.times = copies[half].times
      BY <3>1, UsedAre DEF CopyRecords, HostStages
    <3> HIDE DEF d
    <3>4. /\ copies' \in Seq(CopyRecords) /\ DOMAIN copies' = DOMAIN copies
          /\ copies'[half] = d /\ \A i \in DOMAIN copies \ {half} : copies'[i] = copies[i]
      BY <3>1, <3>2, <3>3, OneCopyChanges
    <3>5. half = u.copy \/ u.pc = "exchanging"
      OBVIOUS
    <3> HIDE DEF half
    <3> QED
      BY <2>1, <3>3, <3>4, <3>5
  <2>2. CASE u.pc \notin {"cleaning", "disposing", "exchanging"}
    BY <2>2, <1>1 DEF HostInv, HostShape
  <2> QED
    BY <2>1, <2>2
<1>6. /\ line' \in Seq(Users) /\ user' \in [Users -> TaskRecords]
      /\ user'[t] = NoCall /\ \A s \in Users \ {t} : user'[s] = user[s]
      /\ HostLineInv'
  BY <1>1, <1>5, LeavesLine
<1>7. InUse' = InUse /\ InUse \subseteq DOMAIN copies /\ failed' \subseteq failed
  BY <1>1, <1>2, UsedAre DEF InUse, Active
<1>8. NoCall.pc = "idle" /\ NoCall.op = "none" /\ NoCall.copy = 0
  BY DEF NoCall
<1>9. ASSUME NEW s \in Users \ {t}, user[s].pc \notin {"idle", "wait"}
      PROVE  u.pc = "wait" /\ u.copy = 0 /\ copies' = copies /\ UNCHANGED <<twice, dropped>>
  <2>1. u.pc \in {"idle", "wait"} /\ u.copy = 0
    BY <1>9, HolderIs
  <2> QED
    BY <2>1, <1>1
<1>10. HolderInv'
  <2> SUFFICES ASSUME NEW s \in Users PROVE HolderKnows(s)'
    BY DEF HolderInv
  <2>1. CASE s = t \/ user[s].pc \in {"idle", "wait"}
    <3>1. user'[s].pc \in {"idle", "wait"}
      BY <2>1, <1>6, <1>8
    <3> QED
      BY <3>1 DEF HolderKnows
  <2>2. CASE s # t /\ user[s].pc \notin {"idle", "wait"}
    BY <2>2, <1>1, <1>6, <1>7, <1>9, KnowsStill DEF HostInv, HolderInv
  <2> QED
    BY <2>1, <2>2
<1>11. UseInv'
  <2>1. ASSUME NEW i \in InUse \ twice'
        PROVE  /\ copies'[i].stage = "ready"
               /\ copies'[i].times = 0 \/ \E s \in Users : user'[s].pc = "exchanging" /\ handles'[Todo(s)'] = i
    <3>1. i \in InUse \ twice
      BY <1>1
    <3>2. copies'[i] = copies[i]
      BY <1>1, <1>4, <1>5, <1>7
    <3>3. copies[i].stage = "ready"
      BY <3>1 DEF HostInv, UseInv
    <3>4. ASSUME copies[i].times # 0
          PROVE  \E s \in Users : user'[s].pc = "exchanging" /\ handles'[Todo(s)'] = i
      <4>1. PICK s \in Users : user[s].pc = "exchanging" /\ handles[Todo(s)] = i
        BY <3>1, <3>4 DEF HostInv, UseInv
      <4>2. s # t
        BY <4>1, <1>1
      <4>3. user'[s] = user[s]
        BY <4>2, <1>6
      <4> QED
        BY <4>1, <4>3, <1>1 DEF Todo
    <3> QED
      BY <3>2, <3>3, <3>4
  <2>2. \A f \in All : handles[f] # Nobody =>
          handles[f] \in DOMAIN copies' /\ copies'[handles[f]].ext = f
          /\ copies'[handles[f]].tools = copies[handles[f]].tools
    BY <1>5, UsedAre
  <2>3. \A i \in InUse : copies'[i].tools \cap Base = {}
    BY <1>5, <1>7 DEF HostInv, UseInv
  <2> QED
    BY <1>1, <1>7, <2>1, <2>2, <2>3 DEF HostInv, UseInv, Active
<1>12. CopyInv'
  <2>1. ASSUME NEW i \in DOMAIN copies
        PROVE  \/ i \in InUse \cup dropped' \cup twice' \/ copies'[i].stage = "disposed"
               \/ \E s \in Users : user'[s].copy = i
    <3>1. CASE i = u.copy \/ copies'[i] # copies[i]
      BY <3>1, <1>1, <1>5, UsedAre, SMTT(30)
    <3>2. CASE i # u.copy /\ copies'[i] = copies[i]
      <4>1. \/ i \in InUse \cup dropped \cup twice \/ copies[i].stage = "disposed"
            \/ \E s \in Users : user[s].copy = i
        BY DEF HostInv, CopyInv
      <4>2. dropped \subseteq dropped' /\ twice \subseteq twice'
        BY <1>1
      <4>3. ASSUME NEW s \in Users, user[s].copy = i PROVE user'[s].copy = i
        BY <3>2, <4>3, <1>6
      <4> QED
        BY <3>2, <4>1, <4>2, <4>3
    <3> QED
      BY <3>1, <3>2
  <2>2. twice \subseteq twice' /\ twice' \subseteq DOMAIN copies
    BY <1>1, <1>3, <1>7 DEF HostInv, CopyInv
  <2> QED
    BY <1>5, <1>7, <2>1, <2>2 DEF HostInv, CopyInv
<1>13. FailedInv'
  <2> SUFFICES ASSUME NEW i \in failed' \cap InUse
               PROVE  \E s \in Users :
                        /\ user'[s].op = "undo"
                        /\ \E j \in DOMAIN user'[s].mine : user'[s].mine[j] = i
                        /\ \E j \in DOMAIN user'[s].todo : user'[s].todo[j] = copies'[i].ext
    BY <1>7 DEF FailedInv
  <2>1. PICK s \in Users :
          /\ user[s].op = "undo"
          /\ \E j \in DOMAIN user[s].mine : user[s].mine[j] = i
          /\ \E j \in DOMAIN user[s].todo : user[s].todo[j] = copies[i].ext
    BY <1>7 DEF HostInv, FailedInv
  <2>2. s # t
    BY <2>1, <1>2 DEF ToSet
  <2>3. user'[s] = user[s] /\ copies'[i].ext = copies[i].ext
    BY <2>2, <1>5, <1>6, <1>7
  <2> QED
    BY <2>1, <2>3
<1>14. HostShape'
  BY <1>1, <1>5, <1>6 DEF HostInv, HostShape
<1> QED
  BY <1>6, <1>10, <1>11, <1>12, <1>13, <1>14 DEF HostInv

LEMMA HostStep == ASSUME HostAssumption, HostInv, [HostNext]_hostVars PROVE HostInv'
<1>1. CASE UNCHANGED hostVars
  <2>1. UNCHANGED <<handles, copies, line, user, operations, trouble, dropped, twice, failed>>
    BY <1>1 DEF hostVars
  <2>2. HostShape' /\ HostLineInv'
    BY <2>1 DEF HostInv, HostShape, HostLineInv, InHostLine
  <2>3. HolderInv'
    BY <2>1, KnowsStill DEF HostInv, HolderInv
  <2>4. UseInv' /\ CopyInv' /\ FailedInv'
    BY <2>1 DEF HostInv, UseInv, CopyInv, FailedInv, InUse, Active, Todo
  <2> QED
    BY <2>2, <2>3, <2>4 DEF HostInv
<1>2. ASSUME NEW t \in Users,
             \/ Call(t) \/ Refused(t) \/ Stage(t) \/ Staged(t) \/ Raised(t) \/ Cleaned(t)
             \/ Exchanged(t) \/ Deactivate(t) \/ Deactivated(t) \/ CancelUser(t)
      PROVE  HostInv'
  BY <1>2, CallKeeps, RefusedKeeps, StageKeeps, StagedKeeps, RaisedKeeps, CleanedKeeps, ExchangedKeeps,
     DeactivateKeeps, DeactivatedKeeps, CancelUserKeeps
<1> QED
  BY <1>1, <1>2 DEF HostNext

(* The tools of the extensions in use never clash, with each other's or with the program's,
   and none is half disposed of; when nobody uses the host every other copy is disposed of,
   once; an activation that failed as a whole leaves nothing in use: for any extensions, tools
   and tasks, with errors, reloads and cancellations in any order (extensions/host.py). *)
THEOREM ContributionsHold == HostSpec => []ContributionsSound
<1>1. HostInit => HostInv
  BY HostStarts, HostAssumption
<1>2. HostInv /\ [HostNext]_hostVars => HostInv'
  BY HostStep, HostAssumption
<1>3. HostInv => ContributionsSound
  <2> SUFFICES ASSUME HostInv PROVE ContributionsSound
    OBVIOUS
  <2>1. ASSUME line = <<>>, NEW i \in DOMAIN copies
        PROVE  i \in InUse \cup dropped \cup twice \/ copies[i].stage = "disposed"
    <3>1. \A t \in Users : user[t].copy = 0
      BY <2>1 DEF HostInv, HostLineInv, InHostLine
    <3> QED
      BY <3>1, UsedAre DEF HostInv, CopyInv
  <2>2. (\A t \in Users : user[t].op # "undo") => failed \cap InUse = {}
    BY DEF HostInv, FailedInv
  <2> QED
    BY <2>1, <2>2 DEF HostInv, UseInv, CopyInv, ContributionsSound
<1> QED
  BY <1>1, <1>2, <1>3, PTL DEF HostSpec
=============================================================================
