---------------------------- MODULE SessionsProofs ----------------------------
(***************************************************************************)
(* Theorems about a session on disk and in memory: SessionLog, for any     *)
(* number of processes and any length of the file, SessionCompaction, for  *)
(* any tasks, sizes and settings, SessionFiles, for any processes and      *)
(* names of files, and SessionMetadata, for any models, levels and names.  *)
(***************************************************************************)
EXTENDS SessionLog, SessionCompaction, SessionFiles, SessionMetadata,
        SequenceTheorems, FiniteSetTheorems, WellFoundedInduction, TLAPS

-----------------------------------------------------------------------------
(* SessionLog: what the lines and the trees read from them have in common. *)

Recorded ==
    [type : {"cursor"}, leaf : Nat]
        \cup [type : {"entry"}, kind : {"call", "result"}, parent : Nat, of : Nat]

FileOK == lines \in Seq(Recorded \cup {Torn}) /\ ended \in BOOLEAN /\ FileLoads

(* The inductive invariant: besides the file, the leaves that become parents and cursors. *)
LogInv == FileOK /\ leaf \in [Procs -> Nat] /\ target \in [Procs -> Nat]

(* What RecordsStay says of one step. *)
Extended == \A i \in DOMAIN Records : i \in DOMAIN Records' /\ Records'[i] = Records[i]

LEMMA TornIsNoRecord == Torn \notin Recorded
  BY DEF Torn, Recorded

LEMMA RecordTypes ==
  ASSUME NEW e \in Nat, NEW c \in Nat, NEW k \in {"call", "result"}
  PROVE  Cursor(e) \in Recorded /\ Entry(k, e, c) \in Recorded
  BY DEF Recorded, Cursor, Entry

(* Facts about Append and Front in the form in which the steps use them. *)
LEMMA AppendFacts ==
  ASSUME NEW S, NEW s \in Seq(S), NEW x \in S
  PROVE  /\ Append(s, x) \in Seq(S)
         /\ Append(s, x) # <<>>
         /\ Len(Append(s, x)) = Len(s) + 1
         /\ Append(s, x)[Len(s) + 1] = x
         /\ Front(Append(s, x)) = s
         /\ DOMAIN Append(s, x) = DOMAIN s \cup {Len(s) + 1}
         /\ \A i \in DOMAIN s : Append(s, x)[i] = s[i]
<1>1. Append(s, x) \in Seq(S) /\ Len(Append(s, x)) = Len(s) + 1 /\ Len(s) \in Nat
  BY AppendProperties, LenProperties
<1>2. DOMAIN s = 1 .. Len(s) /\ DOMAIN Append(s, x) = 1 .. Len(s) + 1
  BY <1>1, LenProperties
<1>3. Append(s, x)[Len(s) + 1] = x /\ \A i \in 1 .. Len(s) : Append(s, x)[i] = s[i]
  BY AppendProperties
<1>4. Front(Append(s, x)) = s
  BY <1>1, <1>2, <1>3 DEF Front
<1>5. QED
  BY <1>1, <1>2, <1>3, <1>4

LEMMA FrontFacts ==
  ASSUME NEW S, NEW s \in Seq(S), s # <<>>
  PROVE  /\ Front(s) \in Seq(S)
         /\ DOMAIN Front(s) \subseteq DOMAIN s
         /\ \A i \in DOMAIN Front(s) : Front(s)[i] = s[i]
  BY LenProperties, EmptySeq DEF Front

(* A completed write adds one record to what a load returns, and that record has been
   validated together with the others. *)
LEMMA WriteKeepsFile ==
  ASSUME FileOK, NEW rec \in Recorded, Write(rec)
  PROVE  FileOK' /\ Extended
<1> DEFINE S == Recorded \cup {Torn}
<1>1. ~ IgnoredTail /\ Records = lines /\ ~ Corrupt /\ Valid(Append(lines, rec))
  BY DEF Write, Refused, Records
<1>2. lines' = Append(lines, rec) /\ ended' = TRUE
  BY DEF Write
<1>3. lines \in Seq(S) /\ rec \in S
  BY DEF FileOK
<1>4. lines' \in Seq(S) /\ Records' = lines'
  BY <1>2, <1>3, AppendFacts DEF Records, IgnoredTail
<1>5. Extended
  BY <1>1, <1>2, <1>3, <1>4, AppendFacts DEF Extended
<1>6. ~ Corrupt'
  <2>1. rec # Torn
    BY TornIsNoRecord
  <2>2. \A i \in DOMAIN lines : lines[i] # Torn
    BY <1>1 DEF Corrupt
  <2>3. \A i \in DOMAIN lines' : lines'[i] # Torn
    BY <1>2, <1>3, <2>1, <2>2, AppendFacts
  <2>4. QED
    BY <1>4, <2>3 DEF Corrupt
<1>7. Valid(Records')
  BY <1>1, <1>2, <1>4
<1>8. QED
  BY <1>2, <1>4, <1>5, <1>6, <1>7 DEF FileOK, FileLoads

(* Where a write stops early, a load returns what it did or one complete record more. *)
LEMMA StoppedWriteKeepsFile ==
  ASSUME FileOK, NEW rec \in Recorded, WriteStops(rec)
  PROVE  FileOK' /\ Extended
<1> DEFINE S == Recorded \cup {Torn}
<1>1. ~ IgnoredTail /\ Records = lines /\ ~ Corrupt /\ Valid(lines) /\ Valid(Append(lines, rec))
  BY DEF WriteStops, Refused, Records, FileOK, FileLoads
<1>2. lines \in Seq(S) /\ rec \in S /\ Torn \in S
  BY DEF FileOK
<1>3. rec # Torn /\ \A i \in DOMAIN lines : lines[i] # Torn
  BY <1>1, TornIsNoRecord DEF Corrupt
<1>4. CASE lines' = lines /\ ended' = TRUE
  <2>1. Records' = lines'
    BY <1>4 DEF Records, IgnoredTail
  <2>2. ~ Corrupt' /\ Extended /\ Valid(Records')
    BY <1>1, <1>3, <1>4, <2>1 DEF Corrupt, Extended
  <2>3. QED
    BY <1>2, <1>4, <2>2 DEF FileOK, FileLoads
<1>5. CASE lines' = Append(lines, Torn) /\ ended' = FALSE
  <2>1. lines' \in Seq(S) /\ lines' # <<>> /\ lines'[Len(lines')] = Torn /\ Front(lines') = lines
    BY <1>2, <1>5, AppendFacts
  <2>2. Records' = lines
    BY <1>5, <2>1 DEF Records, IgnoredTail
  <2>3. ~ Corrupt' /\ Extended /\ Valid(Records')
    BY <1>1, <1>3, <2>2 DEF Corrupt, Extended
  <2>4. QED
    BY <1>5, <2>1, <2>3 DEF FileOK, FileLoads
<1>6. CASE lines' = Append(lines, rec) /\ ended' = FALSE
  <2>1. lines' \in Seq(S) /\ lines'[Len(lines')] = rec
    BY <1>2, <1>6, AppendFacts
  <2>2. Records' = lines'
    BY <1>3, <2>1 DEF Records, IgnoredTail
  <2>3. \A i \in DOMAIN lines' : lines'[i] # Torn
    BY <1>2, <1>3, <1>6, AppendFacts
  <2>4. Extended
    BY <1>1, <1>2, <1>6, <2>2, AppendFacts DEF Extended
  <2>5. ~ Corrupt' /\ Valid(Records')
    BY <1>1, <1>6, <2>2, <2>3 DEF Corrupt
  <2>6. QED
    BY <1>6, <2>1, <2>4, <2>5 DEF FileOK, FileLoads
<1>7. QED
  BY <1>4, <1>5, <1>6 DEF WriteStops

(* A repair discards only what no load returned. *)
LEMMA RepairKeepsFile ==
  ASSUME FileOK, NEW p \in Procs, RepairTail(p)
  PROVE  FileOK' /\ Extended
<1>1. lines' = Front(lines) /\ ended' = TRUE /\ Records = Front(lines) /\ lines # <<>>
  BY DEF RepairTail, Records, IgnoredTail
<1>2. Records' = Records
  BY <1>1 DEF Records, IgnoredTail
<1>3. lines' \in Seq(Recorded \cup {Torn})
  BY <1>1, FrontFacts DEF FileOK
<1>4. ~ Corrupt' /\ Valid(Records')
  BY <1>2 DEF FileOK, FileLoads, Corrupt
<1>5. QED
  BY <1>1, <1>2, <1>3, <1>4 DEF FileOK, FileLoads, Extended

LEMMA UntouchedFile ==
  ASSUME FileOK, UNCHANGED fileVars
  PROVE  FileOK' /\ Extended
<1>1. Records' = Records /\ lines' = lines /\ ended' = ended
  BY DEF fileVars, Records, IgnoredTail
<1>2. ~ Corrupt' /\ Valid(Records')
  BY <1>1 DEF FileOK, FileLoads, Corrupt
<1>3. QED
  BY <1>1, <1>2 DEF FileOK, FileLoads, Extended

(* The leaf of a file that loads is 0 or the position of an entry. *)
LEMMA LoadedLeafIsNat ==
  ASSUME FileOK
  PROVE  /\ LeafOf(Records) \in Nat
         /\ EntryIds(lines) \subseteq Nat
         /\ Len(lines) + 1 \in Nat
<1>1. lines \in Seq(Recorded \cup {Torn})
  BY DEF FileOK
<1>2. DOMAIN lines \subseteq Nat /\ Len(lines) + 1 \in Nat
  BY <1>1, LenProperties
<1>3. DOMAIN Records \subseteq DOMAIN lines
  BY <1>1, FrontFacts DEF Records, IgnoredTail
<1>4. QED
  BY <1>2, <1>3 DEF FileOK, FileLoads, Valid, KnownCursor, EntryIds

LEMMA EntriesAreRecords ==
  ASSUME LogInv, NEW p \in Procs, NEW e \in NewEntries(p)
  PROVE  e \in Recorded
<1>1. leaf[p] \in Nat
  BY DEF LogInv
<1>2. \A c \in EntryIds(lines) : c \in Nat
  BY LoadedLeafIsNat DEF LogInv
<1>3. QED
  BY <1>1, <1>2, RecordTypes DEF NewEntries

LEMMA InitLogInv == Init => LogInv
<1> SUFFICES ASSUME Init PROVE LogInv
  OBVIOUS
<1>1. lines = <<>> /\ ended = TRUE
  BY DEF Init
<1>2. lines \in Seq(Recorded \cup {Torn})
  BY <1>1, EmptySeq
<1>3. Records = <<>> /\ DOMAIN Records = {}
  BY <1>1 DEF Records, IgnoredTail
<1>4. EntryIds(Records) = {} /\ Cursors(Records) = {}
  BY <1>3 DEF EntryIds, Cursors
<1>5. Valid(Records)
  BY <1>4 DEF Valid, KnownParents, KnownCursor, AnsweredCalls, LeafOf
<1>6. ~ Corrupt
  BY <1>3 DEF Corrupt
<1>7. QED
  BY <1>1, <1>2, <1>5, <1>6 DEF LogInv, FileOK, FileLoads, Init

LEMMA StepKeepsLog ==
  ASSUME LogInv, [Next]_vars
  PROVE  LogInv' /\ Extended
<1> USE DEF LogInv
<1> DEFINE Leaves == leaf \in [Procs -> Nat] /\ target \in [Procs -> Nat]
<1>1. ASSUME NEW p \in Procs, AppendEntry(p) PROVE LogInv' /\ Extended
  <2>1. PICK e \in NewEntries(p) :
            \/ Write(e) /\ Goes(p, "cursor") /\ Selects(p, Len(lines) + 1) /\ UNCHANGED <<view, leaf>>
            \/ WriteStops(e) /\ (Raises(p) \/ Dies(p))
    BY <1>1 DEF AppendEntry
  <2>2. FileOK' /\ Extended
    BY <2>1, EntriesAreRecords, WriteKeepsFile, StoppedWriteKeepsFile
  <2>3. Leaves'
    BY <2>1, LoadedLeafIsNat DEF Goes, Selects, Raises, Dies
  <2>4. QED
    BY <2>2, <2>3
<1>2. ASSUME NEW p \in Procs, AppendCursor(p) PROVE LogInv' /\ Extended
  <2>1. Cursor(target[p]) \in Recorded
    BY RecordTypes
  <2>2. FileOK' /\ Extended
    BY <1>2, <2>1, WriteKeepsFile, StoppedWriteKeepsFile, UntouchedFile DEF AppendCursor
  <2>3. Leaves'
    BY <1>2 DEF AppendCursor, Goes, Selects, Raises, Dies
  <2>4. QED
    BY <2>2, <2>3
<1>3. ASSUME NEW p \in Procs, NEW e \in {0} \cup EntryIds(lines), Navigate(p, e)
      PROVE  LogInv' /\ Extended
  <2>1. e \in Nat /\ Cursor(e) \in Recorded
    BY LoadedLeafIsNat, RecordTypes
  <2>2. FileOK' /\ Extended
    BY <1>3, <2>1, WriteKeepsFile, StoppedWriteKeepsFile DEF Navigate
  <2>3. Leaves'
    BY <1>3, <2>1 DEF Navigate, Goes, Selects, Raises, Dies
  <2>4. QED
    BY <2>2, <2>3
<1>4. ASSUME NEW p \in Procs, NEW e \in {0} \cup EntryIds(lines), Look(p, e)
      PROVE  LogInv' /\ Extended
  <2>1. e \in Nat
    BY LoadedLeafIsNat
  <2>2. FileOK' /\ Extended
    BY <1>4, UntouchedFile DEF Look
  <2>3. Leaves'
    BY <1>4, <2>1 DEF Look
  <2>4. QED
    BY <2>2, <2>3
<1>5. ASSUME NEW p \in Procs, Load(p) PROVE LogInv' /\ Extended
  <2>1. FileOK' /\ Extended
    BY <1>5, UntouchedFile DEF Load
  <2>2. Leaves'
    BY <1>5, LoadedLeafIsNat DEF Load, Goes, Selects
  <2>3. QED
    BY <2>1, <2>2
<1>6. ASSUME NEW p \in Procs, RepairTail(p) PROVE LogInv' /\ Extended
  <2>1. FileOK' /\ Extended
    BY <1>6, RepairKeepsFile
  <2>2. Leaves'
    BY <1>6 DEF RepairTail, managerVars
  <2>3. QED
    BY <2>1, <2>2
<1>7. ASSUME NEW p \in Procs, Crash(p) PROVE LogInv' /\ Extended
  <2>1. FileOK' /\ Extended
    BY <1>7, UntouchedFile DEF Crash
  <2>2. Leaves'
    BY <1>7 DEF Crash, Dies, Goes, Selects
  <2>3. QED
    BY <2>1, <2>2
<1>8. CASE UNCHANGED vars
  BY <1>8, UntouchedFile DEF vars, managerVars
<1>9. QED
  BY <1>1, <1>2, <1>3, <1>4, <1>5, <1>6, <1>7, <1>8 DEF Next, Reload, Open

(* The file always loads: however many processes append, navigate, crash and repair, and
   wherever their writes stop, only its last line can be torn and its records are valid. *)
THEOREM FileAlwaysLoads == Spec => []FileLoads
<1>1. LogInv /\ [Next]_vars => LogInv'
  BY StepKeepsLog
<1>2. LogInv => FileLoads
  BY DEF LogInv, FileOK
<1>3. QED
  BY InitLogInv, <1>1, <1>2, PTL DEF Spec

(* Records are permanent: no append, no write that stops early and no repair changes or
   removes a record that a load has returned. *)
THEOREM RecordsArePermanent == Spec => RecordsStay
<1>1. LogInv /\ [Next]_vars => LogInv'
  BY StepKeepsLog
<1>2. LogInv /\ [Next]_vars
          => [\A i \in DOMAIN Records : i \in DOMAIN Records' /\ Records'[i] = Records[i]]_vars
  BY StepKeepsLog DEF Extended
<1>3. QED
  BY InitLogInv, <1>1, <1>2, PTL DEF Spec, RecordsStay

-----------------------------------------------------------------------------
(* What the managers hold. *)

(* A tree holds records of the file, and its leaf is one of the entries it holds. *)
ViewInv ==
    /\ view \in [Procs -> Nat]
    /\ \A p \in Procs : /\ view[p] <= Len(Records)
                        /\ leaf[p] \in {0} \cup {i \in EntryIds(Records) : i <= view[p]}

(* A result comes after the entry that holds its call. *)
OfInv ==
    \A i \in EntryIds(Records) : Records[i].kind = "result" =>
        Records[i].of \in EntryIds(Records) /\ Records[i].of < i

(* What a call of a manager that has the session for itself is about to select. *)
ResumeInv ==
    /\ pc \in [Procs -> {"down", "ready", "cursor", "reload"}]
    /\ \A p \in Procs : pc[p] # "down" => p \in users
    /\ (\A p, q \in users : p = q) =>
            /\ LeafOf(Records) \in {acked} \cup attempted
            /\ \A p \in Procs : /\ pc[p] = "cursor" => target[p] \in attempted
                                /\ pc[p] = "reload" => LeafOf(Records) = target[p]

TalkInv == LogInv /\ ViewInv /\ OfInv /\ ResumeInv

(* The path to an entry is made of that entry and those before it. *)
LEMMA PathDepends ==
  ASSUME NEW rs, NEW ss, NEW e \in Nat, \A i \in 1 .. e : rs[i] = ss[i]
  PROVE  PathTo(rs, e) = PathTo(ss, e)
<1> DEFINE Way(t, g) == g = [i \in 0 .. e |-> IF i = 0 THEN <<>> ELSE Append(g[t[i].parent], i)]
<1>1. \A g : Way(rs, g) <=> Way(ss, g)
  <2> TAKE g
  <2>1. [i \in 0 .. e |-> IF i = 0 THEN <<>> ELSE Append(g[rs[i].parent], i)]
            = [i \in 0 .. e |-> IF i = 0 THEN <<>> ELSE Append(g[ss[i].parent], i)]
    OBVIOUS
  <2> QED
    BY <2>1
<1>2. PathTo(rs, e) = (CHOOSE g : Way(rs, g))[e] /\ PathTo(ss, e) = (CHOOSE g : Way(ss, g))[e]
  BY DEF PathTo
<1> HIDE DEF Way
<1>3. (CHOOSE g : Way(rs, g)) = (CHOOSE g : Way(ss, g))
  BY <1>1
<1> QED
  BY <1>2, <1>3

LEMMA LatestIs ==
  ASSUME NEW S \in SUBSET Nat, NEW n \in S, \A i \in S : i <= n
  PROVE  Latest(S) = n
<1>1. \E i \in S : \A j \in S : j <= i
  OBVIOUS
<1>2. Latest(S) \in S /\ \A j \in S : j <= Latest(S)
  BY <1>1 DEF Latest
<1>3. Latest(S) \in Nat /\ n \in Nat /\ n <= Latest(S) /\ Latest(S) <= n
  BY <1>2
<1> QED
  BY <1>3

LEMMA LatestExists ==
  ASSUME NEW S \in SUBSET Nat, NEW n \in Nat, \A i \in S : i <= n, S # {}
  PROVE  Latest(S) \in S
<1> DEFINE Bounds == {k \in Nat : \A i \in S : i <= k}
<1>1. n \in Bounds
  OBVIOUS
<1>2. IsWellFoundedOn(OpToRel(<, Nat), Nat)
  BY NatLessThanWellFounded
<1>3. PICK k \in Bounds : \A m \in Bounds : <<m, k>> \notin OpToRel(<, Nat)
  <2>1. Bounds \in SUBSET Nat /\ Bounds # {}
    BY <1>1
  <2> HIDE DEF Bounds
  <2> QED
    BY <1>2, <2>1, WFMin
<1>4. \A m \in Bounds : ~ m < k
  BY <1>3 DEF OpToRel
<1>5. k \in S
  <2> SUFFICES ASSUME k \notin S PROVE FALSE
    OBVIOUS
  <2>1. \A i \in S : i <= k - 1
    OBVIOUS
  <2>2. k - 1 \in Nat
    <3>1. PICK i \in S : i <= k - 1
      BY <2>1
    <3> QED
      BY <3>1
  <2> QED
    BY <1>4, <2>1, <2>2
<1> QED
  BY <1>5, LatestIs

(* The leaf of the records after one more. *)
LEMMA LeafAfterCursor ==
  ASSUME NEW S, NEW rs \in Seq(S), NEW e
  PROVE  LeafOf(Append(rs, Cursor(e))) = e
<1> DEFINE ss == Append(rs, Cursor(e))
<1>1. rs \in Seq(S \cup {Cursor(e)}) /\ Len(rs) + 1 \in Nat /\ DOMAIN rs = 1 .. Len(rs)
  BY LenProperties, SeqMonotonic
<1>2. DOMAIN ss = DOMAIN rs \cup {Len(rs) + 1} /\ ss[Len(rs) + 1] = Cursor(e)
  BY <1>1, AppendFacts
<1> HIDE DEF ss
<1>3. Len(rs) + 1 \in Cursors(ss)
  BY <1>2 DEF Cursors, Cursor
<1>4. Cursors(ss) \in SUBSET Nat /\ \A i \in Cursors(ss) : i <= Len(rs) + 1
  BY <1>1, <1>2 DEF Cursors
<1>5. Latest(Cursors(ss)) = Len(rs) + 1
  BY <1>3, <1>4, LatestIs
<1>6. LeafOf(ss) = ss[Len(rs) + 1].leaf
  BY <1>3, <1>5 DEF LeafOf
<1> QED
  BY <1>2, <1>6 DEF Cursor, ss

LEMMA LeafAfterEntry ==
  ASSUME NEW S, NEW rs \in Seq(S), NEW x \in S, x.type = "entry"
  PROVE  LeafOf(Append(rs, x)) \in {LeafOf(rs), Len(rs) + 1}
<1> DEFINE ss == Append(rs, x)
<1>1. Len(rs) \in Nat /\ DOMAIN rs = 1 .. Len(rs)
  BY LenProperties
<1>2. DOMAIN ss = DOMAIN rs \cup {Len(rs) + 1} /\ ss[Len(rs) + 1] = x /\ \A i \in DOMAIN rs : ss[i] = rs[i]
  BY AppendFacts
<1> HIDE DEF ss
<1>3. Cursors(ss) = Cursors(rs)
  BY <1>2 DEF Cursors
<1>4. CASE Cursors(rs) # {}
  <2>1. Cursors(rs) \in SUBSET Nat /\ \A i \in Cursors(rs) : i <= Len(rs)
    BY <1>1 DEF Cursors
  <2>2. Latest(Cursors(rs)) \in DOMAIN rs
    BY <1>1, <1>4, <2>1, LatestExists DEF Cursors
  <2> QED
    BY <1>2, <1>3, <1>4, <2>2 DEF LeafOf, ss
<1>5. CASE Cursors(rs) = {}
  <2>1. Len(rs) + 1 \in EntryIds(ss)
    BY <1>2 DEF EntryIds
  <2>2. EntryIds(ss) \in SUBSET Nat /\ \A i \in EntryIds(ss) : i <= Len(rs) + 1
    BY <1>1, <1>2 DEF EntryIds
  <2>3. Latest(EntryIds(ss)) = Len(rs) + 1
    BY <2>1, <2>2, LatestIs
  <2> QED
    BY <1>3, <1>5, <2>1, <2>3 DEF LeafOf, ss
<1> QED
  BY <1>4, <1>5

(* What a write leaves for a load to return. *)
LEMMA WriteGrows ==
  ASSUME FileOK, NEW rec \in Recorded, Write(rec) \/ WriteStops(rec)
  PROVE  /\ Records = lines
         /\ Records' = Records \/ Records' = Append(Records, rec)
         /\ Write(rec) => Records' = Append(Records, rec)
<1>1. ~ IgnoredTail /\ Records = lines /\ ~ Corrupt
  BY DEF Write, WriteStops, Refused, Records
<1>2. lines \in Seq(Recorded \cup {Torn}) /\ rec \in Recorded \cup {Torn} /\ Torn \in Recorded \cup {Torn}
  BY DEF FileOK
<1>3. rec # Torn /\ \A i \in DOMAIN lines : lines[i] # Torn
  BY <1>1, TornIsNoRecord DEF Corrupt
<1>4. CASE lines' = lines /\ ended' = TRUE /\ WriteStops(rec)
  <2>1. ~ Write(rec)
    BY <1>2, <1>4, AppendFacts, LenProperties DEF Write
  <2> QED
    BY <1>1, <1>4, <2>1 DEF Records, IgnoredTail
<1>5. CASE lines' = Append(lines, Torn) /\ ended' = FALSE /\ WriteStops(rec)
  <2>1. lines' # <<>> /\ lines'[Len(lines')] = Torn /\ Front(lines') = lines
    BY <1>2, <1>5, AppendFacts
  <2> QED
    BY <1>1, <1>5, <2>1 DEF Records, IgnoredTail, Write
<1>6. CASE lines' = Append(lines, rec)
  <2>1. lines'[Len(lines')] = rec
    BY <1>2, <1>6, AppendFacts
  <2> QED
    BY <1>1, <1>3, <1>6, <2>1 DEF Records, IgnoredTail
<1> QED
  BY <1>4, <1>5, <1>6 DEF Write, WriteStops

LEMMA RecordsAreSeq ==
  ASSUME FileOK
  PROVE  /\ Records \in Seq(Recorded \cup {Torn})
         /\ Len(Records) \in Nat /\ DOMAIN Records = 1 .. Len(Records)
         /\ DOMAIN Records \subseteq DOMAIN lines /\ \A i \in DOMAIN Records : Records[i] = lines[i]
<1>1. lines \in Seq(Recorded \cup {Torn})
  BY DEF FileOK
<1>2. /\ Records \in Seq(Recorded \cup {Torn})
      /\ DOMAIN Records \subseteq DOMAIN lines /\ \A i \in DOMAIN Records : Records[i] = lines[i]
  BY <1>1, FrontFacts DEF Records, IgnoredTail
<1> QED
  BY <1>2, LenProperties

(* What a manager holds stays an initial part of the file, whatever others append. *)
LEMMA ViewsKept ==
  ASSUME FileOK, FileOK', ViewInv, Extended, view' \in [Procs -> Nat],
         \A p \in Procs :
            \/ view'[p] = view[p] /\ leaf'[p] \in {leaf[p], 0}
            \/ view'[p] = view[p] /\ leaf'[p] \in EntryIds(lines) /\ leaf'[p] <= view[p]
            \/ view'[p] = 0 /\ leaf'[p] = 0
            \/ view'[p] = Len(Records) /\ Records' = Records /\ leaf'[p] = LeafOf(Records)
  PROVE  ViewInv'
<1>1. Len(Records) \in Nat /\ Len(Records') \in Nat /\ Len(Records) <= Len(Records')
  <2>1. DOMAIN Records \subseteq DOMAIN Records'
    BY DEF Extended
  <2>2. Len(Records) \in Nat /\ DOMAIN Records = 1 .. Len(Records)
    BY RecordsAreSeq
  <2>3. (Len(Records) \in Nat /\ DOMAIN Records = 1 .. Len(Records))'
    BY RecordsAreSeq
  <2> DEFINE m == Len(Records)
             n == Len(Records')
  <2>4. m \in Nat /\ n \in Nat /\ 1 .. m \subseteq 1 .. n
    BY <2>1, <2>2, <2>3
  <2> HIDE DEF m, n
  <2>5. m <= n
    <3>1. m = 0 \/ m \in 1 .. m
      BY <2>4
    <3> QED
      BY <2>4, <3>1
  <2> QED
    BY <2>4, <2>5 DEF m, n
<1>2. EntryIds(Records) \subseteq EntryIds(Records')
  BY DEF Extended, EntryIds
<1>3. \A i \in EntryIds(lines) : i <= Len(Records) => i \in EntryIds(Records)
  <2>1. DOMAIN lines \subseteq Nat \ {0}
    BY LenProperties DEF FileOK
  <2>2. \A i \in DOMAIN lines : i <= Len(Records) => i \in DOMAIN Records
    BY <2>1, RecordsAreSeq
  <2> QED
    BY <2>2, RecordsAreSeq DEF EntryIds
<1>4. LeafOf(Records) \in {0} \cup {i \in EntryIds(Records) : i <= Len(Records)}
  BY <1>1, RecordsAreSeq DEF FileOK, FileLoads, Valid, KnownCursor, EntryIds
<1>5. ASSUME NEW p \in Procs
      PROVE  view'[p] <= Len(Records') /\ leaf'[p] \in {0} \cup {i \in EntryIds(Records') : i <= view'[p]}
  <2>1. view[p] \in Nat /\ view[p] <= Len(Records)
        /\ leaf[p] \in {0} \cup {i \in EntryIds(Records) : i <= view[p]}
    BY DEF ViewInv
  <2>2. CASE view'[p] = view[p]
    <3>1. view'[p] <= Len(Records')
      BY <1>1, <2>1, <2>2
    <3>2. leaf'[p] \in {leaf[p], 0} => leaf'[p] \in {0} \cup {i \in EntryIds(Records') : i <= view'[p]}
      BY <1>2, <2>1, <2>2
    <3>3. ASSUME leaf'[p] \in EntryIds(lines), leaf'[p] <= view[p] PROVE leaf'[p] \in EntryIds(Records')
      <4>1. leaf'[p] \in Nat
        BY <3>3, LoadedLeafIsNat
      <4>2. leaf'[p] <= Len(Records)
        BY <1>1, <2>1, <3>3, <4>1
      <4> QED
        BY <1>2, <1>3, <3>3, <4>2
    <3>4. Records' = Records /\ view'[p] = Len(Records) /\ leaf'[p] = LeafOf(Records) =>
                leaf'[p] \in {0} \cup {i \in EntryIds(Records') : i <= view'[p]}
      BY <1>4
    <3> QED
      BY <2>2, <3>1, <3>2, <3>3, <3>4
  <2>3. CASE view'[p] = 0 /\ leaf'[p] = 0
    BY <1>1, <2>3
  <2>4. CASE view'[p] = Len(Records) /\ Records' = Records /\ leaf'[p] = LeafOf(Records)
    BY <1>1, <1>4, <2>4
  <2> QED
    BY <2>2, <2>3, <2>4
<1> QED
  BY <1>5 DEF ViewInv

(* A manager can be shown its tree: it is the tree of records that are valid by themselves. *)
LEMMA ViewsAreTrue ==
  ASSUME FileOK, ViewInv, OfInv, leaf \in [Procs -> Nat]
  PROVE  ViewsStayTrue
<1> SUFFICES ASSUME NEW p \in Procs
             PROVE  LET seen == SubSeq(Records, 1, view[p])
                    IN  /\ Valid(Append(seen, Cursor(leaf[p])))
                        /\ PathTo(seen, leaf[p]) = PathTo(Records, leaf[p])
  BY DEF ViewsStayTrue
<1> DEFINE n == view[p]
           l == leaf[p]
           seen == SubSeq(Records, 1, n)
           rs == Append(seen, Cursor(l))
           S == Recorded \cup {Torn}
<1>1. n \in Nat /\ n <= Len(Records) /\ l \in Nat /\ l \in {0} \cup {i \in EntryIds(Records) : i <= n}
  BY DEF ViewInv
<1>2. Records \in Seq(S) /\ Len(Records) \in Nat /\ DOMAIN Records = 1 .. Len(Records)
  BY RecordsAreSeq
<1>3. seen \in Seq(S) /\ Len(seen) = n /\ DOMAIN seen = 1 .. n /\ \A i \in 1 .. n : seen[i] = Records[i]
  BY <1>1, <1>2
<1>4. Cursor(l) \in S
  BY <1>1, RecordTypes
<1> HIDE DEF n, l, seen
<1>5. DOMAIN rs = 1 .. n \cup {n + 1} /\ rs[n + 1] = Cursor(l) /\ \A i \in 1 .. n : rs[i] = Records[i]
  BY <1>3, <1>4, AppendFacts
<1>6. LeafOf(rs) = l
  BY <1>3, LeafAfterCursor
<1> HIDE DEF rs
<1>7. \A i \in EntryIds(Records) : i \in Nat /\ i >= 1
  BY <1>2 DEF EntryIds
<1>8. EntryIds(rs) = {i \in EntryIds(Records) : i <= n}
  <2>1. Cursor(l).type # "entry"
    BY DEF Cursor
  <2>2. \A i \in 1 .. n : i \in DOMAIN Records
    BY <1>1, <1>2
  <2> QED
    BY <1>1, <1>2, <1>5, <2>1, <2>2 DEF EntryIds
<1>9. Valid(Records)
  BY DEF FileOK, FileLoads
<1>10. KnownParents(rs)
  <2>1. ASSUME NEW i \in EntryIds(rs) PROVE rs[i].parent \in {0} \cup {j \in EntryIds(rs) : j < i}
    <3>1. i \in EntryIds(Records) /\ i \in 1 .. n /\ rs[i] = Records[i]
      BY <1>1, <1>5, <1>7, <1>8
    <3>2. Records[i].parent \in {0} \cup {j \in EntryIds(Records) : j < i}
      BY <1>9, <3>1 DEF Valid, KnownParents
    <3>3. \A j \in EntryIds(Records) : j < i => j <= n
      BY <1>1, <1>7, <3>1
    <3> QED
      BY <1>8, <3>1, <3>2, <3>3
  <2> QED
    BY <2>1 DEF KnownParents
<1>11. KnownCursor(rs)
  BY <1>1, <1>6, <1>8 DEF KnownCursor
<1>12. AnsweredCalls(rs)
  <2>1. ASSUME NEW i \in EntryIds(rs), rs[i].kind = "result"
        PROVE  LET way == PathTo(rs, rs[i].parent)
               IN  \E a \in DOMAIN way : way[a] = rs[i].of /\ rs[way[a]].kind = "call"
    <3>1. i \in EntryIds(Records) /\ i \in 1 .. n /\ rs[i] = Records[i]
      BY <1>1, <1>5, <1>7, <1>8
    <3>2. Records[i].parent \in {0} \cup {j \in EntryIds(Records) : j < i}
      BY <1>9, <3>1 DEF Valid, KnownParents
    <3> DEFINE q == Records[i].parent
    <3>3. q \in Nat /\ \A j \in 1 .. q : j \in 1 .. n
      <4> HIDE DEF q
      <4>1. i \in Nat /\ i >= 1 /\ i <= n
        BY <1>1, <1>7, <3>1
      <4>2. q = 0 \/ (q \in EntryIds(Records) /\ q < i)
        BY <3>2 DEF q
      <4>3. q \in Nat /\ q < i
        <5>1. CASE q = 0
          BY <4>1, <5>1
        <5>2. CASE q \in EntryIds(Records) /\ q < i
          BY <1>7, <5>2
        <5> QED
          BY <4>2, <5>1, <5>2
      <4> QED
        BY <1>1, <4>1, <4>3
    <3>4. \A j \in 1 .. q : rs[j] = Records[j]
      BY <1>5, <3>3
    <3> HIDE DEF q
    <3>5. PathTo(rs, q) = PathTo(Records, q)
      BY <3>3, <3>4, PathDepends
    <3>6. PICK a \in DOMAIN PathTo(Records, q) :
                PathTo(Records, q)[a] = Records[i].of /\ Records[PathTo(Records, q)[a]].kind = "call"
      BY <1>9, <2>1, <3>1 DEF Valid, AnsweredCalls, q
    <3>7. Records[i].of \in 1 .. n
      <4> DEFINE o == Records[i].of
      <4>1. o \in EntryIds(Records) /\ o < i
        BY <2>1, <3>1 DEF OfInv
      <4> HIDE DEF o
      <4>2. o \in Nat /\ o >= 1
        BY <1>7, <4>1
      <4>3. i \in Nat /\ i <= n
        BY <1>1, <1>7, <3>1
      <4>4. o \in 1 .. n
        BY <1>1, <4>1, <4>2, <4>3
      <4> QED
        BY <4>4 DEF o
    <3>8. rs[Records[i].of] = Records[Records[i].of]
      BY <1>5, <3>7
    <3> QED
      BY <3>1, <3>5, <3>6, <3>8 DEF q
  <2> QED
    BY <2>1 DEF AnsweredCalls
<1>13. Valid(rs)
  BY <1>10, <1>11, <1>12 DEF Valid
<1>14. PathTo(seen, l) = PathTo(Records, l)
  <2>1. \A i \in 1 .. l : seen[i] = Records[i]
    BY <1>1, <1>3
  <2> QED
    BY <1>1, <2>1, PathDepends
<1> QED
  BY <1>13, <1>14 DEF rs, l, seen, n

LEMMA ResultsFollowCalls ==
  ASSUME FileOK, OfInv, NEW rec \in Recorded, Write(rec) \/ WriteStops(rec),
         rec.type = "entry" /\ rec.kind = "result" =>
            rec.of \in EntryIds(lines) /\ rec.of <= Len(lines)
  PROVE  OfInv'
<1>1. Records = lines /\ (Records' = Records \/ Records' = Append(Records, rec))
  BY WriteGrows
<1>2. CASE Records' = Records
  BY <1>2 DEF OfInv
<1>3. CASE Records' = Append(Records, rec)
  <2> DEFINE n == Len(Records)
  <2>1. Records \in Seq(Recorded \cup {Torn}) /\ n \in Nat /\ DOMAIN Records = 1 .. n
    BY RecordsAreSeq
  <2>2. /\ DOMAIN Records' = DOMAIN Records \cup {n + 1}
        /\ Records'[n + 1] = rec /\ \A i \in DOMAIN Records : Records'[i] = Records[i]
    BY <1>3, <2>1, AppendFacts
  <2>3. \A i \in EntryIds(Records) : i \in EntryIds(Records') /\ i <= n
    BY <2>1, <2>2 DEF EntryIds
  <2>4. ASSUME NEW i \in EntryIds(Records'), Records'[i].kind = "result"
        PROVE  Records'[i].of \in EntryIds(Records') /\ Records'[i].of < i
    <3>1. CASE i \in DOMAIN Records
      BY <2>2, <2>3, <2>4, <3>1 DEF OfInv, EntryIds
    <3>2. CASE i = n + 1
      <4>1. rec.type = "entry" /\ rec.kind = "result" /\ Records'[i] = rec
        BY <2>2, <2>4, <3>2 DEF EntryIds
      <4>2. rec.of \in EntryIds(Records) /\ rec.of <= n /\ rec.of \in Nat
        BY <1>1, <2>1, <4>1 DEF EntryIds
      <4> HIDE DEF n
      <4> QED
        BY <2>1, <2>3, <3>2, <4>1, <4>2
    <3> QED
      BY <2>2, <2>4, <3>1, <3>2 DEF EntryIds
  <2> QED
    BY <2>4 DEF OfInv
<1> QED
  BY <1>1, <1>2, <1>3

(* The leaf that a process by itself would find, and what its calls are about to select. *)
LEMMA NewLeaf ==
  ASSUME FileOK, NEW rec \in Recorded, Write(rec) \/ WriteStops(rec)
  PROVE  /\ rec.type = "entry" => LeafOf(Records') \in {LeafOf(Records), Len(lines) + 1}
         /\ \A e : rec = Cursor(e) => /\ LeafOf(Records') \in {LeafOf(Records), e}
                                      /\ Write(rec) => LeafOf(Records') = e
<1>1. /\ Records = lines /\ (Records' = Records \/ Records' = Append(Records, rec))
      /\ Write(rec) => Records' = Append(Records, rec)
  BY WriteGrows
<1>2. Records \in Seq(Recorded \cup {Torn}) /\ rec \in Recorded \cup {Torn}
  BY RecordsAreSeq
<1>3. rec.type = "entry" => LeafOf(Append(Records, rec)) \in {LeafOf(Records), Len(Records) + 1}
  BY <1>2, LeafAfterEntry
<1>4. \A e : rec = Cursor(e) => LeafOf(Append(Records, rec)) = e
  BY <1>2, LeafAfterCursor
<1> QED
  BY <1>1, <1>3, <1>4

LEMMA InitTalkInv == Init => TalkInv
<1> SUFFICES ASSUME Init PROVE TalkInv
  OBVIOUS
<1>1. Records = <<>> /\ DOMAIN Records = {} /\ Len(Records) = 0
  BY DEF Init, Records, IgnoredTail
<1>2. EntryIds(Records) = {} /\ Cursors(Records) = {}
  BY <1>1 DEF EntryIds, Cursors
<1>3. ViewInv /\ OfInv
  BY <1>1, <1>2 DEF Init, ViewInv, OfInv
<1>4. ResumeInv
  BY <1>2 DEF Init, ResumeInv, LeafOf
<1> QED
  BY <1>3, <1>4, InitLogInv DEF TalkInv

(* A step that neither grows the file nor reports anything. *)
LEMMA QuietKeepsResume ==
  ASSUME ResumeInv, Records' = Records, UNCHANGED <<users, acked, attempted>>,
         \A p \in Procs : \/ pc'[p] = pc[p] /\ target'[p] = target[p]
                          \/ pc'[p] = "ready" /\ pc[p] # "down"
                          \/ pc'[p] = "down",
         pc' \in [Procs -> {"down", "ready", "cursor", "reload"}]
  PROVE  ResumeInv'
<1>1. \A p \in Procs : pc'[p] # "down" => p \in users'
  BY DEF ResumeInv
<1>2. LeafOf(Records') = LeafOf(Records)
  OBVIOUS
<1> QED
  BY <1>1, <1>2 DEF ResumeInv

(* A step of p that writes, or tries to. *)
LEMMA WritingKeepsResume ==
  ASSUME ResumeInv, NEW p \in Procs, pc[p] # "down", UNCHANGED <<users, acked>>,
         attempted \subseteq attempted',
         LeafOf(Records') \in {LeafOf(Records)} \cup attempted' \/ (\E q \in users : q # p),
         pc' \in [Procs -> {"down", "ready", "cursor", "reload"}],
         \A q \in Procs : q # p => pc'[q] = pc[q],
         pc'[p] = "cursor" => target'[p] \in attempted',
         pc'[p] = "reload" => LeafOf(Records') = target'[p]
  PROVE  ResumeInv'
<1>1. p \in users
  BY DEF ResumeInv
<1>2. \A q \in Procs : pc'[q] # "down" => q \in users'
  BY <1>1 DEF ResumeInv
<1>3. ASSUME \A q, r \in users' : q = r
      PROVE  /\ LeafOf(Records') \in {acked'} \cup attempted'
             /\ \A q \in Procs : /\ pc'[q] = "cursor" => target'[q] \in attempted'
                                 /\ pc'[q] = "reload" => LeafOf(Records') = target'[q]
  <2>1. \A q \in Procs : q # p => pc'[q] = "down"
    BY <1>1, <1>2, <1>3
  <2>2. LeafOf(Records) \in {acked} \cup attempted
    BY <1>3 DEF ResumeInv
  <2> QED
    BY <1>1, <1>3, <2>1, <2>2
<1> QED
  BY <1>2, <1>3 DEF ResumeInv

LEMMA AppendEntryKeepsTalk ==
  ASSUME TalkInv, NEW p \in Procs, AppendEntry(p)
  PROVE  TalkInv'
<1>1. LogInv /\ FileOK /\ ViewInv /\ OfInv /\ ResumeInv /\ pc[p] = "ready"
  BY DEF TalkInv, LogInv, AppendEntry
<1>2. LogInv' /\ Extended /\ FileOK'
  BY <1>1, StepKeepsLog DEF Next, LogInv
<1>3. PICK e \in NewEntries(p) :
        \/ Write(e) /\ Goes(p, "cursor") /\ Selects(p, Len(lines) + 1) /\ UNCHANGED <<view, leaf>>
        \/ WriteStops(e) /\ (Raises(p) \/ Dies(p))
  BY DEF AppendEntry
<1>4. attempted' = attempted \cup {Len(lines) + 1} /\ UNCHANGED <<users, acked>>
  BY DEF AppendEntry
<1>5. e \in Recorded /\ e.type = "entry"
  BY <1>1, <1>3, EntriesAreRecords DEF NewEntries, Entry
<1>6. /\ pc' \in [Procs -> {"down", "ready", "cursor", "reload"}]
      /\ \A q \in Procs : q # p => pc'[q] = pc[q]
      /\ pc'[p] \in {"down", "ready", "cursor"}
      /\ pc'[p] = "cursor" => target'[p] = Len(lines) + 1
  BY <1>1, <1>3 DEF Goes, Selects, Raises, Dies, ResumeInv, LogInv
<1>7. /\ view' \in [Procs -> Nat]
      /\ \A q \in Procs : \/ view'[q] = view[q] /\ leaf'[q] \in {leaf[q], 0}
                          \/ view'[q] = 0 /\ leaf'[q] = 0
  <2>1. view \in [Procs -> Nat] /\ leaf \in [Procs -> Nat]
    BY <1>1 DEF ViewInv, LogInv
  <2>2. CASE UNCHANGED <<view, leaf>>
    BY <2>1, <2>2
  <2>3. CASE Dies(p)
    BY <2>1, <2>3 DEF Dies
  <2> QED
    BY <1>3, <2>2, <2>3 DEF Raises
<1>8. ViewInv'
  BY <1>1, <1>2, <1>7, ViewsKept
<1>9. OfInv'
  <2>1. Records = lines
    BY <1>1, <1>3, <1>5, WriteGrows
  <2>2. ASSUME e.kind = "result" PROVE e.of \in EntryIds(lines) /\ e.of <= Len(lines)
    <3>1. e.of \in EntryIds(lines)
      BY <1>3, <2>2 DEF NewEntries, Entry
    <3>2. DOMAIN Records = 1 .. Len(Records)
      BY <1>1, RecordsAreSeq
    <3> QED
      BY <2>1, <3>1, <3>2 DEF EntryIds
  <2> QED
    BY <1>1, <1>3, <1>5, <2>2, ResultsFollowCalls
<1>10. LeafOf(Records') \in {LeafOf(Records)} \cup attempted'
  BY <1>1, <1>3, <1>4, <1>5, NewLeaf
<1>11. ResumeInv'
  BY <1>1, <1>4, <1>6, <1>10, WritingKeepsResume
<1> QED
  BY <1>2, <1>8, <1>9, <1>11 DEF TalkInv

LEMMA CursorKeepsOf ==
  ASSUME FileOK, OfInv, NEW e \in Nat, Write(Cursor(e)) \/ WriteStops(Cursor(e))
  PROVE  OfInv'
<1>1. Cursor(e) \in Recorded /\ Cursor(e).type # "entry"
  BY RecordTypes DEF Cursor
<1> QED
  BY <1>1, ResultsFollowCalls

LEMMA AppendCursorKeepsTalk ==
  ASSUME TalkInv, NEW p \in Procs, AppendCursor(p)
  PROVE  TalkInv'
<1>1. LogInv /\ FileOK /\ ViewInv /\ OfInv /\ ResumeInv /\ pc[p] = "cursor"
  BY DEF TalkInv, LogInv, AppendCursor
<1>2. LogInv' /\ Extended /\ FileOK'
  BY <1>1, StepKeepsLog DEF Next, LogInv
<1> DEFINE e == target[p]
<1>3. e \in Nat /\ Cursor(e) \in Recorded
  BY <1>1, RecordTypes DEF LogInv
<1>4. \/ Write(Cursor(e)) /\ Goes(p, "reload") /\ UNCHANGED <<view, leaf, target>>
      \/ WriteStops(Cursor(e)) /\ (Raises(p) \/ Dies(p))
      \/ Raises(p) /\ UNCHANGED fileVars
  BY DEF AppendCursor
<1>5. UNCHANGED <<users, acked, attempted>>
  BY DEF AppendCursor, historyVars
<1> HIDE DEF e
<1>6. /\ pc' \in [Procs -> {"down", "ready", "cursor", "reload"}]
      /\ \A q \in Procs : q # p => pc'[q] = pc[q]
      /\ pc'[p] \in {"down", "ready", "reload"}
      /\ pc'[p] = "reload" => target'[p] = e /\ Write(Cursor(e))
  BY <1>1, <1>4 DEF Goes, Raises, Dies, ResumeInv, e
<1>7. /\ view' \in [Procs -> Nat]
      /\ \A q \in Procs : \/ view'[q] = view[q] /\ leaf'[q] \in {leaf[q], 0}
                          \/ view'[q] = 0 /\ leaf'[q] = 0
  <2>1. view \in [Procs -> Nat] /\ leaf \in [Procs -> Nat]
    BY <1>1 DEF ViewInv, LogInv
  <2>2. CASE UNCHANGED <<view, leaf>>
    BY <2>1, <2>2
  <2>3. CASE Dies(p)
    BY <2>1, <2>3 DEF Dies
  <2> QED
    BY <1>4, <2>2, <2>3 DEF Raises
<1>8. ViewInv'
  BY <1>1, <1>2, <1>7, ViewsKept
<1>9. CASE UNCHANGED fileVars
  <2>1. Records' = Records /\ OfInv'
    BY <1>1, <1>9 DEF fileVars, Records, IgnoredTail, OfInv
  <2>2. pc'[p] = "reload" => LeafOf(Records') = target'[p]
    BY <1>1, <1>3, <1>6, NewLeaf
  <2>3. ResumeInv'
    BY <1>1, <1>5, <1>6, <2>1, <2>2, WritingKeepsResume
  <2> QED
    BY <1>2, <1>8, <2>1, <2>3 DEF TalkInv
<1>10. CASE Write(Cursor(e)) \/ WriteStops(Cursor(e))
  <2>1. OfInv'
    BY <1>1, <1>3, <1>10, CursorKeepsOf
  <2>2. LeafOf(Records') \in {LeafOf(Records), e} /\ (Write(Cursor(e)) => LeafOf(Records') = e)
    BY <1>1, <1>3, <1>10, NewLeaf
  <2>3. e \in attempted \/ \E q \in users : q # p
    BY <1>1 DEF ResumeInv, e
  <2>4. ResumeInv'
    BY <1>1, <1>5, <1>6, <2>2, <2>3, WritingKeepsResume
  <2> QED
    BY <1>2, <1>8, <2>1, <2>4 DEF TalkInv
<1> QED
  BY <1>4, <1>9, <1>10

LEMMA NavigateKeepsTalk ==
  ASSUME TalkInv, NEW p \in Procs, NEW e \in {0} \cup EntryIds(lines), Navigate(p, e)
  PROVE  TalkInv'
<1>1. LogInv /\ FileOK /\ ViewInv /\ OfInv /\ ResumeInv /\ pc[p] = "ready"
  BY DEF TalkInv, LogInv, Navigate
<1>2. e \in Nat /\ Cursor(e) \in Recorded
  BY <1>1, LoadedLeafIsNat, RecordTypes
<1>3. \/ Write(Cursor(e)) /\ Goes(p, "reload") /\ Selects(p, e) /\ UNCHANGED <<view, leaf>>
      \/ WriteStops(Cursor(e)) /\ (Raises(p) \/ Dies(p))
  BY DEF Navigate
<1>4. attempted' = attempted \cup {e} /\ UNCHANGED <<users, acked>>
  BY DEF Navigate
<1>5. FileOK' /\ Extended
  BY <1>1, <1>2, <1>3, WriteKeepsFile, StoppedWriteKeepsFile
<1>6. LogInv'
  BY <1>1, <1>2, <1>3, <1>5 DEF LogInv, Goes, Selects, Raises, Dies
<1>7. /\ pc' \in [Procs -> {"down", "ready", "cursor", "reload"}]
      /\ \A q \in Procs : q # p => pc'[q] = pc[q]
      /\ pc'[p] \in {"down", "ready", "reload"}
      /\ pc'[p] = "reload" => target'[p] = e /\ Write(Cursor(e))
  BY <1>1, <1>3 DEF Goes, Selects, Raises, Dies, ResumeInv, LogInv
<1>8. /\ view' \in [Procs -> Nat]
      /\ \A q \in Procs : \/ view'[q] = view[q] /\ leaf'[q] \in {leaf[q], 0}
                          \/ view'[q] = 0 /\ leaf'[q] = 0
  <2>1. view \in [Procs -> Nat] /\ leaf \in [Procs -> Nat]
    BY <1>1 DEF ViewInv, LogInv
  <2>2. CASE UNCHANGED <<view, leaf>>
    BY <2>1, <2>2
  <2>3. CASE Dies(p)
    BY <2>1, <2>3 DEF Dies
  <2> QED
    BY <1>3, <2>2, <2>3 DEF Raises
<1>9. ViewInv'
  BY <1>1, <1>5, <1>8, ViewsKept
<1>10. OfInv'
  BY <1>1, <1>2, <1>3, CursorKeepsOf
<1>11. LeafOf(Records') \in {LeafOf(Records), e} /\ (Write(Cursor(e)) => LeafOf(Records') = e)
  BY <1>1, <1>2, <1>3, NewLeaf
<1>12. ResumeInv'
  BY <1>1, <1>4, <1>7, <1>11, WritingKeepsResume
<1> QED
  BY <1>6, <1>9, <1>10, <1>12 DEF TalkInv

(* A step that leaves what a load returns as it is. *)
LEMMA SameRecords ==
  ASSUME TalkInv, LogInv', Records' = Records,
         view' \in [Procs -> Nat],
         \A p \in Procs :
            \/ view'[p] = view[p] /\ leaf'[p] \in {leaf[p], 0}
            \/ view'[p] = view[p] /\ leaf'[p] \in EntryIds(lines) /\ leaf'[p] <= view[p]
            \/ view'[p] = 0 /\ leaf'[p] = 0
            \/ view'[p] = Len(Records) /\ leaf'[p] = LeafOf(Records)
  PROVE  ViewInv' /\ OfInv'
<1>1. FileOK /\ FileOK' /\ ViewInv /\ OfInv
  BY DEF TalkInv, LogInv
<1>2. Extended
  BY DEF Extended
<1> QED
  BY <1>1, <1>2, ViewsKept DEF OfInv

LEMMA LookKeepsTalk ==
  ASSUME TalkInv, NEW p \in Procs, NEW e \in {0} \cup {i \in EntryIds(lines) : i <= view[p]}, Look(p, e)
  PROVE  TalkInv'
<1>1. LogInv /\ ResumeInv /\ ViewInv
  BY DEF TalkInv
<1>2. e \in Nat
  BY <1>1, LoadedLeafIsNat DEF LogInv
<1>3. leaf' = [leaf EXCEPT ![p] = e] /\ UNCHANGED <<lines, ended, pc, view, target, users, acked, attempted>>
  BY DEF Look, fileVars, historyVars
<1>4. Records' = Records
  BY <1>3 DEF Records, IgnoredTail
<1>5. LogInv'
  BY <1>1, <1>2, <1>3, UntouchedFile DEF LogInv, fileVars
<1>6. ViewInv' /\ OfInv'
  BY <1>1, <1>3, <1>4, <1>5, SameRecords DEF LogInv, ViewInv
<1>7. ResumeInv'
  BY <1>1, <1>3, <1>4, QuietKeepsResume DEF ResumeInv
<1> QED
  BY <1>5, <1>6, <1>7 DEF TalkInv

LEMMA LoadKeepsTalk ==
  ASSUME TalkInv, NEW p \in Procs, Reload(p) \/ Open(p)
  PROVE  TalkInv'
<1>1. LogInv /\ ResumeInv /\ ViewInv
  BY DEF TalkInv
<1>2. Load(p)
  BY DEF Reload, Open
<1>3. /\ view' = [view EXCEPT ![p] = Len(Records)] /\ leaf' = [leaf EXCEPT ![p] = LeafOf(Records)]
      /\ pc' = [pc EXCEPT ![p] = "ready"] /\ target' = [target EXCEPT ![p] = 0]
      /\ UNCHANGED <<lines, ended>>
  BY <1>2 DEF Load, Goes, Selects, fileVars
<1>4. Records' = Records
  BY <1>3 DEF Records, IgnoredTail
<1>5. LogInv'
  BY <1>1, <1>3, LoadedLeafIsNat, UntouchedFile DEF LogInv, fileVars
<1>6. Len(Records) \in Nat
  BY <1>1, RecordsAreSeq DEF LogInv
<1>7. ViewInv' /\ OfInv'
  BY <1>1, <1>3, <1>4, <1>5, <1>6, SameRecords DEF LogInv, ViewInv
<1>8. /\ pc' \in [Procs -> {"down", "ready", "cursor", "reload"}]
      /\ pc'[p] = "ready" /\ \A q \in Procs : q # p => pc'[q] = pc[q]
  BY <1>1, <1>3 DEF ResumeInv
<1>9. /\ p \in users' /\ users \subseteq users' /\ attempted' = {}
      /\ acked' = LeafOf(Records) \/ \E q \in users' : q # p
  <2>1. CASE Open(p)
    BY <2>1 DEF Open
  <2>2. CASE Reload(p)
    BY <1>1, <2>2 DEF Reload, ResumeInv
  <2> QED
    BY <2>1, <2>2
<1>10. \A q \in Procs : pc'[q] # "down" => q \in users'
  BY <1>1, <1>8, <1>9 DEF ResumeInv
<1>11. ASSUME \A q, r \in users' : q = r
       PROVE  /\ LeafOf(Records') \in {acked'} \cup attempted'
              /\ \A q \in Procs : /\ pc'[q] = "cursor" => target'[q] \in attempted'
                                  /\ pc'[q] = "reload" => LeafOf(Records') = target'[q]
  <2>1. \A q \in Procs : pc'[q] \notin {"cursor", "reload"}
    BY <1>8, <1>9, <1>10, <1>11
  <2> QED
    BY <1>4, <1>9, <1>11, <2>1
<1>12. ResumeInv'
  BY <1>8, <1>10, <1>11 DEF ResumeInv
<1> QED
  BY <1>5, <1>7, <1>12 DEF TalkInv

LEMMA RepairKeepsTalk ==
  ASSUME TalkInv, NEW p \in Procs, RepairTail(p)
  PROVE  TalkInv'
<1>1. LogInv /\ ResumeInv /\ ViewInv /\ FileOK
  BY DEF TalkInv, LogInv
<1>2. UNCHANGED <<pc, view, leaf, target, users, acked, attempted>>
  BY DEF RepairTail, managerVars, historyVars
<1>3. Records' = Records
  BY DEF RepairTail, Records, IgnoredTail
<1>4. LogInv'
  BY <1>1, <1>2, RepairKeepsFile DEF LogInv
<1>5. ViewInv' /\ OfInv'
  BY <1>1, <1>2, <1>3, <1>4, SameRecords DEF ViewInv
<1>6. ResumeInv'
  BY <1>1, <1>2, <1>3, QuietKeepsResume DEF ResumeInv
<1> QED
  BY <1>4, <1>5, <1>6 DEF TalkInv

LEMMA CrashKeepsTalk ==
  ASSUME TalkInv, NEW p \in Procs, Crash(p)
  PROVE  TalkInv'
<1>1. LogInv /\ ResumeInv /\ ViewInv /\ FileOK
  BY DEF TalkInv, LogInv
<1>2. /\ view' = [view EXCEPT ![p] = 0] /\ leaf' = [leaf EXCEPT ![p] = 0]
      /\ pc' = [pc EXCEPT ![p] = "down"] /\ target' = [target EXCEPT ![p] = 0]
      /\ UNCHANGED <<lines, ended, users, acked, attempted>>
  BY DEF Crash, Dies, Goes, Selects, fileVars, historyVars
<1>3. Records' = Records
  BY <1>2 DEF Records, IgnoredTail
<1>4. LogInv'
  BY <1>1, <1>2, UntouchedFile DEF LogInv, fileVars
<1>5. ViewInv' /\ OfInv'
  BY <1>1, <1>2, <1>3, <1>4, SameRecords DEF ViewInv, LogInv
<1>6. ResumeInv'
  BY <1>1, <1>2, <1>3, QuietKeepsResume DEF ResumeInv, LogInv
<1> QED
  BY <1>4, <1>5, <1>6 DEF TalkInv

LEMMA StutterKeepsTalk == TalkInv /\ UNCHANGED vars => TalkInv'
<1> SUFFICES ASSUME TalkInv, UNCHANGED vars PROVE TalkInv'
  OBVIOUS
<1>1. UNCHANGED <<lines, ended, pc, view, leaf, target, users, acked, attempted>>
  BY DEF vars, fileVars, managerVars, historyVars
<1>2. Records' = Records
  BY <1>1 DEF Records, IgnoredTail
<1>3. LogInv'
  BY StepKeepsLog DEF TalkInv
<1>4. ViewInv' /\ OfInv'
  BY <1>1, <1>2, <1>3, SameRecords DEF TalkInv, ViewInv
<1>5. ResumeInv'
  BY <1>1, <1>2, QuietKeepsResume DEF TalkInv, ResumeInv
<1> QED
  BY <1>3, <1>4, <1>5 DEF TalkInv

LEMMA StepKeepsTalk == TalkInv /\ [Next]_vars => TalkInv'
<1> SUFFICES ASSUME TalkInv, [Next]_vars PROVE TalkInv'
  OBVIOUS
<1>1. ASSUME NEW p \in Procs, NEW e \in {0} \cup {i \in EntryIds(lines) : i <= view[p]},
             Navigate(p, e) \/ Look(p, e)
      PROVE  TalkInv'
  BY <1>1, NavigateKeepsTalk, LookKeepsTalk
<1> QED
  BY <1>1, AppendEntryKeepsTalk, AppendCursorKeepsTalk, LoadKeepsTalk, RepairKeepsTalk, CrashKeepsTalk,
     StutterKeepsTalk DEF Next

(* Nobody finds another conversation than the one that was left: the tree a process has loaded
   stays true of the file whatever other processes append to it, and a process by itself
   resumes, after a crash at any moment of any write, where its last call had left it or at a
   leaf that a call was trying to select. *)
THEOREM ConversationsStay == Spec => []ConversationStays
<1>1. TalkInv => ConversationStays
  <2> SUFFICES ASSUME TalkInv PROVE ConversationStays
    OBVIOUS
  <2>1. ViewsStayTrue
    BY ViewsAreTrue DEF TalkInv, LogInv
  <2>2. ResumesWhereItWas
    BY DEF TalkInv, ResumeInv, ResumesWhereItWas
  <2> QED
    BY <2>1, <2>2 DEF ConversationStays
<1> QED
  BY InitTalkInv, StepKeepsTalk, <1>1, PTL DEF Spec

-----------------------------------------------------------------------------
(* SessionCompaction: what a path may look like. *)

Busy == {"summarising", "finishing"}
Stages == {"idle", "waiting", "forced", "unforced", "done", "failed"} \cup Busy
Works == [seen : Nat, cut : Nat, reply : {"none", "empty", "text"}, attempts : Nat]

(* Entries of the three types, with ids of calls that tell where the message is. *)
Fits(e, i) ==
    /\ e.type \in {"message", "branch", "compaction"}
    /\ e.kept \in Nat /\ e.kept < i
    /\ e.message.calls \subseteq {2 * (i - 1) + 1, 2 * (i - 1) + 2}
    /\ e.message.answers # NoCall => e.message.calls = {}
    /\ e.type # "message" => e.message.calls = {} /\ e.message.answers = NoCall
    /\ e.message.role = "toolResult" <=> e.message.answers # NoCall
Entries(p) == p \in Seq(Range(p)) /\ \A i \in DOMAIN p : Fits(p[i], i)

(* From position s on no answer is without its call. *)
Clean(p, s) ==
    \A i \in DOMAIN p :
        i >= s /\ p[i].message.answers # NoCall =>
            \E j \in s .. i - 1 : p[i].message.answers \in p[j].message.calls
AnsweredOnce(p) ==
    \A i, j \in DOMAIN p :
        p[i].message.answers = p[j].message.answers /\ p[i].message.answers # NoCall => i = j

(* Where the context begins that a summary begins. *)
StartAfter(e, c) == IF e.kept = 0 THEN c + 1 ELSE e.kept
Summarises(p, e, c) ==
    /\ Clean(p, StartAfter(e, c))
    /\ \A i \in Positions(p, "message") : i < c => i \in e.covered \/ i >= StartAfter(e, c)
Summaries(p) == \A c \in Positions(p, "compaction") : Summarises(p, p[c], c)

PathSound(p) == Entries(p) /\ Clean(p, 1) /\ AnsweredOnce(p) /\ Summaries(p)

(* The run owes the results of the calls of one message, and none is owed when a task
   compacts. *)
RunInv ==
    /\ phase \in {"idle", "request", "tools", "boundary"}
    /\ phase # "tools" => batch = {}
    /\ phase = "tools" =>
        /\ batch # {}
        /\ \E j \in DOMAIN path :
            /\ batch \subseteq path[j].message.calls
            /\ \A i \in DOMAIN path : path[i].message.answers \notin batch
            /\ \A c \in Positions(path, "compaction") : c < j
TasksInv ==
    /\ stage \in [Workers -> Stages]
    /\ \A w \in Controllers : stage[w] # "idle" => phase = "boundary"
    /\ \A w \in Manuals : stage[w] # "idle" => phase = "idle"

(* What a task has read is still there, and is all of the conversation. *)
WorkSound(w) ==
    /\ work[w].seen \in 0 .. Len(path)
    /\ FirstKept(w) \in 0 .. work[w].seen
    /\ FirstKept(w) # 0 => Clean(path, FirstKept(w))
    /\ \A i \in Positions(path, "message") : i \in Given(w) \/ (FirstKept(w) # 0 /\ i >= FirstKept(w))
WorkInv ==
    /\ work \in [Workers -> Works]
    /\ \A w \in Workers : stage[w] \in Busy => WorkSound(w)

CompactionInv == PathSound(path) /\ RunInv /\ TasksInv /\ WorkInv

-----------------------------------------------------------------------------
(* Sequences, whatever their elements. *)

LEMMA AppendedTo ==
  ASSUME NEW p, p \in Seq(Range(p)), NEW e
  PROVE  /\ Append(p, e) \in Seq(Range(Append(p, e)))
         /\ Len(p) \in Nat /\ DOMAIN p = 1 .. Len(p)
         /\ Len(Append(p, e)) = Len(p) + 1
         /\ DOMAIN Append(p, e) = 1 .. Len(p) + 1
         /\ Append(p, e)[Len(p) + 1] = e
         /\ \A i \in DOMAIN p : Append(p, e)[i] = p[i]
<1> DEFINE S == Range(p) \cup {e}
<1>1. p \in Seq(S) /\ e \in S
  <2>1. Range(p) \subseteq S
    OBVIOUS
  <2>2. Len(p) \in Nat /\ DOMAIN p = 1 .. Len(p) /\ \A i \in 1 .. Len(p) : p[i] \in Range(p)
    BY LenProperties, ElementOfSeq
  <2>3. p \in [1 .. Len(p) -> Range(p)]
    BY LenProperties
  <2>4. p \in [1 .. Len(p) -> S]
    BY <2>2, <2>3, <2>1
  <2>5. QED
    BY <2>2, <2>4, SeqDef
<1> HIDE DEF S
<1>2. Append(p, e) \in Seq(S) /\ Len(Append(p, e)) = Len(p) + 1 /\ Len(p) \in Nat
  BY <1>1, AppendProperties, LenProperties
<1>3. DOMAIN p = 1 .. Len(p) /\ DOMAIN Append(p, e) = 1 .. Len(p) + 1
  BY <1>1, <1>2, LenProperties
<1>4. Append(p, e)[Len(p) + 1] = e /\ \A i \in 1 .. Len(p) : Append(p, e)[i] = p[i]
  BY <1>1, AppendProperties
<1>5. Append(p, e) \in Seq(Range(Append(p, e)))
  <2> DEFINE q == Append(p, e)
  <2>1. q \in [1 .. Len(p) + 1 -> S]
    BY <1>2, <1>3, LenProperties
  <2>2. \A i \in 1 .. Len(p) + 1 : q[i] \in Range(q)
    BY <1>3 DEF Range
  <2> HIDE DEF q
  <2>3. q \in [1 .. Len(p) + 1 -> Range(q)]
    BY <2>1, <2>2
  <2>4. q \in Seq(Range(q))
    BY <1>2, <2>3, SeqDef
  <2>5. QED
    BY <2>4 DEF q
<1>6. QED
  BY <1>2, <1>3, <1>4, <1>5

LEMMA CutTo ==
  ASSUME NEW p, p \in Seq(Range(p)), NEW n \in 0 .. Len(p)
  PROVE  /\ SubSeq(p, 1, n) \in Seq(Range(SubSeq(p, 1, n)))
         /\ Len(SubSeq(p, 1, n)) = n
         /\ DOMAIN SubSeq(p, 1, n) = 1 .. n /\ DOMAIN p = 1 .. Len(p) /\ Len(p) \in Nat
         /\ \A i \in 1 .. n : SubSeq(p, 1, n)[i] = p[i]
<1> DEFINE q == SubSeq(p, 1, n)
<1>1. Len(p) \in Nat /\ DOMAIN p = 1 .. Len(p) /\ n \in Nat
  BY LenProperties
<1>2. \A i \in 1 .. n : p[i] \in Range(p)
  BY <1>1 DEF Range
<1>3. q \in Seq(Range(p)) /\ Len(q) = n /\ \A i \in 1 .. n : q[i] = p[i]
  BY <1>1, <1>2, SubSeqProperties
<1> HIDE DEF q
<1>4. DOMAIN q = 1 .. n /\ q \in [1 .. n -> Range(p)]
  BY <1>3, LenProperties
<1>5. q \in [1 .. n -> Range(q)]
  BY <1>4 DEF Range
<1>6. q \in Seq(Range(q))
  BY <1>1, <1>5, SeqDef
<1>7. QED
  BY <1>1, <1>3, <1>4, <1>6 DEF q

(* What was read stays when the path grows. *)
LEMMA CutOfAppended ==
  ASSUME NEW p, p \in Seq(Range(p)), NEW e, NEW n \in 0 .. Len(p)
  PROVE  SubSeq(Append(p, e), 1, n) = SubSeq(p, 1, n)
<1>1. Len(p) \in Nat /\ DOMAIN p = 1 .. Len(p) /\ \A i \in DOMAIN p : Append(p, e)[i] = p[i]
  BY AppendedTo
<1>2. \A i \in 1 .. n : p[i] \in Range(p) /\ Append(p, e)[i] = p[i]
  BY <1>1 DEF Range
<1> DEFINE q == SubSeq(p, 1, n)
           r == SubSeq(Append(p, e), 1, n)
<1>3. q \in Seq(Range(p)) /\ Len(q) = n /\ \A i \in 1 .. n : q[i] = p[i]
  BY <1>1, <1>2, SubSeqProperties
<1>4. \A i \in 1 .. n : Append(p, e)[i] \in Range(p)
  BY <1>2
<1>5. r \in Seq(Range(p)) /\ Len(r) = n /\ \A i \in 1 .. n : r[i] = Append(p, e)[i]
  BY <1>1, <1>4, SubSeqProperties
<1> HIDE DEF q, r
<1>6. q = r
  BY <1>2, <1>3, <1>5, SeqEqual
<1>7. QED
  BY <1>6 DEF q, r

LEMMA CutOfAll ==
  ASSUME NEW p, p \in Seq(Range(p))
  PROVE  SubSeq(p, 1, Len(p)) = p
BY SubSeqFull

-----------------------------------------------------------------------------
(* A sound path with one entry more, and with fewer, is sound. *)

MayFollow(p, e) ==
    /\ Fits(e, Len(p) + 1)
    /\ e.message.answers # NoCall =>
        /\ \E j \in DOMAIN p :
            /\ e.message.answers \in p[j].message.calls
            /\ \A c \in Positions(p, "compaction") : c < j
        /\ \A i \in DOMAIN p : p[i].message.answers # e.message.answers
    /\ e.type = "compaction" => Summarises(p, e, Len(p) + 1)

LEMMA StaysClean ==
  ASSUME NEW p, p \in Seq(Range(p)), NEW e, NEW s \in Nat \ {0}, Clean(p, s),
         e.message.answers # NoCall =>
            \E j \in DOMAIN p : j >= s /\ e.message.answers \in p[j].message.calls
  PROVE  Clean(Append(p, e), s)
<1> DEFINE q == Append(p, e)
<1>1. /\ Len(p) \in Nat /\ DOMAIN p = 1 .. Len(p) /\ DOMAIN q = 1 .. Len(p) + 1
      /\ q[Len(p) + 1] = e /\ \A i \in DOMAIN p : q[i] = p[i]
  BY AppendedTo
<1> HIDE DEF q
<1>2. SUFFICES ASSUME NEW i \in DOMAIN q, i >= s, q[i].message.answers # NoCall
               PROVE  \E j \in s .. i - 1 : q[i].message.answers \in q[j].message.calls
  BY DEF Clean, q
<1>3. CASE i \in DOMAIN p
  <2>1. PICK j \in s .. i - 1 : p[i].message.answers \in p[j].message.calls
    BY <1>1, <1>2, <1>3 DEF Clean
  <2>2. j \in DOMAIN p
    BY <1>1, <1>3
  <2>3. QED
    BY <1>1, <1>3, <2>1, <2>2
<1>4. CASE i = Len(p) + 1
  <2>1. PICK j \in DOMAIN p : j >= s /\ e.message.answers \in p[j].message.calls
    BY <1>1, <1>2, <1>4
  <2>2. j \in s .. i - 1 /\ q[j] = p[j] /\ q[i] = e
    BY <1>1, <1>4, <2>1
  <2>3. QED
    BY <2>1, <2>2
<1>5. QED
  BY <1>1, <1>2, <1>3, <1>4

LEMMA GrowsSound ==
  ASSUME NEW p, PathSound(p), NEW e, MayFollow(p, e)
  PROVE  PathSound(Append(p, e))
<1> DEFINE q == Append(p, e)
           n == Len(p) + 1
<1>0. p \in Seq(Range(p)) /\ \A i \in DOMAIN p : Fits(p[i], i)
  BY DEF PathSound, Entries
<1>1. /\ Len(p) \in Nat /\ DOMAIN p = 1 .. Len(p) /\ DOMAIN q = 1 .. n
      /\ q[n] = e /\ \A i \in DOMAIN p : q[i] = p[i]
      /\ q \in Seq(Range(q)) /\ n \in Nat
  BY <1>0, AppendedTo
<1>2. Fits(e, n)
  BY DEF MayFollow
<1> HIDE DEF q
<1>3. Entries(q)
  <2>1. \A i \in DOMAIN q : Fits(q[i], i)
    <3>1. TAKE i \in DOMAIN q
    <3>2. CASE i \in DOMAIN p
      BY <1>0, <1>1, <3>2
    <3>3. CASE i = n
      BY <1>1, <1>2, <3>3
    <3>4. QED
      BY <1>1, <3>2, <3>3
  <2>2. QED
    BY <1>1, <2>1 DEF Entries
<1>4. Clean(q, 1)
  <2>1. Clean(p, 1)
    BY DEF PathSound
  <2>2. e.message.answers # NoCall =>
            \E j \in DOMAIN p : j >= 1 /\ e.message.answers \in p[j].message.calls
    BY <1>1 DEF MayFollow
  <2>3. QED
    BY <1>0, <2>1, <2>2, StaysClean DEF q
<1>5. AnsweredOnce(q)
  <2>1. SUFFICES ASSUME NEW i \in DOMAIN q, NEW j \in DOMAIN q,
                        q[i].message.answers = q[j].message.answers, q[i].message.answers # NoCall
                 PROVE  i = j
    BY DEF AnsweredOnce
  <2>2. CASE i \in DOMAIN p /\ j \in DOMAIN p
    BY <1>1, <2>1, <2>2 DEF PathSound, AnsweredOnce
  <2>3. CASE i \in DOMAIN p /\ j = n
    BY <1>1, <2>1, <2>3 DEF MayFollow
  <2>4. CASE i = n /\ j \in DOMAIN p
    BY <1>1, <2>1, <2>4 DEF MayFollow
  <2>5. QED
    BY <1>1, <2>2, <2>3, <2>4
<1>6. \A i \in Positions(q, "message") : i < n => i \in Positions(p, "message")
  BY <1>1 DEF Positions
<1>7. Summaries(q)
  <2>1. SUFFICES ASSUME NEW c \in Positions(q, "compaction") PROVE Summarises(q, q[c], c)
    BY DEF Summaries
  <2>2. c \in DOMAIN q /\ q[c].type = "compaction"
    BY DEF Positions
  <2>3. CASE c \in DOMAIN p
    <3>1. c \in Positions(p, "compaction") /\ q[c] = p[c] /\ c \in Nat \ {0} /\ c < n
      BY <1>1, <2>2, <2>3 DEF Positions
    <3>2. Summarises(p, p[c], c) /\ Fits(p[c], c)
      BY <1>0, <2>3, <3>1 DEF PathSound, Summaries
    <3>3. StartAfter(p[c], c) \in Nat \ {0} /\ StartAfter(p[c], c) <= c + 1
      BY <3>1, <3>2 DEF StartAfter, Fits
    <3>4. e.message.answers # NoCall =>
            \E j \in DOMAIN p : j >= StartAfter(p[c], c) /\ e.message.answers \in p[j].message.calls
      <4>1. HAVE e.message.answers # NoCall
      <4>2. PICK j \in DOMAIN p : e.message.answers \in p[j].message.calls /\ c < j
        BY <3>1, <4>1 DEF MayFollow
      <4>3. j >= StartAfter(p[c], c)
        BY <1>1, <3>1, <3>3, <4>2
      <4>4. QED
        BY <4>2, <4>3
    <3>5. Clean(q, StartAfter(p[c], c))
      BY <1>0, <3>2, <3>3, <3>4, StaysClean DEF Summarises, q
    <3>6. \A i \in Positions(q, "message") :
            i < c => i \in p[c].covered \/ i >= StartAfter(p[c], c)
      <4>1. TAKE i \in Positions(q, "message")
      <4>2. HAVE i < c
      <4>3. i \in DOMAIN q
        BY DEF Positions
      <4>4. i < n
        BY <1>1, <3>1, <4>2, <4>3
      <4>5. QED
        BY <1>6, <3>2, <4>2, <4>4 DEF Summarises
    <3>7. QED
      BY <3>1, <3>5, <3>6 DEF Summarises
  <2>4. CASE c = n
    <3>1. q[c] = e /\ e.type = "compaction"
      BY <1>1, <2>2, <2>4
    <3>2. Summarises(p, e, n) /\ e.message.answers = NoCall
      BY <1>2, <3>1 DEF MayFollow, Fits
    <3>3. StartAfter(e, n) \in Nat \ {0}
      BY <1>1, <1>2 DEF StartAfter, Fits
    <3>4. Clean(q, StartAfter(e, n))
      BY <1>0, <3>2, <3>3, StaysClean DEF Summarises, q
    <3>5. QED
      BY <1>6, <2>4, <3>1, <3>2, <3>4 DEF Summarises
  <2>5. QED
    BY <1>1, <2>2, <2>3, <2>4
<1>8. PathSound(q)
  BY <1>3, <1>4, <1>5, <1>7 DEF PathSound
<1>9. QED
  BY <1>8 DEF q

LEMMA ShrinksSound ==
  ASSUME NEW p, PathSound(p), NEW n \in 0 .. Len(p)
  PROVE  PathSound(SubSeq(p, 1, n))
<1> DEFINE q == SubSeq(p, 1, n)
<1>0. p \in Seq(Range(p)) /\ \A i \in DOMAIN p : Fits(p[i], i)
  BY DEF PathSound, Entries
<1>1. /\ Len(p) \in Nat /\ DOMAIN p = 1 .. Len(p) /\ DOMAIN q = 1 .. n
      /\ \A i \in 1 .. n : q[i] = p[i]
      /\ q \in Seq(Range(q)) /\ n \in Nat
  BY <1>0, CutTo
<1> HIDE DEF q
<1>2. DOMAIN q \subseteq DOMAIN p
  BY <1>1
<1>3. Entries(q)
  BY <1>0, <1>1, <1>2 DEF Entries
<1>4. ASSUME NEW s \in Nat \ {0}, Clean(p, s) PROVE Clean(q, s)
  <2>1. SUFFICES ASSUME NEW i \in DOMAIN q, i >= s, q[i].message.answers # NoCall
                 PROVE  \E j \in s .. i - 1 : q[i].message.answers \in q[j].message.calls
    BY DEF Clean
  <2>2. i \in DOMAIN p /\ q[i] = p[i]
    BY <1>1, <1>2
  <2>3. PICK j \in s .. i - 1 : p[i].message.answers \in p[j].message.calls
    BY <1>4, <2>1, <2>2 DEF Clean
  <2>4. q[j] = p[j]
    BY <1>1, <2>3
  <2>5. QED
    BY <2>2, <2>3, <2>4
<1>5. AnsweredOnce(q)
  BY <1>1, <1>2 DEF PathSound, AnsweredOnce
<1>6. Summaries(q)
  <2>1. SUFFICES ASSUME NEW c \in Positions(q, "compaction") PROVE Summarises(q, q[c], c)
    BY DEF Summaries
  <2>2. c \in DOMAIN q /\ q[c] = p[c] /\ c \in Positions(p, "compaction")
    BY <1>1, <1>2 DEF Positions
  <2>3. Summarises(p, p[c], c) /\ Fits(p[c], c) /\ c \in Nat
    BY <1>0, <1>1, <1>2, <2>2 DEF PathSound, Summaries
  <2>4. StartAfter(p[c], c) \in Nat \ {0}
    BY <2>3 DEF StartAfter, Fits
  <2>5. Positions(q, "message") \subseteq Positions(p, "message")
    BY <1>1, <1>2 DEF Positions
  <2>6. QED
    BY <1>4, <2>2, <2>3, <2>4, <2>5 DEF Summarises
<1>7. PathSound(q)
  BY <1>3, <1>4, <1>5, <1>6 DEF PathSound
<1>8. QED
  BY <1>7 DEF q

(* Messages that answer nothing may follow any path. *)
LEMMA PlainFollows ==
  ASSUME NEW p, PathSound(p), NEW t \in {"message", "branch"}, NEW s
  PROVE  MayFollow(p, PathEntry(t, User(s))) /\ MayFollow(p, PathEntry(t, Assistant({}, s, 0)))
<1>1. Len(p) \in Nat
  BY LenProperties DEF PathSound, Entries
<1>2. QED
  BY <1>1 DEF MayFollow, Fits, PathEntry, User, Assistant, NoCall

-----------------------------------------------------------------------------
(* Positions in order, and where a conversation may be cut. *)

LEMMA LeastOf ==
  ASSUME NEW S, S \subseteq Nat, S # {}
  PROVE  Min(S) \in S /\ \A x \in S : Min(S) <= x
<1> DEFINE R == OpToRel(<, Nat)
<1>1. IsWellFoundedOn(R, Nat)
  BY NatLessThanWellFounded
<1> HIDE DEF R
<1>2. \E x \in S : \A y \in S : ~ (<<y, x>> \in R)
  BY <1>1, WFMin
<1>3. ASSUME NEW y \in Nat, NEW x \in Nat, ~ (<<y, x>> \in R) PROVE x =< y
  BY <1>3 DEF R, OpToRel
<1>4. \E x \in S : \A y \in S : x =< y
  BY <1>2, <1>3
<1>5. QED
  BY <1>4 DEF Min

LEMMA GreatestOf ==
  ASSUME NEW S, NEW n \in Nat, S \subseteq 0 .. n, S # {}
  PROVE  Max(S) \in S /\ \A x \in S : x <= Max(S)
<1> DEFINE T == {n - x : x \in S}
<1>0. \A x \in S : x \in Nat /\ n - x \in Nat
  OBVIOUS
<1>1. T \subseteq Nat /\ T # {}
  BY <1>0
<1>2. Min(T) \in T /\ \A y \in T : Min(T) <= y
  BY <1>1, LeastOf
<1>3. PICK x \in S : Min(T) = n - x
  BY <1>2
<1>4. \A y \in S : n - y \in T
  OBVIOUS
<1> HIDE DEF T
<1>5. \A y \in S : x >= y
  BY <1>2, <1>3, <1>4
<1>6. QED
  BY <1>5 DEF Max

LEMMA InOrderFacts ==
  ASSUME NEW S, S \subseteq Nat, IsFiniteSet(S)
  PROVE  /\ Cardinality(S) \in Nat
         /\ InOrder(S) \in [1 .. Cardinality(S) -> S]
         /\ \A i \in S : \E k \in 1 .. Cardinality(S) : InOrder(S)[k] = i
         /\ \A k, l \in 1 .. Cardinality(S) : k < l => InOrder(S)[k] < InOrder(S)[l]
<1> DEFINE n == Cardinality(S)
           Upto(i) == {j \in S : j <= i}
           r == [i \in S |-> Cardinality(Upto(i))]
<1>1. n \in Nat /\ IsFiniteSet(1 .. n) /\ Cardinality(1 .. n) = n
  BY FS_CardinalityType, FS_Interval
<1>2. \A i \in S : /\ IsFiniteSet(Upto(i)) /\ Cardinality(Upto(i)) \in Nat
                   /\ Cardinality(Upto(i)) <= n /\ Cardinality(Upto(i)) >= 1
  <2>1. TAKE i \in S
  <2>2. Upto(i) \in SUBSET S /\ i \in Upto(i)
    OBVIOUS
  <2> HIDE DEF Upto
  <2>3. IsFiniteSet(Upto(i)) /\ Cardinality(Upto(i)) <= n
    BY <2>2, FS_Subset
  <2>4. Cardinality(Upto(i)) \in Nat /\ Cardinality(Upto(i)) # 0
    BY <2>2, <2>3, FS_CardinalityType, FS_EmptySet
  <2>5. QED
    BY <2>3, <2>4
<1>3. \A i, j \in S : i < j => Cardinality(Upto(i)) < Cardinality(Upto(j))
  <2>1. SUFFICES ASSUME NEW i \in S, NEW j \in S, i < j
                 PROVE  Cardinality(Upto(i)) < Cardinality(Upto(j))
    OBVIOUS
  <2>2. Upto(i) \in SUBSET Upto(j) /\ j \in Upto(j) /\ j \notin Upto(i)
    <3>1. \A x \in S : x \in Nat
      OBVIOUS
    <3>2. \A x \in S : x <= i => x <= j
      BY <2>1, <3>1
    <3>3. ~ (j <= i) /\ j <= j
      BY <2>1, <3>1
    <3>4. QED
      BY <3>2, <3>3
  <2> HIDE DEF Upto
  <2>3. Cardinality(Upto(i)) <= Cardinality(Upto(j)) /\ Cardinality(Upto(i)) # Cardinality(Upto(j))
    BY <1>2, <2>2, FS_Subset
  <2>4. QED
    BY <1>2, <2>3
<1> HIDE DEF Upto
<1>4. r \in Injection(S, 1 .. n)
  <2>1. r \in [S -> 1 .. n]
    BY <1>1, <1>2
  <2>2. \A i, j \in S : r[i] = r[j] => i = j
    <3>1. SUFFICES ASSUME NEW i \in S, NEW j \in S, i # j PROVE r[i] # r[j]
      OBVIOUS
    <3>2. i < j \/ j < i
      BY <3>1
    <3>3. r[i] < r[j] \/ r[j] < r[i]
      BY <1>3, <3>2
    <3>4. r[i] \in Nat /\ r[j] \in Nat
      BY <1>2
    <3>5. QED
      BY <3>3, <3>4
  <2>3. QED
    BY <2>1, <2>2 DEF Injection, IsInjective
<1>5. r \in Surjection(S, 1 .. n)
  BY <1>1, <1>4, FS_Injection
<1>6. \A k \in 1 .. n : \E i \in S : Cardinality(Upto(i)) = k
  BY <1>5 DEF Surjection
<1>7. InOrder(S) = [k \in 1 .. n |-> CHOOSE i \in S : Cardinality(Upto(i)) = k]
  BY DEF InOrder, Upto
<1>8. \A k \in 1 .. n : InOrder(S)[k] \in S /\ Cardinality(Upto(InOrder(S)[k])) = k
  BY <1>6, <1>7
<1>9. InOrder(S) \in [1 .. n -> S]
  BY <1>7, <1>8
<1>10. ASSUME NEW i \in S PROVE \E k \in 1 .. n : InOrder(S)[k] = i
  <2>1. Cardinality(Upto(i)) \in 1 .. n
    BY <1>1, <1>2
  <2>2. PICK k \in 1 .. n : k = Cardinality(Upto(i))
    BY <2>1
  <2>3. r[InOrder(S)[k]] = r[i]
    BY <1>8, <2>2
  <2>4. InOrder(S)[k] = i
    BY <1>4, <1>8, <2>3 DEF Injection, IsInjective
  <2>5. QED
    BY <2>4
<1>11. ASSUME NEW k \in 1 .. n, NEW l \in 1 .. n, k < l PROVE InOrder(S)[k] < InOrder(S)[l]
  <2>1. PICK i \in S, j \in S : i = InOrder(S)[k] /\ j = InOrder(S)[l]
    BY <1>8
  <2>2. Cardinality(Upto(i)) = k /\ Cardinality(Upto(j)) = l
    BY <1>8, <2>1
  <2>3. ~ (j <= i)
    BY <1>3, <1>11, <2>2
  <2>4. QED
    BY <2>1, <2>3
<1>12. QED
  BY <1>1, <1>9, <1>10, <1>11

(* find_cut_point returns a place where no call waits for its result, or the end, or none. *)
LEMMA CutIsSafe ==
  ASSUME NEW m, Len(m) \in Nat, NEW keep
  PROVE  /\ CutPoint(m, keep) \in 0 .. Len(m)
         /\ \/ CutPoint(m, keep) \in {0, Len(m)}
            \/ Pending(m, CutPoint(m, keep)) = {}
<1>1. /\ Candidates(m) \subseteq 1 .. Len(m) /\ Candidates(m) \subseteq Nat
      /\ \A c \in Candidates(m) : Pending(m, c) = {}
  BY DEF Candidates, SafeCuts
<1>2. ASSUME Candidates(m) # {}
      PROVE  FirstSafe(m, keep) \in Candidates(m) \cup {Len(m)}
  <2>1. Min(Candidates(m)) \in Candidates(m)
    BY <1>1, <1>2, LeastOf
  <2>2. PICK after : after = SafeFrom(m, Max(Crossing(m, keep)))
    OBVIOUS
  <2>3. after \subseteq Candidates(m)
    BY <2>2 DEF SafeFrom
  <2>4. after # {} => Min(after) \in Candidates(m)
    BY <1>1, <2>3, LeastOf
  <2>5. FirstSafe(m, keep) = IF Crossing(m, keep) = {} THEN Min(Candidates(m))
                             ELSE IF after = {} THEN Len(m) ELSE Min(after)
    BY <2>2 DEF FirstSafe
  <2>6. QED
    BY <2>1, <2>4, <2>5
<1>3. CutPoint(m, keep) \in Candidates(m) \cup {0, Len(m)}
  <2>1. CASE Candidates(m) = {}
    BY <2>1 DEF CutPoint
  <2>2. CASE Candidates(m) # {}
    <3>1. PICK c : c = FirstSafe(m, keep)
      OBVIOUS
    <3>2. CutPoint(m, keep) = IF KeepsTurn(m, keep, c) THEN TurnStart(m, c) ELSE c
      BY <2>2, <3>1 DEF CutPoint
    <3>3. KeepsTurn(m, keep, c) => TurnStart(m, c) \in Candidates(m)
      BY DEF KeepsTurn
    <3>4. QED
      BY <1>2, <2>2, <3>1, <3>2, <3>3
  <2>3. QED
    BY <2>1, <2>2
<1>4. QED
  BY <1>1, <1>3

Count(p) == Cardinality(Positions(p, "message"))

LEMMA ConversationOf ==
  ASSUME NEW p, PathSound(p)
  PROVE  /\ Count(p) \in Nat
         /\ MessagePositions(p) \in [1 .. Count(p) -> Positions(p, "message")]
         /\ Len(MessagePositions(p)) = Count(p)
         /\ \A i \in Positions(p, "message") : \E x \in 1 .. Count(p) : MessagePositions(p)[x] = i
         /\ \A x, y \in 1 .. Count(p) : x < y => MessagePositions(p)[x] < MessagePositions(p)[y]
         /\ MessagesOf(p) \in Seq(Range(MessagesOf(p)))
         /\ Len(MessagesOf(p)) = Count(p)
         /\ \A x \in 1 .. Count(p) : MessagesOf(p)[x] = p[MessagePositions(p)[x]].message
         /\ Positions(p, "message") \subseteq 1 .. Len(p)
<1> DEFINE S == Positions(p, "message")
           m == MessagesOf(p)
           at == MessagePositions(p)
<1>1. Len(p) \in Nat /\ DOMAIN p = 1 .. Len(p)
  BY LenProperties DEF PathSound, Entries
<1>2. S \subseteq 1 .. Len(p)
  BY <1>1 DEF Positions
<1>3. S \subseteq Nat /\ IsFiniteSet(S)
  <2>1. IsFiniteSet(1 .. Len(p))
    BY <1>1, FS_Interval
  <2>2. QED
    BY <1>2, <2>1, FS_Subset
<1>4. /\ Count(p) \in Nat /\ at \in [1 .. Count(p) -> S]
      /\ \A i \in S : \E x \in 1 .. Count(p) : at[x] = i
      /\ \A x, y \in 1 .. Count(p) : x < y => at[x] < at[y]
  <2> HIDE DEF S
  <2>1. at = InOrder(S) /\ Count(p) = Cardinality(S)
    BY DEF MessagePositions, Count, S
  <2> HIDE DEF at
  <2>2. QED
    BY <1>3, <2>1, InOrderFacts
<1> HIDE DEF at
<1>5. Len(at) = Count(p)
  <2>1. at \in Seq(S)
    BY <1>4, SeqDef
  <2>2. QED
    BY <1>4, <2>1, LenProperties
<1>6. m = [x \in 1 .. Count(p) |-> p[at[x]].message]
  BY <1>4 DEF MessagesOf, at
<1> HIDE DEF m
<1>7. DOMAIN m = 1 .. Count(p) /\ \A x \in 1 .. Count(p) : m[x] = p[at[x]].message
  BY <1>6
<1>8. m \in [1 .. Count(p) -> Range(m)]
  BY <1>6, <1>7 DEF Range
<1>9. m \in Seq(Range(m))
  BY <1>4, <1>8, SeqDef
<1>10. Len(m) = Count(p)
  BY <1>4, <1>7, <1>9, LenProperties
<1>11. QED
  BY <1>2, <1>4, <1>5, <1>7, <1>9, <1>10 DEF at, m

(* No call before a safe place is answered after it. *)
LEMMA SafePlace ==
  ASSUME NEW p, PathSound(p), NEW c \in 0 .. Count(p),
         c \in {0, Count(p)} \/ Pending(MessagesOf(p), c) = {},
         NEW x \in 1 .. c, NEW y \in c + 1 .. Count(p)
  PROVE  MessagesOf(p)[y].answers \notin MessagesOf(p)[x].calls
<1> DEFINE m == MessagesOf(p)
           at == MessagePositions(p)
<1>1. /\ Count(p) \in Nat /\ at \in [1 .. Count(p) -> Positions(p, "message")]
      /\ \A i, j \in 1 .. Count(p) : i < j => at[i] < at[j]
      /\ \A i \in 1 .. Count(p) : m[i] = p[at[i]].message
      /\ Positions(p, "message") \subseteq DOMAIN p
  BY ConversationOf DEF Positions
<1> HIDE DEF m, at
<1>2. SUFFICES ASSUME m[y].answers \in m[x].calls PROVE FALSE
  BY DEF m
<1>3. x \in 1 .. Count(p) /\ y \in 1 .. Count(p) /\ Pending(m, c) = {}
  BY <1>1 DEF m
<1>4. m[y].answers \in Made(m, c)
  BY <1>2 DEF Made
<1>5. m[y].answers \in Answered(m, c)
  BY <1>3, <1>4 DEF Pending
<1>6. PICK z \in 1 .. c : m[z].answers = m[y].answers
  BY <1>5 DEF Answered
<1>7. z \in 1 .. Count(p) /\ z < y
  BY <1>1
<1>8. at[z] \in DOMAIN p /\ at[y] \in DOMAIN p /\ at[x] \in DOMAIN p
  BY <1>1, <1>3, <1>7
<1>9. p[at[z]].message.answers = p[at[y]].message.answers
  BY <1>1, <1>3, <1>6, <1>7
<1>10. p[at[y]].message.answers # NoCall
  <2>1. m[y].answers \in p[at[x]].message.calls /\ Fits(p[at[x]], at[x]) /\ at[x] \in Nat \ {0}
    <3>1. at[x] \in 1 .. Len(p)
      BY <1>1, <1>3, ConversationOf
    <3>2. QED
      BY <1>1, <1>2, <1>3, <1>8, <3>1 DEF PathSound, Entries
  <2>2. m[y].answers # NoCall
    BY <2>1 DEF Fits, NoCall
  <2>3. QED
    BY <1>1, <1>3, <2>2
<1>11. at[z] = at[y]
  BY <1>8, <1>9, <1>10 DEF PathSound, AnsweredOnce
<1>12. at[z] < at[y]
  BY <1>1, <1>3, <1>7
<1>13. at[z] \in 1 .. Len(p) /\ at[y] \in 1 .. Len(p)
  BY <1>1, <1>3, <1>7, ConversationOf
<1>14. QED
  BY <1>11, <1>12, <1>13

LEMMA CleanFromCut ==
  ASSUME NEW p, PathSound(p), NEW c \in 1 .. Count(p), c < Count(p),
         Pending(MessagesOf(p), c) = {}
  PROVE  Clean(p, MessagePositions(p)[c + 1])
<1> DEFINE m == MessagesOf(p)
           at == MessagePositions(p)
<1>1. /\ Count(p) \in Nat /\ at \in [1 .. Count(p) -> Positions(p, "message")]
      /\ \A i, j \in 1 .. Count(p) : i < j => at[i] < at[j]
      /\ \A i \in 1 .. Count(p) : m[i] = p[at[i]].message
      /\ \A i \in Positions(p, "message") : \E x \in 1 .. Count(p) : at[x] = i
      /\ Positions(p, "message") \subseteq 1 .. Len(p)
  BY ConversationOf
<1>2. Len(p) \in Nat /\ DOMAIN p = 1 .. Len(p) /\ \A i \in DOMAIN p : Fits(p[i], i)
  BY LenProperties DEF PathSound, Entries
<1> HIDE DEF at
<1>3. SUFFICES ASSUME NEW i \in DOMAIN p, i >= at[c + 1], p[i].message.answers # NoCall
               PROVE  \E j \in at[c + 1] .. i - 1 : p[i].message.answers \in p[j].message.calls
  BY DEF Clean, at
<1>4. PICK j \in 1 .. i - 1 : p[i].message.answers \in p[j].message.calls
  BY <1>2, <1>3 DEF PathSound, Clean
<1>5. j \in DOMAIN p /\ i \in Positions(p, "message") /\ j \in Positions(p, "message")
  <2>1. j \in DOMAIN p
    BY <1>2
  <2>2. p[i].type = "message" /\ p[j].type = "message"
    BY <1>2, <1>3, <1>4, <2>1 DEF Fits
  <2>3. QED
    BY <2>1, <2>2 DEF Positions
<1>6. PICK x \in 1 .. Count(p), y \in 1 .. Count(p) : at[x] = j /\ at[y] = i
  BY <1>1, <1>5
<1>7. c + 1 \in 1 .. Count(p) /\ at[c + 1] \in Nat /\ at[x] \in Nat /\ at[y] \in Nat
  <2>1. \A z \in 1 .. Count(p) : at[z] \in 1 .. Len(p)
    BY <1>1
  <2>2. c + 1 \in 1 .. Count(p)
    BY <1>1
  <2>3. QED
    BY <1>2, <2>1, <2>2
<1>8. y >= c + 1
  <2>1. y < c + 1 => at[y] < at[c + 1]
    BY <1>1, <1>7
  <2>2. QED
    BY <1>1, <1>3, <1>6, <1>7, <2>1
<1>9. x >= c + 1
  <2>1. SUFFICES ASSUME x <= c PROVE FALSE
    BY <1>1
  <2>2. x \in 1 .. c /\ y \in c + 1 .. Count(p) /\ c \in 0 .. Count(p)
    BY <1>1, <1>8, <2>1
  <2>3. m[y].answers \notin m[x].calls
    BY <2>2, SafePlace
  <2>4. QED
    BY <1>1, <1>4, <1>6, <2>3
<1>10. at[x] >= at[c + 1]
  <2>1. x = c + 1 \/ c + 1 < x
    BY <1>1, <1>9
  <2>2. QED
    BY <1>1, <1>7, <2>1
<1>11. QED
  BY <1>4, <1>6, <1>7, <1>10

(* What a task has read when it has found a place to cut. *)
LEMMA FoundPlace ==
  ASSUME NEW p, PathSound(p), NEW keep, NEW c, c = CutPoint(MessagesOf(p), keep), c > 0,
         NEW k, k = IF c < Count(p) THEN MessagePositions(p)[c + 1] ELSE 0
  PROVE  /\ c \in 1 .. Count(p)
         /\ k \in 0 .. Len(p)
         /\ k # 0 => Clean(p, k)
         /\ \A i \in Positions(p, "message") :
                i \in {MessagePositions(p)[x] : x \in 1 .. c} \/ (k # 0 /\ i >= k)
<1> DEFINE m == MessagesOf(p)
           at == MessagePositions(p)
<1>1. /\ Count(p) \in Nat /\ at \in [1 .. Count(p) -> Positions(p, "message")]
      /\ \A i, j \in 1 .. Count(p) : i < j => at[i] < at[j]
      /\ \A i \in Positions(p, "message") : \E x \in 1 .. Count(p) : at[x] = i
      /\ Positions(p, "message") \subseteq 1 .. Len(p)
      /\ Len(m) = Count(p)
  BY ConversationOf
<1>2. Len(p) \in Nat
  BY LenProperties DEF PathSound, Entries
<1>3. c \in 0 .. Count(p) /\ (c \in {0, Count(p)} \/ Pending(m, c) = {})
  BY <1>1, CutIsSafe
<1>4. c \in 1 .. Count(p) /\ c \in Nat
  BY <1>1, <1>3
<1> HIDE DEF m, at
<1>5. CASE c < Count(p)
  <2>1. c + 1 \in 1 .. Count(p) /\ k = at[c + 1]
    BY <1>1, <1>4, <1>5 DEF at
  <2>2. k \in 1 .. Len(p)
    BY <1>1, <2>1
  <2>3. Clean(p, k)
    <3>1. Pending(MessagesOf(p), c) = {}
      BY <1>3, <1>4, <1>5 DEF m
    <3>2. QED
      BY <1>4, <1>5, <2>1, <3>1, CleanFromCut DEF at
  <2>4. ASSUME NEW i \in Positions(p, "message")
        PROVE  i \in {at[x] : x \in 1 .. c} \/ i >= k
    <3>1. PICK x \in 1 .. Count(p) : at[x] = i
      BY <1>1
    <3>2. x \in 1 .. c \/ x = c + 1 \/ c + 1 < x
      BY <1>1, <1>4
    <3>3. at[x] \in Nat /\ at[c + 1] \in Nat
      <4>1. at[x] \in 1 .. Len(p) /\ at[c + 1] \in 1 .. Len(p)
        BY <1>1, <2>1
      <4>2. QED
        BY <1>2, <4>1
    <3>4. c + 1 < x => at[c + 1] < at[x]
      BY <1>1, <2>1
    <3>5. QED
      BY <2>1, <3>1, <3>2, <3>3, <3>4
  <2>5. QED
    BY <1>2, <1>4, <2>2, <2>3, <2>4 DEF at
<1>6. CASE ~ (c < Count(p))
  <2>1. k = 0 /\ c = Count(p)
    BY <1>1, <1>3, <1>6
  <2>2. \A i \in Positions(p, "message") : i \in {at[x] : x \in 1 .. c}
    BY <1>1, <2>1
  <2>3. QED
    BY <1>2, <1>4, <2>1, <2>2 DEF at
<1>7. QED
  BY <1>5, <1>6

-----------------------------------------------------------------------------
(* The steps of the run: nobody compacts meanwhile. *)

Resting == \A w \in Workers : stage[w] \notin Busy

LEMMA PathIsSequence ==
  ASSUME PathSound(path)
  PROVE  /\ path \in Seq(Range(path)) /\ Len(path) \in Nat /\ DOMAIN path = 1 .. Len(path)
         /\ \A i \in DOMAIN path : Fits(path[i], i)
BY LenProperties DEF PathSound, Entries

LEMMA Uninterested ==
  ASSUME TasksInv, \/ phase \notin {"idle", "boundary"}
                   \/ phase = "idle" /\ AllIdle(Manuals)
                   \/ phase = "boundary" /\ \A w \in Controllers : stage[w] \in {"done", "failed"}
  PROVE  Resting
<1>1. SUFFICES ASSUME NEW w \in Workers PROVE stage[w] \notin Busy
  BY DEF Resting
<1>2. CASE w \in Controllers
  BY <1>2 DEF TasksInv, Busy
<1>3. CASE w \in Manuals
  BY <1>3 DEF TasksInv, Busy, AllIdle
<1>4. QED
  BY <1>2, <1>3 DEF Workers

(* What is said of the run, when it owes nothing. *)
LEMMA RestKept ==
  ASSUME WorkInv, work' = work, Resting'
  PROVE  WorkInv'
BY DEF WorkInv, Resting

LEMMA CallsAreEarly ==
  ASSUME PathSound(path), NEW i \in DOMAIN path
  PROVE  path[i].message.answers = NoCall \/ path[i].message.answers \in 1 .. 2 * Len(path)
<1>1. Len(path) \in Nat /\ DOMAIN path = 1 .. Len(path) /\ \A j \in DOMAIN path : Fits(path[j], j)
  BY PathIsSequence
<1>2. SUFFICES ASSUME path[i].message.answers # NoCall
               PROVE  path[i].message.answers \in 1 .. 2 * Len(path)
  OBVIOUS
<1>3. PICK j \in 1 .. i - 1 : path[i].message.answers \in path[j].message.calls
  BY <1>1, <1>2 DEF PathSound, Clean
<1>4. j \in 1 .. Len(path) /\ path[j].message.calls \subseteq {2 * (j - 1) + 1, 2 * (j - 1) + 2}
  <2>1. j \in 1 .. Len(path)
    BY <1>1
  <2>2. Fits(path[j], j)
    BY <1>1, <2>1
  <2>3. QED
    BY <2>1, <2>2 DEF Fits
<1>5. \A a \in {2 * (j - 1) + 1, 2 * (j - 1) + 2} : a \in 1 .. 2 * Len(path)
  BY <1>1, <1>4
<1>6. QED
  BY <1>3, <1>4, <1>5

LEMMA InitCompaction == CompactionInit => CompactionInv
<1>1. SUFFICES ASSUME CompactionInit PROVE CompactionInv
  OBVIOUS
<1>2. path = << >> /\ path \in Seq(Range(path))
  BY <1>1 DEF CompactionInit
<1>3. DOMAIN path = {}
  BY <1>2
<1>4. PathSound(path)
  BY <1>2, <1>3 DEF PathSound, Entries, Clean, AnsweredOnce, Summaries, Positions
<1>5. RunInv
  BY <1>1 DEF CompactionInit, RunInv
<1>6. stage = [w \in Workers |-> "idle"] /\ work = [w \in Workers |-> NoWork] /\ phase = "idle"
  BY <1>1 DEF CompactionInit
<1>7. TasksInv
  BY <1>6 DEF TasksInv, Stages, Workers
<1>8. WorkInv
  <2>1. NoWork \in [seen : Nat, cut : Nat, reply : {"none", "empty", "text"}, attempts : Nat]
    BY DEF NoWork
  <2>2. \A w \in Workers : stage[w] \notin Busy
    BY <1>6 DEF Busy
  <2>3. QED
    BY <1>6, <2>1, <2>2 DEF WorkInv, Works
<1>9. QED
  BY <1>4, <1>5, <1>7, <1>8 DEF CompactionInv

LEMMA PromptKeeps == ASSUME CompactionInv, ~ Overlap, Prompt PROVE CompactionInv'
<1>1. PICK s \in Sizes : path' = Append(path, PathEntry("message", User(s)))
  BY DEF Prompt, Add
<1>2. PathSound(path')
  BY <1>1, PlainFollows, GrowsSound DEF CompactionInv
<1>3. phase = "idle" /\ AllIdle(Manuals) /\ phase' = "request" /\ batch' = batch /\ stage' = stage /\ work' = work
  BY DEF Prompt, taskVars
<1>4. RunInv'
  BY <1>3 DEF CompactionInv, RunInv
<1>5. \A w \in Workers : stage[w] = "idle"
  BY <1>3 DEF CompactionInv, TasksInv, Workers, AllIdle
<1>6. TasksInv'
  BY <1>3, <1>5 DEF CompactionInv, TasksInv, Workers
<1>7. Resting'
  BY <1>3, <1>5 DEF Resting, Busy
<1>8. WorkInv'
  BY <1>3, <1>7, RestKept DEF CompactionInv
<1>9. QED
  BY <1>2, <1>4, <1>6, <1>8 DEF CompactionInv

LEMMA AnswerFollows ==
  ASSUME PathSound(path), NEW n \in 0 .. 2, NEW s, NEW u
  PROVE  /\ MayFollow(path, PathEntry("message", Assistant(CallIds(n), s, u)))
         /\ \A i \in DOMAIN path : path[i].message.answers \notin CallIds(n)
         /\ NoCall \notin CallIds(n) /\ (n # 0 => CallIds(n) # {})
<1>1. Len(path) \in Nat
  BY PathIsSequence
<1>2. CallIds(n) = {2 * Len(path) + k : k \in 1 .. n}
  BY DEF CallIds
<1>3. ASSUME NEW a \in CallIds(n)
      PROVE  a \in {2 * Len(path) + 1, 2 * Len(path) + 2} /\ a # NoCall /\ a \notin 1 .. 2 * Len(path)
  <2>1. PICK k \in 1 .. n : a = 2 * Len(path) + k
    BY <1>2
  <2>2. k = 1 \/ k = 2
    OBVIOUS
  <2>3. QED
    BY <1>1, <2>1, <2>2 DEF NoCall
<1>4. Fits(PathEntry("message", Assistant(CallIds(n), s, u)), Len(path) + 1)
  <2>1. CallIds(n) \subseteq {2 * (Len(path) + 1 - 1) + 1, 2 * (Len(path) + 1 - 1) + 2}
    BY <1>1, <1>3
  <2>2. QED
    BY <1>1, <2>1 DEF Fits, PathEntry, Assistant
<1>5. \A i \in DOMAIN path : path[i].message.answers \notin CallIds(n)
  BY <1>3, CallsAreEarly
<1>6. n # 0 => CallIds(n) # {}
  <2>1. HAVE n # 0
  <2>2. 2 * Len(path) + 1 \in CallIds(n)
    BY <1>2, <2>1
  <2>3. QED
    BY <2>2
<1>7. NoCall \notin CallIds(n)
  BY <1>3
<1>8. QED
  BY <1>4, <1>5, <1>6, <1>7 DEF MayFollow, PathEntry, Assistant

LEMMA ReplyKeeps == ASSUME CompactionInv, Reply PROVE CompactionInv'
<1>1. PICK n \in 0 .. 2, s \in Sizes, reported \in BOOLEAN :
        /\ path' = Append(path, PathEntry("message", Assistant(CallIds(n), s, IF reported THEN Usage(s) ELSE 0)))
        /\ batch' = CallIds(n)
        /\ phase' \in IF n = 0 THEN {"idle", "boundary"} ELSE {"tools"}
  BY DEF Reply, Add
<1>2. PICK e : e = PathEntry("message", Assistant(CallIds(n), s, IF reported THEN Usage(s) ELSE 0))
  OBVIOUS
<1>3. path' = Append(path, e) /\ MayFollow(path, e) /\ PathSound(path)
  BY <1>1, <1>2, AnswerFollows DEF CompactionInv
<1>4. PathSound(path')
  BY <1>3, GrowsSound
<1>5. e.message.calls = CallIds(n) /\ e.message.answers = NoCall /\ e.type = "message"
  BY <1>2 DEF PathEntry, Assistant
<1>6. RunInv'
  <2>1. CASE n = 0
    <3>1. CallIds(n) = {}
      BY <2>1 DEF CallIds
    <3>2. QED
      BY <1>1, <2>1, <3>1 DEF RunInv
  <2>2. CASE n # 0
    <3>1. phase' = "tools" /\ batch' # {}
      BY <1>1, <1>3, <2>2, AnswerFollows
    <3>2. /\ Len(path) \in Nat /\ DOMAIN path = 1 .. Len(path) /\ DOMAIN path' = 1 .. Len(path) + 1
          /\ path'[Len(path) + 1] = e /\ \A i \in DOMAIN path : path'[i] = path[i]
      BY <1>3, PathIsSequence, AppendedTo
    <3>3. batch' \subseteq path'[Len(path) + 1].message.calls
      BY <1>1, <1>5, <3>2
    <3>4. \A i \in DOMAIN path' : path'[i].message.answers \notin batch'
      <4>1. TAKE i \in DOMAIN path'
      <4>2. CASE i \in DOMAIN path
        BY <1>1, <1>3, <3>2, <4>2, AnswerFollows
      <4>3. CASE i = Len(path) + 1
        BY <1>1, <1>3, <1>5, <3>2, <4>3, AnswerFollows
      <4>4. QED
        BY <3>2, <4>2, <4>3
    <3>5. \A c \in Positions(path', "compaction") : c < Len(path) + 1
      <4>1. TAKE c \in Positions(path', "compaction")
      <4>2. c \in DOMAIN path' /\ path'[c].type = "compaction"
        BY DEF Positions
      <4>3. c # Len(path) + 1
        BY <1>5, <3>2, <4>2
      <4>4. QED
        BY <3>2, <4>2, <4>3
    <3>6. Len(path) + 1 \in DOMAIN path'
      BY <3>2
    <3>7. QED
      BY <3>1, <3>3, <3>4, <3>5, <3>6 DEF RunInv
  <2>3. QED
    BY <2>1, <2>2
<1>7. phase = "request" /\ stage' = stage /\ work' = work
  BY DEF Reply, taskVars
<1>8. TasksInv'
  BY <1>7 DEF CompactionInv, TasksInv
<1>9. Resting'
  BY <1>7, Uninterested DEF CompactionInv, Resting
<1>10. WorkInv'
  BY <1>7, <1>9, RestKept DEF CompactionInv
<1>11. QED
  BY <1>4, <1>6, <1>8, <1>10 DEF CompactionInv

LEMMA ResultKeeps == ASSUME CompactionInv, Result PROVE CompactionInv'
<1>1. PICK s \in Sizes : path' = Append(path, PathEntry("message", ToolResult(Min(batch), s)))
  BY DEF Result, Add
<1>2. PICK e : e = PathEntry("message", ToolResult(Min(batch), s))
  OBVIOUS
<1>3. /\ path' = Append(path, e) /\ e.message.answers = Min(batch) /\ e.message.calls = {}
      /\ e.type = "message" /\ e.message.role = "toolResult" /\ e.kept = 0
  BY <1>1, <1>2 DEF PathEntry, ToolResult
<1>4. /\ phase = "tools" /\ batch' = batch \ {Min(batch)} /\ stage' = stage /\ work' = work
      /\ phase' = IF Cardinality(batch) = 1 THEN "boundary" ELSE "tools"
  BY DEF Result, taskVars
<1>5. PathSound(path) /\ RunInv /\ TasksInv /\ WorkInv
  BY DEF CompactionInv
<1>6. PICK j \in DOMAIN path :
        /\ batch \subseteq path[j].message.calls
        /\ \A i \in DOMAIN path : path[i].message.answers \notin batch
        /\ \A c \in Positions(path, "compaction") : c < j
  BY <1>4, <1>5 DEF RunInv
<1>7. Len(path) \in Nat /\ DOMAIN path = 1 .. Len(path) /\ Fits(path[j], j)
  BY <1>5, PathIsSequence
<1>8. batch \subseteq {2 * (j - 1) + 1, 2 * (j - 1) + 2} /\ j \in 1 .. Len(path)
  BY <1>6, <1>7 DEF Fits
<1>9. batch \subseteq Nat \ {0} /\ IsFiniteSet(batch)
  <2>1. IsFiniteSet(2 * (j - 1) + 1 .. 2 * (j - 1) + 2)
    BY <1>7, <1>8, FS_Interval
  <2>2. batch \subseteq 2 * (j - 1) + 1 .. 2 * (j - 1) + 2
    BY <1>7, <1>8
  <2>3. batch \subseteq Nat \ {0}
    BY <1>7, <1>8
  <2>4. QED
    BY <2>1, <2>2, <2>3, FS_Subset
<1>10. Min(batch) \in batch
  BY <1>4, <1>5, <1>9, LeastOf DEF RunInv
<1>11. MayFollow(path, e)
  <2>1. Fits(e, Len(path) + 1)
    BY <1>3, <1>7, <1>9, <1>10 DEF Fits, NoCall
  <2>2. e.message.answers \in path[j].message.calls
    BY <1>3, <1>6, <1>10
  <2>3. \A i \in DOMAIN path : path[i].message.answers # e.message.answers
    BY <1>3, <1>6, <1>10
  <2>4. QED
    BY <1>3, <1>6, <2>1, <2>2, <2>3 DEF MayFollow
<1>12. PathSound(path')
  BY <1>3, <1>5, <1>11, GrowsSound
<1>13. /\ DOMAIN path' = 1 .. Len(path) + 1
       /\ path'[Len(path) + 1] = e /\ \A i \in DOMAIN path : path'[i] = path[i]
  BY <1>3, <1>5, PathIsSequence, AppendedTo
<1>14. RunInv'
  <2>1. CASE Cardinality(batch) = 1
    <3>1. \E x : batch = {x}
      BY <1>9, <2>1, FS_Singleton
    <3>2. batch' = {}
      BY <1>4, <1>10, <3>1
    <3>3. QED
      BY <1>4, <2>1, <3>2 DEF RunInv
  <2>2. CASE Cardinality(batch) # 1
    <3>1. batch' # {}
      <4>1. SUFFICES ASSUME batch' = {} PROVE FALSE
        OBVIOUS
      <4>2. batch = {Min(batch)}
        BY <1>4, <1>10, <4>1
      <4>3. QED
        BY <2>2, <4>2, FS_Singleton
    <3>2. j \in DOMAIN path' /\ batch' \subseteq path'[j].message.calls
      BY <1>4, <1>6, <1>7, <1>13
    <3>3. \A i \in DOMAIN path' : path'[i].message.answers \notin batch'
      <4>1. TAKE i \in DOMAIN path'
      <4>2. CASE i \in DOMAIN path
        BY <1>4, <1>6, <1>13, <4>2
      <4>3. CASE i = Len(path) + 1
        BY <1>3, <1>4, <1>13, <4>3
      <4>4. QED
        BY <1>7, <1>13, <4>2, <4>3
    <3>4. \A c \in Positions(path', "compaction") : c < j
      <4>1. TAKE c \in Positions(path', "compaction")
      <4>2. c \in DOMAIN path' /\ path'[c].type = "compaction"
        BY DEF Positions
      <4>3. c \in DOMAIN path
        BY <1>3, <1>7, <1>13, <4>2
      <4>4. c \in Positions(path, "compaction")
        BY <1>13, <4>2, <4>3 DEF Positions
      <4>5. QED
        BY <1>6, <4>4
    <3>5. QED
      BY <1>4, <2>2, <3>1, <3>2, <3>3, <3>4 DEF RunInv
  <2>3. QED
    BY <2>1, <2>2
<1>15. TasksInv'
  BY <1>4, <1>5 DEF TasksInv
<1>16. Resting'
  BY <1>4, <1>5, Uninterested DEF Resting
<1>17. WorkInv'
  BY <1>4, <1>5, <1>16, RestKept
<1>18. QED
  BY <1>12, <1>14, <1>15, <1>17 DEF CompactionInv

LEMMA ReportSound ==
  ASSUME PathSound(path), Report
  PROVE  PathSound(path')
<1>1. PICK s \in Sizes : path' = Append(path, PathEntry("message", Assistant({}, s, 0)))
  BY DEF Report, Add
<1>2. QED
  BY <1>1, PlainFollows, GrowsSound

LEMMA AbortBatchKeeps == ASSUME CompactionInv, AbortBatch PROVE CompactionInv'
<1>1. PathSound(path) /\ RunInv /\ TasksInv /\ WorkInv
  BY DEF CompactionInv
<1>2. phase = "tools" /\ batch' = {} /\ phase' = "idle" /\ stage' = stage /\ work' = work
  BY DEF AbortBatch, taskVars
<1>3. PathSound(path')
  BY <1>1, ReportSound DEF AbortBatch
<1>4. RunInv'
  BY <1>2 DEF RunInv
<1>5. TasksInv'
  BY <1>1, <1>2 DEF TasksInv
<1>6. Resting'
  BY <1>1, <1>2, Uninterested DEF Resting
<1>7. WorkInv'
  BY <1>1, <1>2, <1>6, RestKept
<1>8. QED
  BY <1>3, <1>4, <1>5, <1>7 DEF CompactionInv

(* Between two turns all controllers are reset. *)
LEMMA BoundaryKeeps ==
  ASSUME TasksInv, WorkInv, work' = work, phase = "boundary",
         \A w \in Controllers : stage[w] \in {"done", "failed"},
         stage' = [w \in Workers |-> IF w \in Controllers THEN "idle" ELSE stage[w]]
  PROVE  TasksInv' /\ WorkInv'
<1>1. Resting
  BY Uninterested
<1>2. \A w \in Manuals : stage[w] = "idle"
  BY DEF TasksInv
<1>3. \A w \in Workers : stage'[w] = "idle"
  BY <1>2 DEF Workers
<1>4. TasksInv'
  BY <1>3 DEF TasksInv, Stages, Workers
<1>5. Resting'
  BY <1>3 DEF Resting, Busy
<1>6. QED
  BY <1>4, <1>5, RestKept

LEMMA ContinueKeeps == ASSUME CompactionInv, Continue PROVE CompactionInv'
<1>1. PathSound(path) /\ RunInv /\ TasksInv /\ WorkInv
  BY DEF CompactionInv
<1>2. /\ phase = "boundary" /\ \A w \in Controllers : stage[w] \in {"done", "failed"}
      /\ stage' = [w \in Workers |-> IF w \in Controllers THEN "idle" ELSE stage[w]]
      /\ phase' = "request" /\ batch' = batch /\ work' = work
  BY DEF Continue
<1>3. PathSound(path')
  <2>1. CASE path' = path
    BY <1>1, <2>1
  <2>2. CASE \E s \in Sizes : Add("message", User(s))
    BY <1>1, <2>2, PlainFollows, GrowsSound DEF Add
  <2>3. QED
    BY <2>1, <2>2 DEF Continue
<1>4. RunInv'
  BY <1>1, <1>2 DEF RunInv
<1>5. TasksInv' /\ WorkInv'
  BY <1>1, <1>2, BoundaryKeeps
<1>6. QED
  BY <1>3, <1>4, <1>5 DEF CompactionInv

LEMMA RunFailsKeeps == ASSUME CompactionInv, RunFails PROVE CompactionInv'
<1>1. PathSound(path) /\ RunInv /\ TasksInv /\ WorkInv
  BY DEF CompactionInv
<1>2. /\ phase = "boundary" /\ \A w \in Controllers : stage[w] \in {"done", "failed"}
      /\ stage' = [w \in Workers |-> IF w \in Controllers THEN "idle" ELSE stage[w]]
      /\ phase' = "idle" /\ batch' = batch /\ work' = work
  BY DEF RunFails
<1>3. PathSound(path')
  BY <1>1, ReportSound DEF RunFails
<1>4. RunInv'
  BY <1>1, <1>2 DEF RunInv
<1>5. TasksInv' /\ WorkInv'
  BY <1>1, <1>2, BoundaryKeeps
<1>6. QED
  BY <1>3, <1>4, <1>5 DEF CompactionInv

LEMMA NavigateTreeKeeps == ASSUME CompactionInv, NavigateTree PROVE CompactionInv'
<1>1. PathSound(path) /\ RunInv /\ TasksInv /\ WorkInv
  BY DEF CompactionInv
<1>2. /\ phase = "idle" /\ AllIdle(Manuals)
      /\ phase' = phase /\ batch' = batch /\ stage' = stage /\ work' = work
  BY DEF NavigateTree, runVars, taskVars
<1>3. PICK at \in 0 .. Len(path) - 1 :
        \/ path' = SubSeq(path, 1, at)
        \/ \E s \in Sizes : path' = Append(SubSeq(path, 1, at), PathEntry("branch", User(s)))
  BY DEF NavigateTree
<1>4. at \in 0 .. Len(path)
  BY <1>1, PathIsSequence
<1>5. PathSound(SubSeq(path, 1, at))
  BY <1>1, <1>4, ShrinksSound
<1>6. PathSound(path')
  BY <1>3, <1>5, PlainFollows, GrowsSound
<1>7. RunInv'
  BY <1>1, <1>2 DEF RunInv
<1>8. TasksInv'
  BY <1>1, <1>2 DEF TasksInv
<1>9. Resting'
  BY <1>1, <1>2, Uninterested DEF Resting
<1>10. WorkInv'
  BY <1>1, <1>2, <1>9, RestKept
<1>11. QED
  BY <1>6, <1>7, <1>8, <1>10 DEF CompactionInv

-----------------------------------------------------------------------------
(* The steps of the tasks that compact. *)

LEMMA StillRead ==
  ASSUME path \in Seq(Range(path)), NEW w, WorkSound(w),
         work'[w].seen = work[w].seen, work'[w].cut = work[w].cut,
         \/ path' = path
         \/ \E e : /\ path' = Append(path, e)
                   /\ e.type = "compaction" /\ e.message.answers = NoCall
  PROVE  WorkSound(w)'
<1>1. work[w].seen \in 0 .. Len(path) /\ FirstKept(w) \in 0 .. work[w].seen /\ Len(path) \in Nat
  BY LenProperties DEF WorkSound
<1>2. CASE path' = path
  <2>1. FirstKept(w)' = FirstKept(w) /\ Given(w)' = Given(w)
    BY <1>2 DEF FirstKept, Given, Read
  <2>2. QED
    BY <1>2, <2>1 DEF WorkSound
<1>3. CASE \E e : /\ path' = Append(path, e)
                  /\ e.type = "compaction" /\ e.message.answers = NoCall
  <2>1. PICK e : path' = Append(path, e) /\ e.type = "compaction" /\ e.message.answers = NoCall
    BY <1>3
  <2>2. /\ DOMAIN path = 1 .. Len(path) /\ DOMAIN path' = 1 .. Len(path) + 1 /\ Len(path') = Len(path) + 1
        /\ path'[Len(path) + 1] = e /\ \A i \in DOMAIN path : path'[i] = path[i]
    BY <2>1, AppendedTo
  <2>3. SubSeq(path', 1, work[w].seen) = SubSeq(path, 1, work[w].seen)
    BY <1>1, <2>1, CutOfAppended
  <2>4. Read(w)' = Read(w)
    BY <2>3 DEF Read
  <2>5. FirstKept(w)' = FirstKept(w) /\ Given(w)' = Given(w)
    BY <2>4 DEF FirstKept, Given
  <2>6. Positions(path', "message") \subseteq Positions(path, "message")
    <3>1. SUFFICES ASSUME NEW i \in Positions(path', "message") PROVE i \in Positions(path, "message")
      OBVIOUS
    <3>2. i \in DOMAIN path' /\ path'[i].type = "message"
      BY SMTT(30) DEF Positions
    <3>3. i # Len(path) + 1
      BY <2>1, <2>2, <3>2
    <3>4. i \in DOMAIN path /\ path[i].type = "message"
      BY <1>1, <2>2, <3>2, <3>3
    <3>5. QED
      BY <3>4 DEF Positions
  <2>7. FirstKept(w) # 0 => Clean(path', FirstKept(w))
    <3>1. HAVE FirstKept(w) # 0
    <3>2. FirstKept(w) \in Nat \ {0} /\ Clean(path, FirstKept(w))
      BY <1>1, <3>1 DEF WorkSound
    <3>3. QED
      BY <2>1, <3>2, StaysClean
  <2>8. QED
    BY <1>1, <2>2, <2>5, <2>6, <2>7 DEF WorkSound
<1>4. QED
  BY <1>2, <1>3

(* One task takes a step; the path stays or has one summary more. *)
LEMMA WorkKept ==
  ASSUME PathSound(path), WorkInv, NEW w \in Workers, NEW x \in Works,
         \/ path' = path
         \/ \E e : /\ path' = Append(path, e)
                   /\ e.type = "compaction" /\ e.message.answers = NoCall,
         \A v \in Workers \ {w} : stage'[v] = stage[v],
         work' = [work EXCEPT ![w] = x],
         stage'[w] \in Busy => WorkSound(w)'
  PROVE  WorkInv'
<1>1. work' \in [Workers -> Works]
  BY DEF WorkInv, Works
<1>2. ASSUME NEW v \in Workers, stage'[v] \in Busy PROVE WorkSound(v)'
  <2>1. CASE v = w
    BY <1>2, <2>1
  <2>2. CASE v # w
    <3>1. WorkSound(v) /\ work'[v] = work[v]
      BY <1>2, <2>2 DEF WorkInv
    <3>2. QED
      BY <3>1, PathIsSequence, StillRead
  <2>3. QED
    BY <2>1, <2>2
<1>3. QED
  BY <1>1, <1>2 DEF WorkInv, Works

(* A stage that fits the phase of the run. *)
LEMMA TasksKept ==
  ASSUME TasksInv, phase' = phase, NEW w \in Workers, NEW s \in Stages,
         stage' = [stage EXCEPT ![w] = s],
         s # "idle" => (w \in Controllers => phase = "boundary") /\ (w \in Manuals => phase = "idle")
  PROVE  TasksInv'
<1>1. stage \in [Workers -> Stages]
  BY DEF TasksInv, Stages
<1>2. stage' \in [Workers -> Stages] /\ \A v \in Workers : stage'[v] = IF v = w THEN s ELSE stage[v]
  BY <1>1
<1>3. \A v \in Controllers : stage'[v] # "idle" => phase' = "boundary"
  BY <1>2 DEF TasksInv, Workers
<1>4. \A v \in Manuals : stage'[v] # "idle" => phase' = "idle"
  BY <1>2 DEF TasksInv, Workers
<1>5. QED
  BY <1>2, <1>3, <1>4 DEF TasksInv, Stages

(* The run does not notice. *)
LEMMA UnnoticedByRun ==
  ASSUME PathSound(path), RunInv, UNCHANGED runVars, path' = path
  PROVE  RunInv' /\ PathSound(path')
BY DEF RunInv, runVars

LEMMA AbandonKeeps ==
  ASSUME CompactionInv, NEW w \in Workers, stage[w] # "idle", Abandon(w), UNCHANGED <<path, runVars>>
  PROVE  CompactionInv'
<1>1. PathSound(path) /\ RunInv /\ TasksInv /\ WorkInv
  BY DEF CompactionInv
<1>2. /\ stage' = [stage EXCEPT ![w] = Outcome(w, "failed")] /\ work' = [work EXCEPT ![w] = NoWork]
      /\ path' = path /\ UNCHANGED runVars /\ phase' = phase
  BY DEF Abandon, runVars
<1>3. Outcome(w, "failed") \in Stages \ Busy
      /\ (Outcome(w, "failed") # "idle" => w \in Controllers /\ phase = "boundary" /\ w \notin Manuals)
  BY <1>1, TasksAssumption DEF Outcome, Stages, Busy, TasksInv
<1>4. TasksInv'
  BY <1>1, <1>2, <1>3, TasksKept
<1>5. stage'[w] \notin Busy /\ \A v \in Workers \ {w} : stage'[v] = stage[v]
  BY <1>1, <1>2, <1>3 DEF TasksInv
<1>6. NoWork \in Works
  BY DEF NoWork, Works
<1>7. WorkInv'
  BY <1>1, <1>2, <1>5, <1>6, WorkKept
<1>8. QED
  BY <1>1, <1>2, <1>4, <1>7, UnnoticedByRun DEF CompactionInv

LEMMA PrepareKeeps ==
  ASSUME CompactionInv, NEW w \in Workers, stage[w] # "idle", NEW force, Prepare(w, force),
         UNCHANGED <<path, runVars>>
  PROVE  CompactionInv'
<1>1. PathSound(path) /\ RunInv /\ TasksInv /\ WorkInv
  BY DEF CompactionInv
<1>2. PICK c : c = CutPoint(MessagesOf(path), Keep)
  OBVIOUS
<1>3. CASE Abandon(w)
  BY <1>3, AbandonKeeps
<1>4. CASE /\ c > 0
           /\ stage' = [stage EXCEPT ![w] = "summarising"]
           /\ work' = [work EXCEPT ![w] =
                    [seen |-> Len(path), cut |-> c, reply |-> "none", attempts |-> 1]]
  <2>1. path' = path /\ UNCHANGED runVars /\ phase' = phase
    BY DEF runVars
  <2>2. PICK k : k = IF c < Count(path) THEN MessagePositions(path)[c + 1] ELSE 0
    OBVIOUS
  <2>3. /\ c \in 1 .. Count(path)
        /\ k \in 0 .. Len(path)
        /\ k # 0 => Clean(path, k)
        /\ \A i \in Positions(path, "message") :
                i \in {MessagePositions(path)[x] : x \in 1 .. c} \/ (k # 0 /\ i >= k)
    BY <1>1, <1>2, <1>4, <2>2, FoundPlace
  <2>4. Count(path) \in Nat /\ Len(MessagePositions(path)) = Count(path)
    BY <1>1, ConversationOf
  <2>5. Len(path) \in Nat /\ path \in Seq(Range(path))
    BY <1>1, PathIsSequence
  <2>6. PICK x : x = [seen |-> Len(path), cut |-> c, reply |-> "none", attempts |-> 1]
    OBVIOUS
  <2>7. x \in Works /\ x.seen = Len(path) /\ x.cut = c
    BY <2>3, <2>4, <2>5, <2>6 DEF Works
  <2>8. work' = [work EXCEPT ![w] = x] /\ work'[w] = x
    BY <1>1, <1>4, <2>6 DEF WorkInv
  <2>9. Read(w)' = MessagePositions(path)
    <3>1. work'[w].seen = Len(path) /\ SubSeq(path, 1, Len(path)) = path
      BY <2>5, <2>7, <2>8, CutOfAll
    <3>2. QED
      BY <2>1, <3>1 DEF Read
  <2>10. FirstKept(w)' = k /\ Given(w)' = {MessagePositions(path)[i] : i \in 1 .. c}
    BY <2>2, <2>4, <2>7, <2>8, <2>9 DEF FirstKept, Given
  <2>11. WorkSound(w)'
    BY <2>1, <2>3, <2>5, <2>7, <2>8, <2>10 DEF WorkSound
  <2>12. \A v \in Workers \ {w} : stage'[v] = stage[v]
    BY <1>1, <1>4 DEF TasksInv
  <2>13. WorkInv'
    BY <1>1, <2>1, <2>7, <2>8, <2>11, <2>12, WorkKept
  <2>14. TasksInv'
    <3>1. "summarising" \in Stages
      BY DEF Stages, Busy
    <3>2. (w \in Controllers => phase = "boundary") /\ (w \in Manuals => phase = "idle")
      BY <1>1 DEF TasksInv
    <3>3. QED
      BY <1>1, <1>4, <2>1, <3>1, <3>2, TasksKept
  <2>15. QED
    BY <1>1, <2>1, <2>13, <2>14, UnnoticedByRun DEF CompactionInv
<1>5. QED
  BY <1>2, <1>3, <1>4 DEF Prepare

(* A step that changes the stage alone, and to one that reads nothing. *)
LEMMA StageKeeps ==
  ASSUME CompactionInv, NEW w \in Workers, NEW s \in Stages \ Busy,
         stage' = [stage EXCEPT ![w] = s], UNCHANGED <<path, runVars, work>>,
         s # "idle" => (w \in Controllers => phase = "boundary") /\ (w \in Manuals => phase = "idle")
  PROVE  CompactionInv'
<1>1. PathSound(path) /\ RunInv /\ TasksInv /\ WorkInv
  BY DEF CompactionInv
<1>2. path' = path /\ work' = work /\ UNCHANGED runVars /\ phase' = phase
  BY DEF runVars
<1>3. TasksInv'
  BY <1>1, <1>2, TasksKept
<1>4. stage'[w] \notin Busy /\ \A v \in Workers \ {w} : stage'[v] = stage[v]
  BY <1>1 DEF TasksInv
<1>5. work[w] \in Works /\ work' = [work EXCEPT ![w] = work[w]]
  BY <1>1, <1>2 DEF WorkInv, Works
<1>6. WorkInv'
  BY <1>1, <1>2, <1>4, <1>5, WorkKept
<1>7. QED
  BY <1>1, <1>2, <1>3, <1>6, UnnoticedByRun DEF CompactionInv

(* A step of a task that is at work, whose place stays what it was. *)
LEMMA WorkingKeeps ==
  ASSUME CompactionInv, NEW w \in Workers, stage[w] = "summarising",
         NEW x \in Works, x.seen = work[w].seen, x.cut = work[w].cut,
         work' = [work EXCEPT ![w] = x], UNCHANGED <<path, runVars>>,
         stage' = stage \/ stage' = [stage EXCEPT ![w] = "finishing"]
  PROVE  CompactionInv'
<1>1. PathSound(path) /\ RunInv /\ TasksInv /\ WorkInv
  BY DEF CompactionInv
<1>2. path' = path /\ UNCHANGED runVars /\ phase' = phase
  BY DEF runVars
<1>3. "finishing" \in Stages /\ (w \in Controllers => phase = "boundary") /\ (w \in Manuals => phase = "idle")
  BY <1>1 DEF Stages, Busy, TasksInv
<1>4. TasksInv'
  <2>1. CASE stage' = stage
    BY <1>1, <1>2, <2>1 DEF TasksInv
  <2>2. CASE stage' = [stage EXCEPT ![w] = "finishing"]
    BY <1>1, <1>2, <1>3, <2>2, TasksKept
  <2>3. QED
    BY <2>1, <2>2
<1>5. \A v \in Workers \ {w} : stage'[v] = stage[v]
  BY <1>1 DEF TasksInv
<1>6. WorkSound(w) /\ work'[w] = x
  BY <1>1 DEF WorkInv, Busy
<1>7. WorkSound(w)'
  BY <1>1, <1>2, <1>6, PathIsSequence, StillRead
<1>8. WorkInv'
  BY <1>1, <1>2, <1>5, <1>7, WorkKept
<1>9. QED
  BY <1>1, <1>2, <1>4, <1>8, UnnoticedByRun DEF CompactionInv

LEMMA CallKeeps == ASSUME CompactionInv, NEW w \in Workers, Call(w) PROVE CompactionInv'
<1>1. PICK s \in {"waiting", "done"} : stage' = [stage EXCEPT ![w] = s]
  BY DEF Call
<1>2. s \in Stages \ Busy
  BY DEF Stages, Busy
<1>3. w \in Controllers /\ phase = "boundary" /\ w \notin Manuals /\ UNCHANGED <<path, runVars, work>>
  BY TasksAssumption DEF Call
<1>4. QED
  BY <1>1, <1>2, <1>3, StageKeeps

LEMMA AcquireKeeps == ASSUME CompactionInv, NEW w \in Workers, Acquire(w) PROVE CompactionInv'
<1>1. w \in Controllers /\ w \notin Manuals /\ stage[w] = "waiting" /\ UNCHANGED <<path, runVars>>
  BY TasksAssumption DEF Acquire
<1>2. CASE Prepare(w, FALSE)
  BY <1>1, <1>2, PrepareKeeps
<1>3. CASE stage' = [stage EXCEPT ![w] = "done"] /\ UNCHANGED <<work, lock>>
  <2>1. "done" \in Stages \ Busy
    BY DEF Stages, Busy
  <2>2. phase = "boundary"
    BY <1>1 DEF CompactionInv, TasksInv
  <2>3. QED
    BY <1>1, <1>3, <2>1, <2>2, StageKeeps
<1>4. QED
  BY <1>2, <1>3 DEF Acquire

LEMMA CallManualKeeps == ASSUME CompactionInv, NEW w \in Workers, CallManual(w) PROVE CompactionInv'
<1>1. PICK s \in {"forced", "unforced"} : stage' = [stage EXCEPT ![w] = s]
  BY DEF CallManual
<1>2. s \in Stages \ Busy
  BY DEF Stages, Busy
<1>3. w \in Manuals /\ phase = "idle" /\ w \notin Controllers /\ UNCHANGED <<path, runVars, work>>
  BY TasksAssumption DEF CallManual
<1>4. QED
  BY <1>1, <1>2, <1>3, StageKeeps

LEMMA StartManualKeeps == ASSUME CompactionInv, NEW w \in Workers, StartManual(w) PROVE CompactionInv'
BY PrepareKeeps DEF StartManual

LEMMA SummariseKeeps == ASSUME CompactionInv, NEW w \in Workers, Summarise(w) PROVE CompactionInv'
<1>1. /\ stage[w] = "summarising" /\ work' = [work EXCEPT ![w].reply = "text"]
      /\ stage' = [stage EXCEPT ![w] = "finishing"] /\ UNCHANGED <<path, runVars>>
  BY DEF Summarise
<1>2. work \in [Workers -> Works]
  BY DEF CompactionInv, WorkInv, Works
<1>3. PICK x : x = [work[w] EXCEPT !.reply = "text"]
  OBVIOUS
<1>4. x \in Works /\ x.seen = work[w].seen /\ x.cut = work[w].cut
  BY <1>2, <1>3 DEF Works
<1>5. work' = [work EXCEPT ![w] = x]
  BY <1>1, <1>2, <1>3
<1>6. QED
  BY <1>1, <1>4, <1>5, WorkingKeeps

LEMMA DisappointKeeps == ASSUME CompactionInv, NEW w \in Workers, Disappoint(w) PROVE CompactionInv'
<1>1. stage[w] = "summarising" /\ UNCHANGED <<path, runVars>> /\ work \in [Workers -> Works]
  BY DEF Disappoint, CompactionInv, WorkInv, Works
<1>2. PICK r \in {"empty", work[w].reply} :
        IF work[w].attempts < MaxAttempts
        THEN /\ work' = [work EXCEPT ![w].reply = r, ![w].attempts = @ + 1]
             /\ UNCHANGED <<stage, lock>>
        ELSE IF r = "none" THEN Abandon(w)
        ELSE /\ work' = [work EXCEPT ![w].reply = r]
             /\ stage' = [stage EXCEPT ![w] = "finishing"]
             /\ UNCHANGED lock
  BY DEF Disappoint
<1>3. r \in {"none", "empty", "text"}
  BY <1>1, <1>2 DEF Works
<1>4. CASE work[w].attempts < MaxAttempts
  <2>1. PICK x : x = [work[w] EXCEPT !.reply = r, !.attempts = @ + 1]
    OBVIOUS
  <2>2. x \in Works /\ x.seen = work[w].seen /\ x.cut = work[w].cut
    <3>1. work[w] \in Works
      BY <1>1
    <3>2. work[w].attempts + 1 \in Nat
      BY <3>1 DEF Works
    <3>3. x = [work[w] EXCEPT !.reply = r, !.attempts = work[w].attempts + 1]
      BY <2>1
    <3>4. QED
      BY <1>3, <3>1, <3>2, <3>3 DEF Works
  <2>3. work' = [work EXCEPT ![w] = x] /\ stage' = stage
    BY <1>1, <1>2, <1>4, <2>1
  <2>4. QED
    BY <1>1, <2>2, <2>3, WorkingKeeps
<1>5. CASE ~ (work[w].attempts < MaxAttempts) /\ r = "none"
  BY <1>1, <1>2, <1>5, AbandonKeeps
<1>6. CASE ~ (work[w].attempts < MaxAttempts) /\ r # "none"
  <2>1. PICK x : x = [work[w] EXCEPT !.reply = r]
    OBVIOUS
  <2>2. x \in Works /\ x.seen = work[w].seen /\ x.cut = work[w].cut
    BY <1>1, <1>3, <2>1 DEF Works
  <2>3. work' = [work EXCEPT ![w] = x] /\ stage' = [stage EXCEPT ![w] = "finishing"]
    BY <1>1, <1>2, <1>6, <2>1
  <2>4. QED
    BY <1>1, <2>2, <2>3, WorkingKeeps
<1>7. QED
  BY <1>4, <1>5, <1>6

LEMMA InterruptKeeps == ASSUME CompactionInv, NEW w \in Workers, Interrupt(w) PROVE CompactionInv'
BY AbandonKeeps DEF Interrupt

LEMMA FinishKeeps == ASSUME CompactionInv, NEW w \in Workers, Finish(w) PROVE CompactionInv'
<1>1. PathSound(path) /\ RunInv /\ TasksInv /\ WorkInv
  BY DEF CompactionInv
<1>2. PICK e : e = Summary(FirstKept(w), work[w].reply,
                    Given(w) \cup IF Previous(w) = 0 THEN {} ELSE path[Previous(w)].covered)
  OBVIOUS
<1>3. /\ stage[w] = "finishing" /\ path' = Append(path, e)
      /\ stage' = [stage EXCEPT ![w] = Outcome(w, "done")] /\ work' = [work EXCEPT ![w] = NoWork]
      /\ phase' = phase /\ batch' = batch
  BY <1>2 DEF Finish, runVars
<1>4. /\ e.type = "compaction" /\ e.kept = FirstKept(w) /\ Given(w) \subseteq e.covered
      /\ e.message.answers = NoCall /\ e.message.calls = {} /\ e.message.role = "user"
  BY <1>2 DEF Summary, User
<1>5. WorkSound(w)
  BY <1>1, <1>3 DEF WorkInv, Busy
<1>6. Len(path) \in Nat /\ DOMAIN path = 1 .. Len(path)
  BY <1>1, PathIsSequence
<1>7. FirstKept(w) \in 0 .. Len(path) /\ FirstKept(w) < Len(path) + 1
  BY <1>5, <1>6 DEF WorkSound
<1>8. MayFollow(path, e)
  <2>1. Fits(e, Len(path) + 1)
    BY <1>4, <1>6, <1>7 DEF Fits
  <2>2. CASE FirstKept(w) = 0
    <3>1. StartAfter(e, Len(path) + 1) = Len(path) + 2
      BY <1>4, <1>6, <2>2 DEF StartAfter
    <3>2. Clean(path, Len(path) + 2)
      BY <1>6 DEF Clean
    <3>3. Summarises(path, e, Len(path) + 1)
      BY <1>4, <1>5, <2>2, <3>1, <3>2 DEF Summarises, WorkSound
    <3>4. QED
      BY <1>4, <2>1, <3>3 DEF MayFollow
  <2>3. CASE FirstKept(w) # 0
    <3>1. StartAfter(e, Len(path) + 1) = FirstKept(w)
      BY <1>4, <2>3 DEF StartAfter
    <3>2. Summarises(path, e, Len(path) + 1)
      BY <1>4, <1>5, <2>3, <3>1 DEF Summarises, WorkSound
    <3>3. QED
      BY <1>4, <2>1, <3>2 DEF MayFollow
  <2>4. QED
    BY <2>2, <2>3
<1>9. PathSound(path')
  BY <1>1, <1>3, <1>8, GrowsSound
<1>10. (w \in Controllers => phase = "boundary") /\ (w \in Manuals => phase = "idle") /\ phase # "tools"
  BY <1>1, <1>3 DEF TasksInv, Workers
<1>11. RunInv'
  BY <1>1, <1>3, <1>10 DEF RunInv
<1>12. /\ Outcome(w, "done") \in Stages \ Busy
       /\ (Outcome(w, "done") # "idle" => w \in Controllers /\ w \notin Manuals)
  BY TasksAssumption DEF Outcome, Stages, Busy
<1>13. TasksInv'
  BY <1>1, <1>3, <1>10, <1>12, TasksKept
<1>14. stage'[w] \notin Busy /\ \A v \in Workers \ {w} : stage'[v] = stage[v]
  BY <1>1, <1>3, <1>12 DEF TasksInv
<1>15. NoWork \in Works
  BY DEF NoWork, Works
<1>16. WorkInv'
  BY <1>1, <1>3, <1>4, <1>14, <1>15, WorkKept
<1>17. QED
  BY <1>9, <1>11, <1>13, <1>16 DEF CompactionInv

LEMMA StillCompaction == CompactionInv /\ UNCHANGED compactionVars => CompactionInv'
<1>1. SUFFICES ASSUME CompactionInv, UNCHANGED compactionVars PROVE CompactionInv'
  OBVIOUS
<1>2. path' = path /\ phase' = phase /\ batch' = batch /\ stage' = stage /\ work' = work
  BY <1>1 DEF compactionVars, runVars, taskVars
<1>3. PathSound(path) /\ RunInv /\ TasksInv /\ WorkInv
  BY <1>1 DEF CompactionInv
<1>4. RunInv' /\ TasksInv' /\ PathSound(path')
  BY <1>2, <1>3 DEF RunInv, TasksInv
<1>5. WorkInv'
  <2>1. \A w \in Workers : stage[w] \in Busy => WorkSound(w)'
    BY <1>2, <1>3, PathIsSequence, StillRead DEF WorkInv
  <2>2. QED
    BY <1>2, <1>3, <2>1 DEF WorkInv
<1>6. QED
  BY <1>4, <1>5 DEF CompactionInv

LEMMA CompactionInvariance ==
  ASSUME ~ Overlap
  PROVE  CompactionSpec => []CompactionInv
<1>1. CompactionInv /\ [CompactionNext]_compactionVars => CompactionInv'
  <2>1. SUFFICES ASSUME CompactionInv, [CompactionNext]_compactionVars PROVE CompactionInv'
    OBVIOUS
  <2>2. CASE Run
    BY <2>1, <2>2, PromptKeeps, ReplyKeeps, ResultKeeps, AbortBatchKeeps, ContinueKeeps,
       RunFailsKeeps, NavigateTreeKeeps DEF Run
  <2>3. ASSUME NEW w \in Workers, Step(w) \/ CallManual(w) \/ Interrupt(w)
        PROVE  CompactionInv'
    BY <2>1, <2>3, CallKeeps, AcquireKeeps, StartManualKeeps, SummariseKeeps, DisappointKeeps,
       FinishKeeps, CallManualKeeps, InterruptKeeps DEF Step
  <2>4. CASE UNCHANGED compactionVars
    BY <2>1, <2>4, StillCompaction
  <2>5. QED
    BY <2>1, <2>2, <2>3, <2>4 DEF CompactionNext
<1>2. QED
  BY <1>1, InitCompaction, PTL DEF CompactionSpec

-----------------------------------------------------------------------------
(* What the invariant says of the context. *)

LEMMA LatestOf ==
  ASSUME PathSound(path)
  PROVE  /\ LatestCompaction(path) \in 0 .. Len(path)
         /\ LatestCompaction(path) # 0 => LatestCompaction(path) \in Positions(path, "compaction")
<1>1. Positions(path, "compaction") \subseteq 0 .. Len(path) /\ Len(path) \in Nat
  BY PathIsSequence DEF Positions
<1>2. Positions(path, "compaction") # {} =>
        Max(Positions(path, "compaction")) \in Positions(path, "compaction")
  BY <1>1, GreatestOf
<1>3. QED
  BY <1>1, <1>2 DEF LatestCompaction

(* Every message of the path is in the context, or in the summary that is. *)
THEOREM NothingIsForgotten ==
  ASSUME ~ Overlap
  PROVE  CompactionSpec => []NothingForgotten
<1>1. CompactionInv => NothingForgotten
  <2>1. SUFFICES ASSUME CompactionInv, LatestCompaction(path) > 0,
                        NEW i \in Positions(path, "message")
                 PROVE  i \in ContextPositions(path) \cup path[LatestCompaction(path)].covered
    BY DEF NothingForgotten
  <2>2. PICK c : c = LatestCompaction(path)
    OBVIOUS
  <2>3. PathSound(path)
    BY <2>1 DEF CompactionInv
  <2>4. c \in 1 .. Len(path) /\ c \in Positions(path, "compaction") /\ Len(path) \in Nat
    BY <2>1, <2>2, <2>3, LatestOf, PathIsSequence
  <2>5. i \in 1 .. Len(path) /\ path[i].type = "message" /\ path[c].type = "compaction" /\ Fits(path[c], c)
    BY <2>3, <2>4, PathIsSequence DEF Positions
  <2>6. ContextStart(path) = StartAfter(path[c], c)
    BY <2>1, <2>2, <2>4 DEF ContextStart, StartAfter
  <2>7. StartAfter(path[c], c) \in Nat /\ StartAfter(path[c], c) <= c + 1
    BY <2>4, <2>5 DEF StartAfter, Fits
  <2>8. i < c => i \in path[c].covered \/ i >= StartAfter(path[c], c)
    BY <2>3, <2>4 DEF PathSound, Summaries, Summarises
  <2>9. i # c
    BY <2>5
  <2>10. i > c => i >= StartAfter(path[c], c)
    BY <2>4, <2>5, <2>7
  <2>11. i >= StartAfter(path[c], c) => i \in ContextPositions(path)
    BY <2>4, <2>5, <2>6, <2>7 DEF ContextPositions
  <2>12. QED
    BY <2>2, <2>4, <2>5, <2>8, <2>9, <2>10, <2>11
<1>2. QED
  BY <1>1, CompactionInvariance, PTL

LEMMA ContextStartsClean ==
  ASSUME PathSound(path)
  PROVE  ContextStart(path) \in Nat \ {0} /\ Clean(path, ContextStart(path))
<1>1. PICK c : c = LatestCompaction(path)
  OBVIOUS
<1>2. CASE c = 0
  BY <1>1, <1>2 DEF ContextStart, PathSound
<1>3. CASE c # 0
  <2>1. c \in 1 .. Len(path) /\ c \in Positions(path, "compaction") /\ Len(path) \in Nat /\ Fits(path[c], c)
    BY <1>1, <1>3, LatestOf, PathIsSequence
  <2>2. ContextStart(path) = StartAfter(path[c], c)
    BY <1>1, <1>3, <2>1 DEF ContextStart, StartAfter
  <2>3. StartAfter(path[c], c) \in Nat \ {0}
    BY <2>1 DEF StartAfter, Fits
  <2>4. Clean(path, StartAfter(path[c], c))
    BY <2>1 DEF PathSound, Summaries, Summarises
  <2>5. QED
    BY <2>2, <2>3, <2>4
<1>4. QED
  BY <1>2, <1>3

LEMMA PairsStay == PathSound(path) => CutKeepsPairs
<1>1. SUFFICES ASSUME PathSound(path), NEW keep \in Budgets,
                      NEW c, c = CutPoint(Conversation, keep)
               PROVE  /\ Made(Conversation, c) \cap Answered(Kept(c), Len(Conversation) - c) = {}
                      /\ c < Len(Conversation) => Conversation[c + 1].role # "toolResult"
  BY DEF CutKeepsPairs
<1> DEFINE m == MessagesOf(path)
           at == MessagePositions(path)
           n == Count(path)
<1>2. /\ n \in Nat /\ at \in [1 .. n -> Positions(path, "message")]
      /\ \A i, j \in 1 .. n : i < j => at[i] < at[j]
      /\ \A i \in 1 .. n : m[i] = path[at[i]].message
      /\ \A i \in Positions(path, "message") : \E x \in 1 .. n : at[x] = i
      /\ Positions(path, "message") \subseteq 1 .. Len(path)
      /\ Len(m) = n /\ Conversation = m
  BY <1>1, ConversationOf DEF Conversation
<1>3. Len(path) \in Nat /\ DOMAIN path = 1 .. Len(path) /\ \A i \in DOMAIN path : Fits(path[i], i)
  BY <1>1, PathIsSequence
<1>4. c \in 0 .. n /\ (c \in {0, n} \/ Pending(m, c) = {})
  BY <1>1, <1>2, CutIsSafe
<1>5. \A x \in 1 .. c, y \in c + 1 .. n : m[y].answers \notin m[x].calls
  BY <1>1, <1>4, SafePlace
<1> HIDE DEF m, at, n
<1>6. ASSUME NEW a \in Made(m, c), a \in Answered(SubSeq(m, c + 1, n), n - c) PROVE FALSE
  <2>1. PICK x \in 1 .. c : a \in m[x].calls
    BY <1>6 DEF Made
  <2>2. PICK z \in 1 .. n - c : a = SubSeq(m, c + 1, n)[z].answers
    BY <1>6 DEF Answered
  <2>3. SubSeq(m, c + 1, n)[z] = m[c + z] /\ c + z \in c + 1 .. n
    <3>1. c + 1 \in Int /\ n \in Int /\ z \in 1 .. n - (c + 1) + 1 /\ c + 1 + z - 1 = c + z
      BY <1>2, <1>4
    <3>2. \A i \in c + 1 .. n : m[i] \in {m[j] : j \in c + 1 .. n}
      OBVIOUS
    <3>3. SubSeq(m, c + 1, n)[z] = m[c + 1 + z - 1]
      BY <3>1, <3>2, SubSeqProperties
    <3>4. QED
      BY <1>2, <1>4, <3>1, <3>3
  <2>4. QED
    BY <1>5, <2>1, <2>2, <2>3
<1>7. ASSUME c < n PROVE m[c + 1].role # "toolResult"
  <2>1. SUFFICES ASSUME m[c + 1].role = "toolResult" PROVE FALSE
    OBVIOUS
  <2>2. c + 1 \in 1 .. n /\ at[c + 1] \in Positions(path, "message")
    BY <1>2, <1>4, <1>7
  <2>3. PICK i \in DOMAIN path : i = at[c + 1] /\ m[c + 1] = path[i].message
    BY <1>2, <1>3, <2>2
  <2>4. path[i].message.answers # NoCall /\ i \in Nat /\ i >= 1
    BY <1>3, <2>1, <2>3 DEF Fits
  <2>5. PICK j \in 1 .. i - 1 : path[i].message.answers \in path[j].message.calls
    BY <1>1, <2>3, <2>4 DEF PathSound, Clean
  <2>6. j \in DOMAIN path /\ path[j].type = "message"
    <3>1. j \in DOMAIN path
      BY <1>3, <2>4, <2>5
    <3>2. Fits(path[j], j)
      BY <1>3, <3>1
    <3>3. QED
      BY <2>5, <3>1, <3>2 DEF Fits
  <2>7. PICK x \in 1 .. n : at[x] = j
    BY <1>2, <2>6 DEF Positions
  <2>8. x < c + 1
    <3>1. c + 1 < x => at[c + 1] < at[x]
      BY <1>2, <2>2
    <3>2. j < i
      BY <2>4, <2>5
    <3>3. x # c + 1 /\ ~ (c + 1 < x)
      BY <1>3, <2>3, <2>4, <2>6, <2>7, <3>1, <3>2
    <3>4. QED
      BY <1>2, <1>4, <3>3
  <2>9. x \in 1 .. c /\ c + 1 \in c + 1 .. n
    BY <1>2, <1>4, <1>7, <2>8
  <2>10. QED
    BY <1>2, <1>5, <2>3, <2>5, <2>7, <2>9
<1>8. QED
  BY <1>2, <1>6, <1>7 DEF Kept, Conversation

(* No result in the context is without its call, and no cut would make one so. *)
THEOREM ContextIsWellFormed ==
  ASSUME ~ Overlap
  PROVE  CompactionSpec => []ContextWellFormed
<1>1. CompactionInv => ContextWellFormed
  <2>1. SUFFICES ASSUME CompactionInv PROVE ContextWellFormed
    OBVIOUS
  <2>2. PathSound(path)
    BY <2>1 DEF CompactionInv
  <2>3. /\ Len(path) \in Nat /\ DOMAIN path = 1 .. Len(path) /\ \A i \in DOMAIN path : Fits(path[i], i)
        /\ ContextStart(path) \in Nat \ {0} /\ Clean(path, ContextStart(path))
    BY <2>2, PathIsSequence, ContextStartsClean
  <2>4. ASSUME NEW i \in ContextPositions(path), path[i].message.answers # NoCall
        PROVE  \E j \in ContextPositions(path) : path[i].message.answers \in path[j].message.calls
    <3>1. i \in DOMAIN path /\ i >= ContextStart(path)
      BY <2>3 DEF ContextPositions
    <3>2. PICK j \in ContextStart(path) .. i - 1 : path[i].message.answers \in path[j].message.calls
      BY <2>3, <2>4, <3>1 DEF Clean
    <3>3. j \in ContextStart(path) .. Len(path) /\ j \in DOMAIN path
      BY <2>3, <3>1
    <3>4. path[j].type = "message"
      BY <2>3, <3>2, <3>3 DEF Fits
    <3>5. j \in ContextPositions(path)
      BY <3>3, <3>4 DEF ContextPositions
    <3>6. QED
      BY <3>2, <3>5
  <2>5. CutKeepsPairs
    BY <2>2, PairsStay
  <2>6. QED
    BY <2>4, <2>5 DEF ContextWellFormed
<1>2. QED
  BY <1>1, CompactionInvariance, PTL

(* What a process is doing. *)
Doings == {"none", "header", "import", "copy", "entries", "list", "raised"}
Jobs == [op : Doings, file : Files \cup {Absent}, from : Files \cup {Absent},
         got : Contents \cup {Absent}, left : Seq(Nat), todo : SUBSET Ids, node : Nat]

FilesTypes ==
    /\ disk \in [Files -> Contents \cup {Absent}] /\ proc \in [Processes -> Jobs]
    /\ manager \in [Processes -> Ids \cup {Absent}]
    /\ nodes \in Nat /\ entries \in Nat
    /\ kept \in [Ids -> SUBSET Nat] /\ vanished \in [Processes -> BOOLEAN]
    /\ raced \subseteq Files /\ hurt \subseteq Files

(* No file, and no job that makes one, has a node that was not given out. *)
NodesGiven ==
    /\ \A f \in Files : There(f) => disk[f].node <= nodes
    /\ \A p \in Processes : proc[p].node <= nodes

(* A job u over the files d, of which those in bad have raced; gone: a file was deleted while
   it listed. *)
Makes(u) == u.op \in {"header", "copy"}
MadeBy(u, d) == d[u.file] # Absent /\ d[u.file].node = u.node

JobSound(u, d, bad, gone) ==
    /\ u.op \in {"header", "import", "entries"} => u.file \in Ids
    /\ u.op = "import" =>
        /\ u.got # Absent /\ u.got.head \notin Marks /\ d[Outside] # Absent
        /\ d[u.file] # Absent => d[u.file].node > u.node
    /\ u.op = "import" \/ (u.op = "header" /\ u.got # Absent) => u.left = u.got.body
    /\ u.op = "copy" => u.got # Absent /\ u.file \in Files /\ u.from \in Files
    /\ u.op = "copy" /\ u.file \in Ids \ bad => u.got.head = u.file
    /\ Makes(u) /\ u.file \in Ids \ bad => MadeBy(u, d) /\ ~ LoadsOn(d, u.file)
    /\ u.op = "entries" => u.got # Absent
    /\ u.op = "entries" /\ u.file \in Ids \ bad =>
        LoadsOn(d, u.file) /\ Range(u.got.body) \subseteq Range(d[u.file].body) \cup Range(u.left)
    /\ u.op = "list" => \A f \in u.todo : d[f] # Absent \/ gone

JobsInv == \A p \in Processes : JobSound(proc[p], disk, raced, vanished[p])

(* Nobody else makes the same file. *)
Alone(pr, bad) ==
    \A p, q \in Processes :
        Makes(pr[p]) /\ Makes(pr[q]) /\ pr[p].file = pr[q].file /\ pr[p].file \in Ids \ bad => p = q

(* The file i with what has been acknowledged, k. *)
FileSound(i, d, k, pr, left) ==
    /\ k # {} => LoadsOn(d, i) /\ k \subseteq Range(d[i].body)
    /\ LoadsOn(d, i) => d[i].head = i
    /\ d[i] # Absent /\ ~ LoadsOn(d, i) =>
        i \in left \/ \E p \in Processes : Makes(pr[p]) /\ pr[p].file = i /\ MadeBy(pr[p], d)
KeptInv == \A i \in Ids \ raced : FileSound(i, disk, kept[i], proc, hurt)

ToldInv ==
    /\ \A m \in made : Range(m[1]) \subseteq Range(m[2])
    /\ \A p \in Processes : Doing(p, "raised") => vanished[p]

FilesInv == FilesTypes /\ NodesGiven /\ JobsInv /\ Alone(proc, raced) /\ KeptInv /\ ToldInv

-----------------------------------------------------------------------------
LEMMA RangeOfAppended ==
    ASSUME NEW s \in Seq(Nat), NEW e \in Nat
    PROVE  Range(Append(s, e)) = Range(s) \cup {e} /\ Append(s, e) \in Seq(Nat)
<1>1. /\ Append(s, e) \in Seq(Nat) /\ Len(Append(s, e)) = Len(s) + 1
      /\ \A i \in 1 .. Len(s) : Append(s, e)[i] = s[i]
      /\ Append(s, e)[Len(s) + 1] = e
  BY AppendProperties
<1>2. DOMAIN s = 1 .. Len(s) /\ DOMAIN Append(s, e) = 1 .. Len(s) + 1 /\ Len(s) \in Nat
  BY <1>1, LenProperties
<1>3. 1 .. Len(s) + 1 = (1 .. Len(s)) \cup {Len(s) + 1}
  BY <1>2
<1> HIDE DEF Range
<1>4. Range(s) \cup {e} \subseteq Range(Append(s, e))
  BY <1>1, <1>2, <1>3 DEF Range
<1>5. Range(Append(s, e)) \subseteq Range(s) \cup {e}
  BY <1>1, <1>2, <1>3 DEF Range
<1> QED BY <1>1, <1>4, <1>5

LEMMA RangeOfTail ==
    ASSUME NEW s \in Seq(Nat), s # <<>>
    PROVE  /\ Head(s) \in Nat /\ Tail(s) \in Seq(Nat)
           /\ Range(s) \subseteq Range(Tail(s)) \cup {Head(s)}
<1>1. Len(s) \in Nat \ {0} /\ DOMAIN s = 1 .. Len(s) /\ Len(Tail(s)) = Len(s) - 1 /\ Tail(s) \in Seq(Nat)
      /\ \A i \in 1 .. Len(Tail(s)) : Tail(s)[i] = s[i + 1]
  BY HeadTailProperties, EmptySeq, LenProperties
<1>2. Head(s) = s[1] /\ Head(s) \in Nat
  BY HeadTailProperties
<1>3. DOMAIN Tail(s) = 1 .. Len(Tail(s))
  BY <1>1, LenProperties
<1>4. ASSUME NEW i \in DOMAIN s, i # 1 PROVE s[i] \in Range(Tail(s))
  <2>1. i - 1 \in DOMAIN Tail(s) /\ i - 1 + 1 = i
    BY <1>1, <1>3, <1>4
  <2> QED BY <1>1, <1>3, <2>1 DEF Range
<1> QED BY <1>1, <1>2, <1>4 DEF Range

(* The files that a process finds are contents, and so is a file just made. *)
LEMMA ContentFacts ==
    ASSUME FilesAssumption
    PROVE  /\ Absent \notin Contents /\ Absent \notin Files /\ Outside \notin Ids /\ Files \cap Marks = {}
           /\ Ids \subseteq Files /\ Outside \in Files
           /\ Idle \in Jobs /\ Idle.op = "none" /\ Idle.file = Absent /\ Idle.node = 0
<1>1. <<>> \in Seq(Nat)
  BY EmptySeq
<1> QED BY <1>1 DEF FilesAssumption, Files, Marks, Contents, Idle, Jobs, Doings

LEMMA NewContent ==
    ASSUME FilesAssumption, NEW n \in Nat
    PROVE  /\ Content("empty", <<>>, FALSE, n) \in Contents
           /\ Content("empty", <<>>, FALSE, n) # Absent
           /\ Content("empty", <<>>, FALSE, n).node = n
           /\ Content("empty", <<>>, FALSE, n).head \in Marks
<1>1. <<>> \in Seq(Nat)
  BY EmptySeq
<1>2. Content("empty", <<>>, FALSE, n) \in Contents
  BY <1>1 DEF Content, Contents, Marks
<1> QED BY <1>2 DEF Content, Marks, FilesAssumption

-----------------------------------------------------------------------------
(* What stays true of the others when one process moves: u, d, bad and gone of a job, and the
   files, the races and the deletions after the step. *)
Spares(u, d, e, bad, worse, gone, goner) ==
    /\ gone => goner
    /\ u.file \in bad => u.file \in worse
    /\ d[Outside] # Absent => e[Outside] # Absent
    /\ u.op = "import" =>
        \/ e[u.file] = Absent \/ e[u.file] = d[u.file] \/ e[u.file].node > u.node
        \/ d[u.file] # Absent /\ e[u.file].node = d[u.file].node
    /\ Makes(u) /\ u.file \in Ids \ worse => e[u.file] = d[u.file]
    /\ u.op = "entries" /\ u.file \in Ids \ worse =>
        LoadsOn(e, u.file) /\ Range(d[u.file].body) \subseteq Range(e[u.file].body)
    /\ u.op = "list" => \A f \in u.todo : d[f] # Absent => e[f] # Absent \/ goner

LEMMA JobStays ==
    ASSUME NEW u, NEW d, NEW e, NEW bad, NEW worse, NEW gone, NEW goner,
           JobSound(u, d, bad, gone), Spares(u, d, e, bad, worse, gone, goner)
    PROVE  JobSound(u, e, worse, goner)
BY DEF JobSound, MadeBy, LoadsOn, Makes, Spares

(* The file i is left alone, and by whoever makes it as well, if nobody is hurt. *)
Undisturbed(i, d, e, pr, pr2, left, left2) ==
    /\ e[i] = d[i] /\ (i \in left => i \in left2)
    /\ \A p \in Processes : Makes(pr[p]) /\ pr[p].file = i =>
            i \in left2 \/ (Makes(pr2[p]) /\ pr2[p].file = i /\ pr2[p].node = pr[p].node)

LEMMA FileStays ==
    ASSUME NEW i, NEW d, NEW e, NEW k, NEW pr, NEW pr2, NEW left, NEW left2,
           FileSound(i, d, k, pr, left), Undisturbed(i, d, e, pr, pr2, left, left2)
    PROVE  FileSound(i, e, k, pr2, left2)
BY DEF FileSound, MadeBy, LoadsOn, Undisturbed

(* p begins to make no file that another one makes. *)
Apart(pr, pr2, p, bad, worse) ==
    /\ \A q \in Processes \ {p} : pr2[q] = pr[q] /\ (pr[q].file \in bad => pr[q].file \in worse)
    /\ pr[p].file \in bad => pr[p].file \in worse
    /\ Makes(pr2[p]) /\ pr2[p].file \in Ids \ worse =>
            \/ Makes(pr[p]) /\ pr[p].file = pr2[p].file
            \/ \A q \in Processes \ {p} : Makes(pr[q]) => pr[q].file # pr2[p].file

LEMMA AloneStays ==
    ASSUME NEW pr, NEW pr2, NEW p \in Processes, NEW bad, NEW worse,
           Alone(pr, bad), Apart(pr, pr2, p, bad, worse)
    PROVE  Alone(pr2, worse)
BY DEF Alone, Apart

-----------------------------------------------------------------------------
(* Files and jobs have their types, one step at a time. *)
LEMMA TypesOf ==
    ASSUME FilesAssumption, FilesTypes
    PROVE  /\ \A f \in Files : disk[f] \in Contents \cup {Absent}
           /\ \A f \in Files : There(f) =>
                /\ disk[f].head \in Files \cup Marks /\ disk[f].body \in Seq(Nat)
                /\ disk[f].tail \in BOOLEAN /\ disk[f].node \in Nat
                /\ disk[f] = Content(disk[f].head, disk[f].body, disk[f].tail, disk[f].node)
           /\ \A p \in Processes : proc[p] \in Jobs
BY DEF FilesTypes, Contents, There, Content

LEMMA FileMade ==
    ASSUME FilesAssumption, FilesTypes, NodesGiven, NEW f \in Files, MakeEmpty(f)
    PROVE  /\ nodes' = nodes + 1 /\ nodes' \in Nat
           /\ disk' \in [Files -> Contents \cup {Absent}]
           /\ \A g \in Files \ {f} : disk'[g] = disk[g]
           /\ disk'[f] # Absent /\ disk'[f].node = nodes + 1 /\ disk'[f].head \in Marks
           /\ \A g \in Files : There(g)' => disk'[g].node <= nodes'
<1> DEFINE c == Content("empty", <<>>, FALSE, nodes + 1)
<1>1. nodes \in Nat /\ nodes + 1 \in Nat /\ disk \in [Files -> Contents \cup {Absent}]
  BY DEF FilesTypes
<1>2. c \in Contents /\ c.node = nodes + 1 /\ c.head \in Marks /\ c # Absent
  BY <1>1, NewContent
<1>3. nodes' = nodes + 1 /\ disk' = [disk EXCEPT ![f] = c]
  BY DEF MakeEmpty, NewNode
<1> HIDE DEF c
<1>4. disk'[f] = c /\ \A g \in Files \ {f} : disk'[g] = disk[g]
  BY <1>1, <1>3
<1>5. \A g \in Files : There(g)' => disk'[g].node <= nodes'
  <2> SUFFICES ASSUME NEW g \in Files, disk'[g] # Absent PROVE disk'[g].node <= nodes + 1
    BY <1>3 DEF There
  <2>1. CASE g = f
    BY <1>1, <1>2, <1>4, <2>1
  <2>2. CASE g # f
    <3>1. disk[g].node <= nodes /\ disk[g].node \in Nat
      BY <1>4, <2>2, TypesOf DEF NodesGiven, There
    <3> QED BY <1>1, <1>4, <2>2, <3>1
  <2> QED BY <2>1, <2>2
<1> QED BY <1>1, <1>2, <1>3, <1>4, <1>5

LEMMA BodyReplaced ==
    ASSUME NEW x \in Contents, NEW y
    PROVE  [x EXCEPT !.body = y] = Content(x.head, y, x.tail, x.node)
BY DEF Content, Contents

(* append: what it does to the file f. *)
LEMMA Appended ==
    ASSUME FilesAssumption, FilesTypes, NodesGiven, NEW f \in Files, NEW e \in Nat, AppendTo(f, e)
    PROVE  /\ disk' \in [Files -> Contents \cup {Absent}]
           /\ nodes' \in Nat /\ nodes' >= nodes /\ hurt' \subseteq Files
           /\ \A g \in Files : There(g)' => disk'[g].node <= nodes'
           /\ \A g \in Files \ {f} : disk'[g] = disk[g]
           /\ hurt \subseteq hurt' /\ disk'[f] # Absent
           /\ There(f) => /\ disk'[f].node = disk[f].node /\ disk'[f].head = disk[f].head
                          /\ Range(disk[f].body) \subseteq Range(disk'[f].body)
           /\ ~ There(f) => disk'[f].node > nodes /\ f \in hurt' /\ disk'[f].head \in Marks
           /\ There(f) /\ ~ Loads(f) => disk'[f] = disk[f]
           /\ Added(f) => Range(disk'[f].body) = Range(disk[f].body) \cup {e}
<1>1. nodes \in Nat /\ disk \in [Files -> Contents \cup {Absent}] /\ hurt \subseteq Files
  BY DEF FilesTypes
<1>2. \A g \in Files : There(g) => disk[g].node <= nodes
  BY DEF NodesGiven
<1>3. CASE /\ Loads(f) /\ ~ disk[f].tail
           /\ disk' = [disk EXCEPT ![f].body = Append(@, e)] /\ UNCHANGED <<nodes, hurt>>
  <2> DEFINE c == Content(disk[f].head, Append(disk[f].body, e), disk[f].tail, disk[f].node)
  <2>1. There(f)
    BY <1>3 DEF Loads, LoadsOn, There
  <2>2. /\ disk[f].head \in Files \cup Marks /\ disk[f].body \in Seq(Nat)
        /\ disk[f].tail \in BOOLEAN /\ disk[f].node \in Nat
        /\ disk[f] = Content(disk[f].head, disk[f].body, disk[f].tail, disk[f].node)
    BY <2>1, TypesOf
  <2>3. Range(Append(disk[f].body, e)) = Range(disk[f].body) \cup {e} /\ Append(disk[f].body, e) \in Seq(Nat)
    BY <2>2, RangeOfAppended
  <2>4. [disk[f] EXCEPT !.body = Append(@, e)] = c
    <3>1. [disk[f] EXCEPT !.body = Append(@, e)] = [disk[f] EXCEPT !.body = Append(disk[f].body, e)]
      OBVIOUS
    <3>2. disk[f] \in Contents
      BY <2>1, TypesOf DEF There
    <3>3. PICK x \in Contents : x = disk[f]
      BY <3>2
    <3>4. [x EXCEPT !.body = Append(x.body, e)] = Content(x.head, Append(x.body, e), x.tail, x.node)
      BY BodyReplaced
    <3> QED BY <3>1, <3>3, <3>4
  <2>5. c \in Contents /\ c # Absent
    <3>1. c \in Contents
      BY <2>2, <2>3 DEF Content, Contents
    <3> QED BY <3>1, ContentFacts
  <2>6. c.head = disk[f].head /\ c.node = disk[f].node /\ c.body = Append(disk[f].body, e)
    BY DEF Content
  <2>7. disk' = [disk EXCEPT ![f] = c]
    <3>1. disk' = [disk EXCEPT ![f] = [disk[f] EXCEPT !.body = Append(@, e)]]
      BY <1>3
    <3> QED BY <3>1, <2>4
  <2> HIDE DEF c
  <2>8. disk'[f] = c /\ \A g \in Files \ {f} : disk'[g] = disk[g]
    BY <1>1, <2>7
  <2>9. disk' \in [Files -> Contents \cup {Absent}]
    BY <1>1, <2>5, <2>7
  <2>10. \A g \in Files : There(g)' => disk'[g].node <= nodes'
    BY <1>2, <1>3, <2>1, <2>6, <2>8 DEF There
  <2>11. Range(disk[f].body) \subseteq Range(disk'[f].body)
    BY <2>3, <2>6, <2>8
  <2>12. disk'[f] # Absent /\ disk'[f].node = disk[f].node /\ disk'[f].head = disk[f].head
         /\ Range(disk'[f].body) = Range(disk[f].body) \cup {e}
    BY <2>3, <2>5, <2>6, <2>8
  <2>13. nodes' = nodes /\ hurt' = hurt /\ Loads(f)
    BY <1>3
  <2> QED BY <1>1, <2>1, <2>8, <2>9, <2>10, <2>11, <2>12, <2>13
<1>4. CASE There(f) /\ (disk[f].tail \/ ~ Loads(f)) /\ UNCHANGED <<disk, nodes, hurt>>
  BY <1>1, <1>2, <1>4 DEF Added, There
<1>5. CASE ~ There(f) /\ MakeEmpty(f) /\ hurt' = hurt \cup {f}
  <2>1. ~ Added(f) /\ ~ Loads(f)
    BY <1>5 DEF Added, Loads, LoadsOn, There
  <2> QED BY <1>1, <1>5, <2>1, FileMade
<1> QED BY <1>3, <1>4, <1>5 DEF AppendTo

LEMMA AppendKeeps ==
    ASSUME FilesAssumption, FilesInv, NEW f \in Ids, NEW e \in Nat, AppendTo(f, e)
    PROVE  /\ \A q \in Processes : JobSound(proc[q], disk', raced, vanished[q])
           /\ \A i \in Ids \ raced : FileSound(i, disk', kept[i], proc, hurt')
           /\ f \notin raced /\ Added(f) => FileSound(f, disk', kept[f] \cup {e}, proc, hurt')
<1>1. f \in Files /\ FilesTypes /\ NodesGiven /\ JobsInv /\ KeptInv /\ raced \subseteq Files
  BY ContentFacts DEF FilesInv, FilesTypes
<1>2. /\ disk' \in [Files -> Contents \cup {Absent}]
      /\ nodes' \in Nat /\ nodes' >= nodes
      /\ \A g \in Files \ {f} : disk'[g] = disk[g]
      /\ hurt \subseteq hurt' /\ disk'[f] # Absent
      /\ There(f) => /\ disk'[f].node = disk[f].node /\ disk'[f].head = disk[f].head
                     /\ Range(disk[f].body) \subseteq Range(disk'[f].body)
      /\ ~ There(f) => disk'[f].node > nodes /\ f \in hurt' /\ disk'[f].head \in Marks
      /\ There(f) /\ ~ Loads(f) => disk'[f] = disk[f]
      /\ Added(f) => Range(disk'[f].body) = Range(disk[f].body) \cup {e}
  BY <1>1, Appended
<1>3. ASSUME NEW q \in Processes PROVE JobSound(proc[q], disk', raced, vanished[q])
  <2> DEFINE u == proc[q]
  <2>1. u \in Jobs /\ vanished[q] \in BOOLEAN /\ JobSound(u, disk, raced, vanished[q]) /\ u.node <= nodes /\ u.node \in Nat
    BY <1>1 DEF FilesTypes, JobsInv, NodesGiven, Jobs
  <2>2. Makes(u) /\ u.file = f /\ u.file \in Ids \ raced => disk'[f] = disk[f]
    BY <1>2, <2>1 DEF JobSound, MadeBy, There, Loads
  <2>3. u.op = "entries" /\ u.file = f /\ u.file \in Ids \ raced => LoadsOn(disk', f) /\ Range(disk[f].body) \subseteq Range(disk'[f].body)
    BY <1>2, <2>1 DEF JobSound, LoadsOn, There
  <2>4. u.op = "import" /\ u.file = f =>
            disk'[f].node > u.node \/ (disk[f] # Absent /\ disk'[f].node = disk[f].node)
    <3>1. CASE There(f)
      BY <1>2, <3>1 DEF There
    <3>2. CASE ~ There(f)
      <4>1. disk'[f].node \in Nat /\ nodes \in Nat
        BY <1>1, <1>2 DEF FilesTypes, Contents
      <4> QED BY <1>2, <2>1, <3>2, <4>1
    <3> QED BY <3>1, <3>2
  <2>5. u.op = "import" => u.file \in Files
    BY <2>1, ContentFacts DEF JobSound
  <2>6. Makes(u) /\ u.file \in Ids \ raced => disk'[u.file] = disk[u.file]
    BY <1>2, <2>2, ContentFacts
  <2>7. u.op = "entries" /\ u.file \in Ids \ raced => LoadsOn(disk', u.file) /\ Range(disk[u.file].body) \subseteq Range(disk'[u.file].body)
    <3>1. CASE u.file = f
      BY <2>3, <3>1
    <3>2. CASE u.file # f
      BY <1>2, <2>1, <3>2, ContentFacts DEF JobSound, LoadsOn
    <3> QED BY <3>1, <3>2
  <2>8. u.op = "import" => \/ disk'[u.file] = Absent \/ disk'[u.file] = disk[u.file]
                           \/ disk'[u.file].node > u.node
                           \/ (disk[u.file] # Absent /\ disk'[u.file].node = disk[u.file].node)
    BY <1>2, <2>4, <2>5
  <2>9. disk[Outside] # Absent => disk'[Outside] # Absent
    BY <1>2, ContentFacts
  <2>10. u.op = "list" => \A g \in u.todo : disk[g] # Absent => disk'[g] # Absent \/ vanished[q]
    BY <1>2, <2>1, ContentFacts DEF Jobs
  <2> HIDE DEF u
  <2>11. Spares(u, disk, disk', raced, raced, vanished[q], vanished[q])
    BY <2>1, <2>6, <2>7, <2>8, <2>9, <2>10 DEF Spares
  <2>12. JobSound(u, disk', raced, vanished[q])
    BY <2>1, <2>11, JobStays
  <2> QED BY <2>12 DEF u
<1>4. ASSUME NEW i \in Ids \ raced PROVE FileSound(i, disk', kept[i], proc, hurt')
  <2>1. FileSound(i, disk, kept[i], proc, hurt) /\ i \in Files
    BY <1>1, ContentFacts DEF KeptInv
  <2>2. CASE i # f
    <3>1. Undisturbed(i, disk, disk', proc, proc, hurt, hurt')
      BY <1>2, <2>1, <2>2 DEF Undisturbed
    <3> QED BY <2>1, <3>1, FileStays
  <2>3. CASE i = f
    <3>1. CASE Loads(f)
      BY <1>2, <2>1, <2>3, <3>1 DEF FileSound, Loads, LoadsOn, There
    <3>2. CASE There(f) /\ ~ Loads(f)
      <4>1. Undisturbed(i, disk, disk', proc, proc, hurt, hurt')
        BY <1>2, <2>3, <3>2 DEF Undisturbed
      <4> QED BY <2>1, <4>1, FileStays
    <3>3. CASE ~ There(f)
      BY <1>2, <2>1, <2>3, <3>3 DEF FileSound, LoadsOn, There
    <3> QED BY <3>1, <3>2, <3>3
  <2> QED BY <2>2, <2>3
<1>5. ASSUME f \notin raced, Added(f) PROVE FileSound(f, disk', kept[f] \cup {e}, proc, hurt')
  <2>1. FileSound(f, disk', kept[f], proc, hurt') /\ FileSound(f, disk, kept[f], proc, hurt)
    BY <1>1, <1>4, <1>5 DEF KeptInv
  <2>2. Loads(f) /\ There(f)
    BY <1>5 DEF Added, Loads, LoadsOn, There
  <2>3. LoadsOn(disk', f)
    BY <1>2, <2>2 DEF Loads, LoadsOn, There
  <2> QED BY <1>2, <1>5, <2>1, <2>2, <2>3 DEF FileSound
<1> QED BY <1>3, <1>4, <1>5

-----------------------------------------------------------------------------
(* A step of p: its own job is sound, those of the others are spared, the files are sound. *)
LEMMA StepKeeps ==
    ASSUME FilesAssumption, FilesInv, NEW p \in Processes, NEW r \in Jobs,
           proc' = [proc EXCEPT ![p] = r], FilesTypes', NodesGiven',
           \A q \in Processes \ {p} :
                Spares(proc[q], disk, disk', raced, raced', vanished[q], vanished'[q]),
           JobSound(r, disk', raced', vanished'[p]),
           proc[p].file \in raced => proc[p].file \in raced',
           Makes(r) /\ r.file \in Ids \ raced' =>
                \/ Makes(proc[p]) /\ proc[p].file = r.file
                \/ \A q \in Processes \ {p} : Makes(proc[q]) => proc[q].file # r.file,
           \A i \in Ids \ raced' : FileSound(i, disk', kept'[i], proc', hurt'),
           ToldInv'
    PROVE  FilesInv'
<1>1. FilesTypes /\ JobsInv /\ Alone(proc, raced)
  BY DEF FilesInv
<1>2. proc'[p] = r /\ \A q \in Processes \ {p} : proc'[q] = proc[q]
  BY <1>1 DEF FilesTypes
<1>3. JobsInv'
  <2> SUFFICES ASSUME NEW q \in Processes PROVE JobSound(proc'[q], disk', raced', vanished'[q])
    BY DEF JobsInv
  <2>1. CASE q = p
    BY <1>2, <2>1
  <2>2. CASE q # p
    <3>1. JobSound(proc[q], disk, raced, vanished[q])
      BY <1>1 DEF JobsInv
    <3>2. JobSound(proc[q], disk', raced', vanished'[q])
      BY <2>2, <3>1, JobStays
    <3> QED BY <1>2, <2>2, <3>2
  <2> QED BY <2>1, <2>2
<1>4. Alone(proc', raced')
  <2>1. \A q \in Processes \ {p} : proc'[q] = proc[q] /\ (proc[q].file \in raced => proc[q].file \in raced')
    BY <1>2 DEF Spares
  <2>2. Apart(proc, proc', p, raced, raced')
    BY <1>2, <2>1 DEF Apart
  <2> QED BY <1>1, <2>2, AloneStays
<1>5. KeptInv'
  BY DEF KeptInv
<1> QED BY <1>3, <1>4, <1>5 DEF FilesInv


(* p goes on to the job r, and neither makes a file before nor after. *)
LEMMA OnlyMoves ==
    ASSUME FilesAssumption, FilesInv, NEW p \in Processes, NEW r \in Jobs,
           proc' = [proc EXCEPT ![p] = r], r.node <= nodes,
           UNCHANGED <<disk, nodes, kept, made, raced, hurt>>,
           entries' \in Nat, manager' \in [Processes -> Ids \cup {Absent}],
           vanished' \in [Processes -> BOOLEAN],
           \A q \in Processes \ {p} : vanished'[q] = vanished[q],
           ~ Makes(proc[p]), ~ Makes(r),
           JobSound(r, disk, raced, vanished'[p]),
           r.op = "raised" => vanished'[p]
    PROVE  FilesInv'
<1>1. FilesTypes /\ NodesGiven /\ JobsInv /\ KeptInv /\ ToldInv
  BY DEF FilesInv
<1>2. proc'[p] = r /\ \A q \in Processes \ {p} : proc'[q] = proc[q]
  BY <1>1 DEF FilesTypes
<1>3. FilesTypes'
  BY <1>1 DEF FilesTypes
<1>4. NodesGiven'
  BY <1>1, <1>2 DEF NodesGiven, There
<1>5. ASSUME NEW q \in Processes \ {p}
      PROVE  Spares(proc[q], disk, disk', raced, raced', vanished[q], vanished'[q])
  <2>1. JobSound(proc[q], disk, raced, vanished[q])
    BY <1>1 DEF JobsInv
  <2> QED BY <2>1 DEF JobSound, Spares
<1>6. ASSUME NEW i \in Ids \ raced' PROVE FileSound(i, disk', kept'[i], proc', hurt')
  <2>1. FileSound(i, disk, kept[i], proc, hurt)
    BY <1>1 DEF KeptInv
  <2>2. \A q \in Processes : Makes(proc[q]) /\ proc[q].file = i =>
            i \in hurt' \/ (Makes(proc'[q]) /\ proc'[q].file = i /\ proc'[q].node = proc[q].node)
    BY <1>2
  <2>3. disk'[i] = disk[i] /\ (i \in hurt => i \in hurt')
    OBVIOUS
  <2>4. Undisturbed(i, disk, disk', proc, proc', hurt, hurt')
    BY <2>2, <2>3 DEF Undisturbed
  <2>5. FileSound(i, disk', kept[i], proc', hurt')
    BY <2>1, <2>4, FileStays
  <2> QED BY <2>5
<1>7. ToldInv'
  BY <1>1, <1>2 DEF ToldInv, Doing
<1> QED BY <1>2, <1>3, <1>4, <1>5, <1>6, <1>7, StepKeeps

-----------------------------------------------------------------------------
(* Jobs, and what they become. *)
LEMMA IdleJob ==
    ASSUME FilesAssumption
    PROVE  /\ Idle \in Jobs /\ Idle.node = 0 /\ Idle.op = "none" /\ ~ Makes(Idle)
           /\ \A d, bad, gone : JobSound(Idle, d, bad, gone)
<1>1. Idle \in Jobs /\ Idle.op = "none" /\ Idle.node = 0
  BY ContentFacts
<1> QED BY <1>1 DEF Makes, JobSound

LEMMA JobLists ==
    ASSUME NEW u \in Jobs, NEW T \in SUBSET Ids
    PROVE  LET r == [u EXCEPT !.todo = T]
           IN  /\ r \in Jobs /\ r.op = u.op /\ r.file = u.file /\ r.from = u.from /\ r.got = u.got
               /\ r.left = u.left /\ r.todo = T /\ r.node = u.node
BY DEF Jobs

(* p has nothing more to do, and made no file. *)
LEMMA Finishes ==
    ASSUME FilesAssumption, FilesInv, NEW p \in Processes, ~ Makes(proc[p]), Becomes(p, Idle),
           UNCHANGED <<disk, nodes, entries, kept, made, vanished, raced, hurt>>,
           manager' \in [Processes -> Ids \cup {Absent}]
    PROVE  FilesInv'
<1>1. nodes \in Nat /\ entries' \in Nat /\ vanished' \in [Processes -> BOOLEAN]
  BY DEF FilesInv, FilesTypes
<1>2. Idle \in Jobs /\ Idle.node <= nodes /\ Idle.op # "raised" /\ ~ Makes(Idle)
      /\ JobSound(Idle, disk, raced, vanished'[p])
  BY <1>1, IdleJob
<1>3. proc' = [proc EXCEPT ![p] = Idle]
  BY DEF Becomes
<1> QED BY <1>1, <1>2, <1>3, OnlyMoves

LEMMA OpenKeeps ==
    ASSUME FilesAssumption, FilesInv, NEW p \in Processes, NEW f \in Ids, OpenSession(p, f)
    PROVE  FilesInv'
<1>1. FilesTypes /\ NodesGiven /\ JobsInv /\ ToldInv
  BY DEF FilesInv
<1>2. proc[p].op = "none" /\ proc' = [proc EXCEPT ![p] = proc[p]] /\ proc[p] \in Jobs /\ proc[p].node <= nodes
  BY <1>1 DEF OpenSession, Starts, Doing, FilesTypes, NodesGiven
<1>3. manager' \in [Processes -> Ids \cup {Absent}] /\ entries' \in Nat /\ vanished' \in [Processes -> BOOLEAN]
      /\ UNCHANGED <<disk, nodes, kept, made, raced, hurt, vanished>>
  BY <1>1 DEF OpenSession, FilesTypes, Histories
<1>4. JobSound(proc[p], disk, raced, vanished'[p]) /\ ~ Makes(proc[p])
  BY <1>1, <1>2, <1>3 DEF JobsInv, Makes
<1> QED BY <1>2, <1>3, <1>4, OnlyMoves

LEMMA ListKeeps ==
    ASSUME FilesAssumption, FilesInv, NEW p \in Processes, List(p) \/ Row(p) \/ Told(p)
    PROVE  FilesInv'
<1>1. FilesTypes /\ NodesGiven /\ JobsInv /\ ToldInv
  BY DEF FilesInv
<1>2. /\ manager' \in [Processes -> Ids \cup {Absent}] /\ entries' \in Nat
      /\ UNCHANGED <<disk, nodes, entries, kept, made, raced, hurt>>
      /\ nodes \in Nat /\ ~ Makes(proc[p]) /\ proc[p] \in Jobs /\ vanished[p] \in BOOLEAN
  BY <1>1 DEF List, Row, Told, FilesTypes, Histories, Starts, Doing, Makes
<1>3. CASE List(p)
  <2> DEFINE S == {f \in Ids : There(f)}
             r == [Idle EXCEPT !.op = "list", !.todo = S]
  <2>1. r \in Jobs /\ r.op = "list" /\ r.todo = S /\ r.node = 0
    BY ContentFacts, EmptySeq DEF Idle, Jobs, Doings
  <2>2. proc' = [proc EXCEPT ![p] = r] /\ vanished' = [vanished EXCEPT ![p] = FALSE]
    BY <1>3 DEF List, Becomes
  <2>3. JobSound(r, disk, raced, vanished'[p]) /\ ~ Makes(r)
    BY <2>1 DEF JobSound, Makes, There
  <2>4. vanished' \in [Processes -> BOOLEAN] /\ \A q \in Processes \ {p} : vanished'[q] = vanished[q]
    BY <1>1, <2>2 DEF FilesTypes
  <2>5. r.node <= nodes /\ (r.op = "raised" => vanished'[p])
    BY <1>2, <2>1
  <2> HIDE DEF r
  <2> QED BY <1>2, <2>1, <2>2, <2>3, <2>4, <2>5, OnlyMoves
<1>4. CASE Told(p)
  BY <1>1, <1>2, <1>4, Finishes DEF Told, Histories
<1>5. CASE Row(p)
  <2>1. Doing(p, "list") /\ vanished' = vanished /\ vanished' \in [Processes -> BOOLEAN]
    BY <1>1, <1>5 DEF Row, Histories, FilesTypes
  <2>2. CASE proc[p].todo = {}
    BY <1>1, <1>2, <1>5, <2>1, <2>2, Finishes DEF Row
  <2>3. ASSUME NEW f \in proc[p].todo, There(f), Becomes(p, [proc[p] EXCEPT !.todo = @ \ {f}])
        PROVE  FilesInv'
    <3> DEFINE T == proc[p].todo \ {f}
               r == [proc[p] EXCEPT !.todo = T]
    <3>1. T \in SUBSET Ids /\ proc' = [proc EXCEPT ![p] = r]
      BY <1>2, <2>3 DEF Jobs, Becomes
    <3>2. /\ r \in Jobs /\ r.op = "list" /\ r.todo = T /\ r.node = proc[p].node
      BY <1>2, <2>1, <3>1, JobLists DEF Doing
    <3>3. JobSound(proc[p], disk, raced, vanished[p]) /\ r.node <= nodes
      BY <1>1, <3>2 DEF JobsInv, NodesGiven
    <3>4. JobSound(r, disk, raced, vanished'[p]) /\ ~ Makes(r)
      BY <2>1, <3>2, <3>3 DEF JobSound, Makes, Doing
    <3> HIDE DEF r
    <3> QED BY <1>2, <2>1, <3>1, <3>2, <3>3, <3>4, OnlyMoves
  <2>4. ASSUME NEW f \in proc[p].todo, ~ There(f), Becomes(p, [Idle EXCEPT !.op = "raised"])
        PROVE  FilesInv'
    <3> DEFINE r == [Idle EXCEPT !.op = "raised"]
    <3>1. r \in Jobs /\ r.op = "raised" /\ r.node = 0 /\ proc' = [proc EXCEPT ![p] = r]
      BY <2>4, EmptySeq DEF Idle, Jobs, Doings, Becomes
    <3>2. vanished'[p]
      BY <1>1, <2>1, <2>4 DEF JobsInv, JobSound, Doing, There
    <3>3. JobSound(r, disk, raced, vanished'[p]) /\ ~ Makes(r)
      BY <3>1 DEF JobSound, Makes
    <3>4. r.node <= nodes
      BY <1>2, <3>1
    <3> HIDE DEF r
    <3> QED BY <1>2, <2>1, <3>1, <3>2, <3>3, <3>4, OnlyMoves
  <2> QED BY <1>5, <2>2, <2>3, <2>4 DEF Row
<1> QED BY <1>3, <1>4, <1>5

-----------------------------------------------------------------------------
(* Where one file changes. *)

(* Of a file that has not raced, whoever makes it is the only one who is at it, *)
LEMMA NobodyElse ==
    ASSUME FilesInv, NEW p \in Processes, NEW f \in Ids \ raced, Makes(proc[p]), proc[p].file = f
    PROVE  /\ Mine(p) /\ There(f) /\ ~ Loads(f)
           /\ \A q \in Processes \ {p} :
                proc[q].file = f => ~ Makes(proc[q]) /\ proc[q].op # "entries"
<1>1. \A q \in Processes : JobSound(proc[q], disk, raced, vanished[q])
  BY DEF FilesInv, JobsInv
<1>2. MadeBy(proc[p], disk) /\ ~ LoadsOn(disk, f)
  BY <1>1 DEF JobSound
<1>3. ASSUME NEW q \in Processes \ {p}, proc[q].file = f
      PROVE  ~ Makes(proc[q]) /\ proc[q].op # "entries"
  <2>1. ~ Makes(proc[q])
    BY <1>3 DEF FilesInv, Alone
  <2>2. JobSound(proc[q], disk, raced, vanished[q])
    BY <1>1
  <2>3. proc[q].op # "entries"
    BY <1>2, <1>3, <2>2 DEF JobSound
  <2> QED BY <2>1, <2>3
<1> QED BY <1>2, <1>3 DEF MadeBy, Mine, There, Loads

(* and nobody is at one that is not there. *)
LEMMA NobodyThere ==
    ASSUME FilesInv, NEW f \in Ids \ raced, ~ There(f)
    PROVE  /\ \A q \in Processes : proc[q].file = f => ~ Makes(proc[q]) /\ proc[q].op # "entries"
           /\ kept[f] = {}
<1>1. ASSUME NEW q \in Processes, proc[q].file = f PROVE ~ Makes(proc[q]) /\ proc[q].op # "entries"
  <2>1. JobSound(proc[q], disk, raced, vanished[q])
    BY DEF FilesInv, JobsInv
  <2> QED BY <1>1, <2>1 DEF JobSound, MadeBy, LoadsOn, There
<1>2. FileSound(f, disk, kept[f], proc, hurt)
  BY DEF FilesInv, KeptInv
<1> QED BY <1>1, <1>2 DEF FileSound, LoadsOn, There

LEMMA OthersSpared ==
    ASSUME FilesAssumption, FilesInv, NEW p \in Processes, NEW f \in Files,
           \A g \in Files \ {f} : disk'[g] = disk[g],
           disk'[f] # Absent, disk'[f].node \in Nat,
           There(f) => disk'[f].node = disk[f].node,
           ~ There(f) => disk'[f].node > nodes,
           raced \subseteq raced', vanished' = vanished,
           f \in Ids \ raced' =>
                \A q \in Processes \ {p} :
                    proc[q].file = f => ~ Makes(proc[q]) /\ proc[q].op # "entries"
    PROVE  \A q \in Processes \ {p} :
                Spares(proc[q], disk, disk', raced, raced', vanished[q], vanished'[q])
<1> SUFFICES ASSUME NEW q \in Processes \ {p}
             PROVE  Spares(proc[q], disk, disk', raced, raced', vanished[q], vanished'[q])
  OBVIOUS
<1>1. PICK u \in Jobs : u = proc[q]
  BY DEF FilesInv, FilesTypes
<1>2. JobSound(u, disk, raced, vanished[q]) /\ u.node <= nodes /\ u.node \in Nat /\ nodes \in Nat
      /\ u.todo \subseteq Ids /\ Ids \subseteq Files /\ Outside \in Files
  BY <1>1, ContentFacts DEF FilesInv, FilesTypes, JobsInv, NodesGiven, Jobs
<1>3. u.op \in {"header", "import", "entries", "copy"} => u.file \in Files
  BY <1>2 DEF JobSound
<1>4. disk[Outside] # Absent => disk'[Outside] # Absent
  BY <1>2
<1>5. u.op = "import" =>
        \/ disk'[u.file] = Absent \/ disk'[u.file] = disk[u.file] \/ disk'[u.file].node > u.node
        \/ disk[u.file] # Absent /\ disk'[u.file].node = disk[u.file].node
  <2>1. CASE u.file # f
    BY <1>3, <2>1
  <2>2. CASE u.file = f /\ There(f)
    BY <2>2 DEF There
  <2>3. CASE u.file = f /\ ~ There(f)
    BY <1>2, <2>3
  <2> QED BY <2>1, <2>2, <2>3
<1>6. Makes(u) /\ u.file \in Ids \ raced' => disk'[u.file] = disk[u.file]
  BY <1>1, <1>2
<1>7. u.op = "entries" /\ u.file \in Ids \ raced' =>
        LoadsOn(disk', u.file) /\ Range(disk[u.file].body) \subseteq Range(disk'[u.file].body)
  <2>1. u.op = "entries" /\ u.file \in Ids \ raced' => disk'[u.file] = disk[u.file] /\ LoadsOn(disk, u.file)
    BY <1>1, <1>2 DEF JobSound
  <2> QED BY <2>1 DEF LoadsOn
<1>8. u.op = "list" => \A g \in u.todo : disk[g] # Absent => disk'[g] # Absent \/ vanished'[q]
  BY <1>2
<1> QED BY <1>1, <1>4, <1>5, <1>6, <1>7, <1>8 DEF Spares

LEMMA ElsewhereSound ==
    ASSUME FilesAssumption, FilesInv, NEW p \in Processes, NEW r \in Jobs, NEW f \in Files,
           proc' = [proc EXCEPT ![p] = r],
           \A g \in Files \ {f} : disk'[g] = disk[g],
           Makes(proc[p]) => proc[p].file = f,
           raced \subseteq raced', hurt \ {f} \subseteq hurt',
           NEW i \in Ids \ raced', i # f, kept'[i] = kept[i]
    PROVE  FileSound(i, disk', kept'[i], proc', hurt')
<1>1. FileSound(i, disk, kept[i], proc, hurt) /\ i \in Files
  BY ContentFacts DEF FilesInv, KeptInv
<1>2. \A q \in Processes \ {p} : proc'[q] = proc[q]
  BY DEF FilesInv, FilesTypes
<1>3. Undisturbed(i, disk, disk', proc, proc', hurt, hurt')
  BY <1>1, <1>2 DEF Undisturbed
<1> QED BY <1>1, <1>3, FileStays

-----------------------------------------------------------------------------
(* The steps *)

LEMMA NodesStay ==
    ASSUME FilesInv, NEW p \in Processes, NEW r \in Jobs, proc' = [proc EXCEPT ![p] = r],
           nodes' \in Nat, nodes' >= nodes, r.node <= nodes',
           \A g \in Files : There(g)' => disk'[g].node <= nodes'
    PROVE  NodesGiven'
<1>1. \A q \in Processes : proc[q].node <= nodes /\ proc[q].node \in Nat
  BY DEF FilesInv, NodesGiven, FilesTypes, Jobs
<1>2. nodes \in Nat /\ proc \in [Processes -> Jobs]
  BY DEF FilesInv, FilesTypes
<1>3. \A q \in Processes : proc'[q].node <= nodes'
  BY <1>1, <1>2
<1> QED BY <1>3 DEF NodesGiven

LEMMA MakingKeeps ==
    ASSUME FilesAssumption, FilesInv, NEW p \in Processes, NEW f \in Ids, NEW r \in Jobs,
           ~ There(f), MakeEmpty(f), proc' = [proc EXCEPT ![p] = r], ~ Makes(proc[p]),
           r.op = "header", r.file = f, r.node = nodes + 1,
           r.got # Absent => r.left = r.got.body,
           UNCHANGED <<manager, entries, kept, made, vanished, raced, hurt>>
    PROVE  FilesInv'
<1>1. f \in Files /\ FilesTypes /\ NodesGiven /\ ToldInv /\ nodes \in Nat
  BY ContentFacts DEF FilesInv, FilesTypes
<1>2. /\ nodes' = nodes + 1 /\ nodes' \in Nat
      /\ disk' \in [Files -> Contents \cup {Absent}]
      /\ \A g \in Files \ {f} : disk'[g] = disk[g]
      /\ disk'[f] # Absent /\ disk'[f].node = nodes + 1 /\ disk'[f].head \in Marks
      /\ \A g \in Files : There(g)' => disk'[g].node <= nodes'
  BY <1>1, FileMade
<1>3. FilesTypes'
  BY <1>1, <1>2 DEF FilesTypes
<1>4. NodesGiven'
  <2>1. nodes' >= nodes /\ r.node <= nodes'
    BY <1>1, <1>2
  <2> QED BY <1>2, <2>1, NodesStay
<1>5. proc'[p] = r /\ \A q \in Processes \ {p} : proc'[q] = proc[q]
  BY <1>1 DEF FilesTypes
<1>6. f \in Ids \ raced =>
        kept[f] = {} /\ \A q \in Processes : proc[q].file = f => ~ Makes(proc[q]) /\ proc[q].op # "entries"
  BY NobodyThere
<1>7. \A q \in Processes \ {p} :
        Spares(proc[q], disk, disk', raced, raced', vanished[q], vanished'[q])
  <2>1. disk'[f].node \in Nat /\ disk'[f].node > nodes /\ raced \subseteq raced'
    BY <1>1, <1>2
  <2> QED BY <1>1, <1>2, <1>6, <2>1, OthersSpared
<1>8. JobSound(r, disk', raced', vanished'[p])
  BY <1>2 DEF JobSound, MadeBy, LoadsOn, Makes
<1>9. ASSUME NEW i \in Ids \ raced' PROVE FileSound(i, disk', kept'[i], proc', hurt')
  <2>1. CASE i # f
    <3>1. raced \subseteq raced' /\ hurt \ {f} \subseteq hurt' /\ kept'[i] = kept[i]
      OBVIOUS
    <3>2. Makes(proc[p]) => proc[p].file = f
      OBVIOUS
    <3> QED BY <1>1, <1>2, <2>1, <3>1, <3>2, ElsewhereSound, ZenonT(60)
  <2>2. CASE i = f
    <3>1. kept'[i] = {} /\ disk'[i] # Absent /\ ~ LoadsOn(disk', i)
      BY <1>2, <1>6, <2>2 DEF LoadsOn
    <3>2. Makes(proc'[p]) /\ proc'[p].file = i /\ MadeBy(proc'[p], disk')
      BY <1>2, <1>5, <2>2 DEF Makes, MadeBy
    <3> QED BY <3>1, <3>2 DEF FileSound
  <2> QED BY <2>1, <2>2
<1>10. ToldInv'
  BY <1>1, <1>5 DEF ToldInv, Doing
<1>11. \A q \in Processes \ {p} : f \in Ids \ raced /\ Makes(proc[q]) => proc[q].file # f
  BY <1>6
<1>12. raced' = raced
  OBVIOUS
<1> QED BY <1>3, <1>4, <1>7, <1>8, <1>9, <1>10, <1>11, <1>12, StepKeeps

LEMMA CreateKeeps ==
    ASSUME FilesAssumption, FilesInv, NEW p \in Processes, NEW f \in Ids, Create(p, f)
    PROVE  FilesInv'
<1>1. FilesTypes /\ nodes \in Nat /\ f \in Files /\ proc[p].op = "none"
      /\ UNCHANGED <<manager, entries, kept, made, vanished, raced, hurt>>
  BY ContentFacts DEF FilesInv, FilesTypes, Create, Starts, Doing, Histories
<1>2. ~ Makes(proc[p])
  BY <1>1 DEF Makes
<1>3. CASE UNCHANGED <<disk, proc, nodes>>
  <2>1. proc' = [proc EXCEPT ![p] = proc[p]] /\ proc[p] \in Jobs /\ proc[p].node <= nodes
        /\ entries' \in Nat /\ manager' \in [Processes -> Ids \cup {Absent}]
        /\ vanished' \in [Processes -> BOOLEAN]
    BY <1>1, <1>3 DEF FilesInv, FilesTypes, NodesGiven
  <2>2. JobSound(proc[p], disk, raced, vanished'[p])
    BY <1>1 DEF FilesInv, JobsInv
  <2>3. proc[p].op # "raised" /\ UNCHANGED <<disk, nodes, kept, made, raced, hurt, vanished>>
    BY <1>1, <1>3
  <2> QED BY <1>2, <2>1, <2>2, <2>3, OnlyMoves
<1>4. CASE /\ ~ There(f) /\ MakeEmpty(f)
           /\ Becomes(p, [Idle EXCEPT !.op = "header", !.file = f, !.node = nodes + 1])
  <2> DEFINE r == [Idle EXCEPT !.op = "header", !.file = f, !.node = nodes + 1]
  <2>1. r \in Jobs /\ r.op = "header" /\ r.file = f /\ r.node = nodes + 1 /\ r.got = Absent
    <3>1. nodes + 1 \in Nat /\ <<>> \in Seq(Nat)
      BY <1>1, EmptySeq
    <3> QED BY <1>1, <3>1 DEF Idle, Jobs, Doings
  <2>2. proc' = [proc EXCEPT ![p] = r]
    BY <1>4 DEF Becomes
  <2> HIDE DEF r
  <2> QED BY <1>1, <1>2, <1>4, <2>1, <2>2, MakingKeeps
<1> QED BY <1>3, <1>4 DEF Create

LEMMA ImportMakesKeeps ==
    ASSUME FilesAssumption, FilesInv, NEW p \in Processes, ImportMakes(p)
    PROVE  FilesInv'
<1> DEFINE u == proc[p]
           r == [u EXCEPT !.op = "header", !.node = nodes + 1]
<1>1. /\ FilesTypes /\ nodes \in Nat /\ u \in Jobs /\ u.op = "import"
      /\ UNCHANGED <<manager, entries, kept, made, vanished, raced, hurt>>
      /\ manager' \in [Processes -> Ids \cup {Absent}]
  BY DEF FilesInv, FilesTypes, ImportMakes, Doing, Histories
<1>2. u.file \in Ids /\ u.left = u.got.body /\ ~ Makes(u)
  <2>1. JobSound(u, disk, raced, vanished[p])
    BY DEF FilesInv, JobsInv
  <2> QED BY <1>1, <2>1 DEF JobSound, Makes
<1>3. CASE There(u.file)
  BY <1>1, <1>2, <1>3, Finishes DEF ImportMakes
<1>4. CASE ~ There(u.file)
  <2>1. MakeEmpty(u.file) /\ proc' = [proc EXCEPT ![p] = r]
    BY <1>4 DEF ImportMakes, Becomes
  <2>2. r \in Jobs /\ r.op = "header" /\ r.file = u.file /\ r.node = nodes + 1
        /\ r.left = r.got.body
    <3>1. nodes + 1 \in Nat
      BY <1>1
    <3>2. r \in Jobs /\ r.op = "header" /\ r.file = u.file /\ r.node = nodes + 1
          /\ r.got = u.got /\ r.left = u.left
      BY <1>1, <3>1 DEF Jobs, Doings
    <3> QED BY <1>2, <3>2
  <2>3. PICK f \in Ids : f = u.file
    BY <1>2
  <2> HIDE DEF r
  <2> QED BY <1>1, <1>2, <1>4, <2>1, <2>2, <2>3, MakingKeeps
<1> QED BY <1>3, <1>4

LEMMA HeadReplaced ==
    ASSUME NEW x \in Contents, NEW y \in Files \cup Marks
    PROVE  /\ [x EXCEPT !.head = y] \in Contents
           /\ [x EXCEPT !.head = y].head = y /\ [x EXCEPT !.head = y].node = x.node
           /\ [x EXCEPT !.head = y].body = x.body
BY DEF Contents

(* The file f, which is there, is replaced by other contents with its node. *)
LEMMA FileReplaced ==
    ASSUME FilesAssumption, FilesInv, NEW f \in Files, NEW x \in Contents, There(f),
           x.node = disk[f].node, disk' = [disk EXCEPT ![f] = x]
    PROVE  /\ disk' \in [Files -> Contents \cup {Absent}] /\ disk'[f] = x
           /\ \A g \in Files \ {f} : disk'[g] = disk[g]
           /\ disk'[f] # Absent /\ disk'[f].node \in Nat /\ disk'[f].node = disk[f].node
           /\ \A g \in Files : disk'[g] # Absent => disk'[g].node <= nodes
<1>1. disk \in [Files -> Contents \cup {Absent}] /\ x # Absent /\ x.node \in Nat
  BY ContentFacts DEF FilesInv, FilesTypes, Contents
<1>2. \A g \in Files : disk[g] # Absent => disk[g].node <= nodes
  BY DEF FilesInv, NodesGiven, There
<1> QED BY <1>1, <1>2 DEF There

LEMMA WriteHeaderKeeps ==
    ASSUME FilesAssumption, FilesInv, NEW p \in Processes, WriteHeader(p)
    PROVE  FilesInv'
<1>1. PICK u \in Jobs : u = proc[p]
  BY DEF FilesInv, FilesTypes
<1>2. PICK f \in Ids : f = u.file
  BY <1>1 DEF FilesInv, JobsInv, JobSound, WriteHeader, Doing
<1> DEFINE r == IF u.got # Absent THEN [u EXCEPT !.op = "entries"] ELSE Idle
<1>3. /\ u.op = "header" /\ Makes(u) /\ JobSound(u, disk, raced, vanished[p]) /\ f \in Files
      /\ FilesTypes /\ ToldInv /\ nodes \in Nat /\ u.node <= nodes
      /\ UNCHANGED <<nodes, entries, uses, deaths, made, vanished, raced, hurt>>
  BY <1>1, ContentFacts DEF FilesInv, FilesTypes, JobsInv, NodesGiven, WriteHeader, Doing, Makes
<1>4. /\ disk' = IF Mine(p) THEN [disk EXCEPT ![f].head = f] ELSE disk
      /\ kept' = IF Mine(p) THEN [kept EXCEPT ![f] = {}] ELSE kept
      /\ proc' = [proc EXCEPT ![p] = r]
  BY <1>1, <1>2 DEF WriteHeader, Becomes
<1>5. manager' \in [Processes -> Ids \cup {Absent}]
  BY <1>1, <1>2, <1>3 DEF WriteHeader, FilesTypes
<1>6. /\ r \in Jobs /\ r.node <= nodes /\ ~ Makes(r) /\ r.op \in {"entries", "none"}
      /\ r.op = "entries" => u.got # Absent /\ r.got = u.got /\ r.left = u.left /\ r.file = f
  <2>1. CASE u.got # Absent
    <3>1. [u EXCEPT !.op = "entries"] \in Jobs
      BY DEF Jobs, Doings
    <3> QED BY <1>2, <1>3, <2>1, <3>1 DEF Makes, Jobs
  <2>2. CASE u.got = Absent
    BY <1>3, <2>2, IdleJob
  <2> QED BY <2>1, <2>2
<1> HIDE DEF r
<1>7. proc'[p] = r /\ \A q \in Processes \ {p} : proc'[q] = proc[q]
  BY <1>3, <1>4 DEF FilesTypes
<1>8. ToldInv'
  BY <1>3, <1>6, <1>7 DEF ToldInv, Doing
<1>9. f \notin raced =>
        /\ Mine(p) /\ There(f) /\ ~ Loads(f)
        /\ \A q \in Processes \ {p} : proc[q].file = f => ~ Makes(proc[q]) /\ proc[q].op # "entries"
  BY <1>1, <1>2, <1>3, NobodyElse
<1>10. CASE Mine(p)
  <2>1. PICK x \in Contents : x = disk[f] /\ There(f)
    BY <1>1, <1>2, <1>3, <1>10 DEF Mine, There, FilesTypes
  <2> DEFINE y == [x EXCEPT !.head = f]
  <2>2. y \in Contents /\ y.head = f /\ y.node = x.node /\ y.body = x.body
    BY <1>3, HeadReplaced
  <2>3. disk' = [disk EXCEPT ![f] = y] /\ kept' = [kept EXCEPT ![f] = {}]
    BY <1>4, <1>10, <2>1
  <2> HIDE DEF y
  <2>4. /\ disk' \in [Files -> Contents \cup {Absent}] /\ disk'[f] = y
        /\ \A g \in Files \ {f} : disk'[g] = disk[g]
        /\ disk'[f] # Absent /\ disk'[f].node \in Nat /\ disk'[f].node = disk[f].node
        /\ \A g \in Files : disk'[g] # Absent => disk'[g].node <= nodes
    BY <1>3, <2>1, <2>2, <2>3, FileReplaced
  <2>5. FilesTypes'
    BY <1>3, <1>4, <1>5, <1>6, <2>3, <2>4 DEF FilesTypes
  <2>6. NodesGiven'
    <3>1. nodes' \in Nat /\ nodes' >= nodes /\ r.node <= nodes'
      BY <1>3, <1>6
    <3>2. \A g \in Files : There(g)' => disk'[g].node <= nodes'
      BY <1>3, <2>4 DEF There
    <3> QED BY <1>4, <1>6, <3>1, <3>2, NodesStay
  <2>7. \A q \in Processes \ {p} :
            Spares(proc[q], disk, disk', raced, raced', vanished[q], vanished'[q])
    BY <1>3, <1>9, <2>1, <2>4, OthersSpared
  <2>8. LoadsOn(disk', f)
    <3>1. f \notin Marks
      BY <1>3, ContentFacts
    <3> QED BY <2>2, <2>4, <3>1 DEF LoadsOn
  <2>9. JobSound(r, disk', raced', vanished'[p])
    <3>1. r.op = "entries" => r.left = r.got.body /\ r.got # Absent /\ r.file = f
      BY <1>3, <1>6 DEF JobSound
    <3> QED BY <1>6, <2>8, <3>1 DEF JobSound, Makes
  <2>10. ASSUME NEW i \in Ids \ raced' PROVE FileSound(i, disk', kept'[i], proc', hurt')
    <3>1. CASE i # f
      <4>1. kept'[i] = kept[i] /\ raced \subseteq raced' /\ hurt \ {f} \subseteq hurt'
        BY <1>3, <2>3, <3>1 DEF FilesTypes
      <4>2. Makes(proc[p]) => proc[p].file = f
        BY <1>1, <1>2
      <4> QED BY <1>3, <1>4, <1>6, <2>4, <3>1, <4>1, <4>2, ElsewhereSound, ZenonT(60)
    <3>2. CASE i = f
      <4>1. kept'[i] = {} /\ disk'[i].head = i
        BY <1>3, <2>2, <2>3, <2>4, <3>2 DEF FilesTypes
      <4> QED BY <2>8, <3>2, <4>1 DEF FileSound
    <3> QED BY <3>1, <3>2
  <2>11. raced' = raced
    BY <1>3
  <2> QED BY <1>4, <1>6, <1>8, <2>5, <2>6, <2>7, <2>9, <2>10, <2>11, StepKeeps
<1>11. CASE ~ Mine(p)
  <2>1. f \in raced /\ disk' = disk /\ kept' = kept /\ raced' = raced
    BY <1>3, <1>4, <1>9, <1>11
  <2>2. FilesTypes'
    BY <1>3, <1>4, <1>5, <1>6, <2>1 DEF FilesTypes
  <2>3. NodesGiven'
    <3>1. \A g \in Files : There(g)' => disk'[g].node <= nodes'
      BY <1>3, <2>1 DEF FilesInv, NodesGiven, There
    <3>2. nodes' \in Nat /\ nodes' >= nodes /\ r.node <= nodes'
      BY <1>3, <1>6
    <3> QED BY <1>4, <1>6, <3>1, <3>2, NodesStay
  <2>4. \A q \in Processes \ {p} :
            Spares(proc[q], disk, disk', raced, raced', vanished[q], vanished'[q])
    BY <1>3, <2>1 DEF FilesInv, JobsInv, JobSound, Spares
  <2>5. JobSound(r, disk', raced', vanished'[p])
    BY <1>6, <2>1 DEF JobSound, Makes
  <2>6. ASSUME NEW i \in Ids \ raced' PROVE FileSound(i, disk', kept'[i], proc', hurt')
    <3>1. i # f /\ kept'[i] = kept[i] /\ raced \subseteq raced' /\ hurt \ {f} \subseteq hurt'
      BY <1>3, <2>1
    <3>2. Makes(proc[p]) => proc[p].file = f
      BY <1>1, <1>2
    <3> QED BY <1>3, <1>4, <1>6, <2>1, <3>1, <3>2, ElsewhereSound
  <2> QED BY <1>4, <1>6, <1>8, <2>1, <2>2, <2>3, <2>4, <2>5, <2>6, StepKeeps
<1> QED BY <1>10, <1>11

LEMMA SayKeeps ==
    ASSUME FilesAssumption, FilesInv, NEW p \in Processes, Say(p)
    PROVE  FilesInv'
<1>1. PICK f \in Ids : f = manager[p]
  BY DEF FilesInv, FilesTypes, Say
<1> DEFINE e == entries + 1
<1>2. /\ f \in Files /\ FilesTypes /\ NodesGiven /\ ToldInv /\ e \in Nat /\ nodes \in Nat
      /\ AppendTo(f, e) /\ entries' = e
      /\ kept' = IF Added(f) THEN [kept EXCEPT ![f] = @ \cup {e}] ELSE kept
      /\ UNCHANGED <<proc, manager, deaths, made, vanished, raced>>
      /\ proc[p].op = "none"
  BY <1>1, ContentFacts DEF FilesInv, FilesTypes, Say, Starts, Doing
<1> HIDE DEF e
<1>3. /\ disk' \in [Files -> Contents \cup {Absent}]
      /\ nodes' \in Nat /\ nodes' >= nodes /\ hurt' \subseteq Files
      /\ \A g \in Files : There(g)' => disk'[g].node <= nodes'
  BY <1>2, Appended
<1>4. /\ \A q \in Processes : JobSound(proc[q], disk', raced, vanished[q])
      /\ \A i \in Ids \ raced : FileSound(i, disk', kept[i], proc, hurt')
      /\ f \notin raced /\ Added(f) => FileSound(f, disk', kept[f] \cup {e}, proc, hurt')
  BY <1>2, AppendKeeps
<1>5. FilesTypes'
  BY <1>2, <1>3 DEF FilesTypes
<1>6. NodesGiven'
  <2>1. \A q \in Processes : proc'[q].node <= nodes'
    BY <1>2, <1>3 DEF NodesGiven, FilesTypes, Jobs
  <2> QED BY <1>3, <2>1 DEF NodesGiven
<1>7. JobsInv'
  BY <1>2, <1>4 DEF JobsInv
<1>8. Alone(proc', raced')
  BY <1>2 DEF FilesInv
<1>9. KeptInv'
  <2> SUFFICES ASSUME NEW i \in Ids \ raced PROVE FileSound(i, disk', kept'[i], proc, hurt')
    BY <1>2 DEF KeptInv
  <2>1. CASE Added(f) /\ i = f
    <3>1. kept'[i] = kept[i] \cup {e}
      BY <1>2, <2>1 DEF FilesTypes
    <3> QED BY <1>4, <2>1, <3>1
  <2>2. CASE ~ (Added(f) /\ i = f)
    <3>1. kept'[i] = kept[i]
      BY <1>2, <2>2 DEF FilesTypes
    <3> QED BY <1>4, <3>1
  <2> QED BY <2>1, <2>2
<1>10. ToldInv'
  BY <1>2 DEF ToldInv, Doing
<1> QED BY <1>5, <1>6, <1>7, <1>8, <1>9, <1>10 DEF FilesInv

LEMMA DeleteKeeps ==
    ASSUME FilesAssumption, FilesInv, NEW p \in Processes, NEW f \in Ids, Delete(p, f)
    PROVE  FilesInv'
<1>1. /\ f \in Files /\ f # Outside /\ FilesTypes /\ NodesGiven /\ ToldInv /\ KeptInv /\ There(f)
      /\ disk' = [disk EXCEPT ![f] = Absent] /\ kept' = [kept EXCEPT ![f] = {}]
      /\ vanished' = [q \in Processes |-> vanished[q] \/ (Doing(q, "list") /\ f \in proc[q].todo)]
      /\ hurt' = hurt \ {f}
      /\ raced' = IF \E q \in Processes : proc[q].file = f THEN raced \cup {f} ELSE raced \ {f}
      /\ UNCHANGED <<proc, manager, nodes, entries, made>>
  BY ContentFacts DEF FilesInv, Delete
<1>2. disk'[f] = Absent /\ \A g \in Files \ {f} : disk'[g] = disk[g]
  BY <1>1 DEF FilesTypes
<1>3. FilesTypes'
  BY <1>1 DEF FilesTypes
<1>4. NodesGiven'
  BY <1>1, <1>2 DEF NodesGiven, There
<1>5. ASSUME NEW q \in Processes
      PROVE  Spares(proc[q], disk, disk', raced, raced', vanished[q], vanished'[q])
  <2>1. PICK u \in Jobs : u = proc[q]
    BY <1>1 DEF FilesTypes
  <2>2. JobSound(u, disk, raced, vanished[q]) /\ u.todo \subseteq Ids
    BY <2>1 DEF FilesInv, JobsInv, Jobs
  <2>3. vanished'[q] = (vanished[q] \/ (u.op = "list" /\ f \in u.todo))
    BY <1>1, <2>1 DEF Doing
  <2>4. u.file = f => f \in raced'
    BY <1>1, <2>1
  <2>5. u.file \in raced => u.file \in raced'
    BY <1>1, <2>4
  <2>6. u.file \in Files \ {f} => disk'[u.file] = disk[u.file]
    BY <1>2
  <2>7. disk'[Outside] = disk[Outside]
    BY <1>1, <1>2, ContentFacts
  <2>8. u.op = "import" => disk'[u.file] = Absent \/ disk'[u.file] = disk[u.file]
    BY <1>2, <2>2, <2>6, ContentFacts DEF JobSound
  <2>9. u.file \in Ids \ raced' => disk'[u.file] = disk[u.file]
    BY <2>4, <2>6, ContentFacts
  <2>10. u.op = "entries" /\ u.file \in Ids \ raced' =>
            LoadsOn(disk', u.file) /\ Range(disk[u.file].body) \subseteq Range(disk'[u.file].body)
    BY <2>2, <2>5, <2>9 DEF JobSound, LoadsOn
  <2>11. u.op = "list" => \A g \in u.todo : disk[g] # Absent => disk'[g] # Absent \/ vanished'[q]
    BY <1>2, <2>2, <2>3, ContentFacts
  <2>12. vanished[q] => vanished'[q]
    BY <2>3
  <2> QED BY <2>1, <2>5, <2>7, <2>8, <2>9, <2>10, <2>11, <2>12 DEF Spares
<1>6. JobsInv'
  <2> SUFFICES ASSUME NEW q \in Processes PROVE JobSound(proc[q], disk', raced', vanished'[q])
    BY <1>1 DEF JobsInv
  <2>1. JobSound(proc[q], disk, raced, vanished[q])
    BY DEF FilesInv, JobsInv
  <2> QED BY <1>5, <2>1, JobStays
<1>7. Alone(proc', raced')
  <2>1. \A q \in Processes : proc[q].file \in raced => proc[q].file \in raced'
    BY <1>5 DEF Spares
  <2> QED BY <1>1, <2>1 DEF FilesInv, Alone
<1>8. KeptInv'
  <2> SUFFICES ASSUME NEW i \in Ids \ raced' PROVE FileSound(i, disk', kept'[i], proc, hurt')
    BY <1>1 DEF KeptInv
  <2>1. CASE i = f
    BY <1>1, <1>2, <2>1 DEF FileSound, LoadsOn, FilesTypes
  <2>2. CASE i # f
    <3>1. i \in Files /\ kept'[i] = kept[i] /\ FileSound(i, disk, kept[i], proc, hurt)
      BY <1>1, <2>2, ContentFacts DEF FilesTypes, KeptInv
    <3>2. Undisturbed(i, disk, disk', proc, proc, hurt, hurt')
      BY <1>1, <1>2, <2>2, <3>1 DEF Undisturbed
    <3> QED BY <3>1, <3>2, FileStays
  <2> QED BY <2>1, <2>2
<1>9. ToldInv'
  BY <1>1 DEF ToldInv, Doing
<1> QED BY <1>3, <1>4, <1>6, <1>7, <1>8, <1>9 DEF FilesInv

LEMMA ImportKeeps ==
    ASSUME FilesAssumption, FilesInv, NEW p \in Processes, NEW f \in Ids, Import(p, f)
    PROVE  FilesInv'
<1>1. /\ FilesTypes /\ nodes \in Nat /\ f \in Files /\ proc[p].op = "none" /\ Outside \in Files
      /\ Loads(Outside) /\ ~ There(f)
      /\ UNCHANGED <<disk, manager, nodes, entries, kept, made, vanished, raced, hurt>>
  BY ContentFacts DEF FilesInv, FilesTypes, Import, Starts, Doing, Histories, Taken
<1>2. PICK x \in Contents : x = disk[Outside]
  BY <1>1 DEF FilesTypes, Loads, LoadsOn
<1> DEFINE r == [Idle EXCEPT !.op = "import", !.file = f, !.got = x, !.left = x.body, !.node = nodes]
<1>3. proc' = [proc EXCEPT ![p] = r]
  BY <1>2 DEF Import, Becomes
<1>4. r \in Jobs /\ r.op = "import" /\ r.file = f /\ r.got = x /\ r.left = x.body /\ r.node = nodes
  <2>1. x.body \in Seq(Nat)
    BY DEF Contents
  <2> QED BY <1>1, <2>1 DEF Idle, Jobs, Doings
<1> HIDE DEF r
<1>5. JobSound(r, disk, raced, vanished'[p]) /\ ~ Makes(r)
  BY <1>1, <1>2, <1>4, ContentFacts DEF JobSound, Makes, Loads, LoadsOn, There
<1>6. entries' \in Nat /\ manager' \in [Processes -> Ids \cup {Absent}]
      /\ vanished' \in [Processes -> BOOLEAN] /\ vanished' = vanished
  BY <1>1 DEF FilesTypes
<1>7. r.op # "raised" /\ r.node <= nodes /\ ~ Makes(proc[p])
      /\ UNCHANGED <<disk, nodes, kept, made, raced, hurt>>
  BY <1>1, <1>4 DEF Makes
<1> QED BY <1>3, <1>4, <1>5, <1>6, <1>7, OnlyMoves

(* The target is there, empty, and p is about to write what it has found in the source. *)
LEMMA CopyOpened ==
    ASSUME FilesAssumption, FilesInv, NEW p \in Processes, NEW from \in Files, NEW to \in Files,
           There(from), CopyOpens(p, from, to)
    PROVE  \E r \in Jobs :
           /\ proc' = [proc EXCEPT ![p] = r]
           /\ r.op = "copy" /\ r.file = to /\ r.from = from /\ r.got = disk[from]
           /\ r.node \in Nat /\ r.node <= nodes' /\ nodes' \in Nat /\ nodes' >= nodes
           /\ disk' \in [Files -> Contents \cup {Absent}]
           /\ \A g \in Files \ {to} : disk'[g] = disk[g]
           /\ disk'[to] # Absent /\ disk'[to].node = r.node /\ disk'[to].head \in Marks
           /\ There(to) => disk'[to].node = disk[to].node
           /\ ~ There(to) => disk'[to].node > nodes
           /\ \A g \in Files : There(g)' => disk'[g].node <= nodes'
<1> DEFINE n == IF There(to) THEN disk[to].node ELSE nodes + 1
           c == Content("empty", <<>>, FALSE, n)
           r == [proc[p] EXCEPT !.op = "copy", !.from = from, !.file = to, !.node = n, !.got = disk[from]]
<1>1. /\ disk \in [Files -> Contents \cup {Absent}] /\ nodes \in Nat /\ proc[p] \in Jobs
      /\ \A g \in Files : There(g) => disk[g].node <= nodes /\ disk[g].node \in Nat
  BY TypesOf DEF FilesInv, FilesTypes, NodesGiven
<1>2. /\ nodes' = IF There(to) THEN nodes ELSE nodes + 1
      /\ disk' = [disk EXCEPT ![to] = c] /\ proc' = [proc EXCEPT ![p] = r]
  BY DEF CopyOpens, NewNode, Becomes
<1>3. n \in Nat /\ n <= nodes' /\ nodes' \in Nat /\ nodes' >= nodes
      /\ (There(to) => n = disk[to].node) /\ (~ There(to) => n > nodes)
  BY <1>1, <1>2
<1> HIDE DEF n
<1>4. c \in Contents /\ c # Absent /\ c.node = n /\ c.head \in Marks
  BY <1>3, NewContent
<1> HIDE DEF c
<1>5. r \in Jobs /\ r.op = "copy" /\ r.file = to /\ r.from = from /\ r.got = disk[from] /\ r.node = n
  <2>1. disk[from] \in Contents
    BY <1>1 DEF There
  <2> QED BY <1>1, <1>3, <2>1 DEF Jobs, Doings
<1> HIDE DEF r
<1>6. /\ disk' \in [Files -> Contents \cup {Absent}] /\ disk'[to] = c
      /\ \A g \in Files \ {to} : disk'[g] = disk[g]
  BY <1>1, <1>2, <1>4
<1>7. \A g \in Files : There(g)' => disk'[g].node <= nodes'
  <2> SUFFICES ASSUME NEW g \in Files, disk'[g] # Absent PROVE disk'[g].node <= nodes'
    BY DEF There
  <2>1. CASE g = to
    BY <1>3, <1>4, <1>6, <2>1
  <2>2. CASE g # to
    BY <1>1, <1>3, <1>6, <2>2 DEF There
  <2> QED BY <2>1, <2>2
<1> QED BY <1>2, <1>3, <1>4, <1>5, <1>6, <1>7, ZenonT(60)

LEMMA ExportKeeps ==
    ASSUME FilesAssumption, FilesInv, NEW p \in Processes, NEW f \in Ids, Export(p, f)
    PROVE  FilesInv'
<1>1. /\ FilesTypes /\ ToldInv /\ f \in Files /\ Outside \in Files /\ Outside \notin Ids /\ There(f)
      /\ proc[p].op = "none" /\ CopyOpens(p, f, Outside) /\ hurt' = hurt \ {Outside}
      /\ UNCHANGED <<manager, entries, kept, made, vanished, raced>>
      /\ nodes \in Nat
  BY ContentFacts DEF FilesInv, FilesTypes, Export, Starts, Doing
<1>2. PICK r \in Jobs :
           /\ proc' = [proc EXCEPT ![p] = r]
           /\ r.op = "copy" /\ r.file = Outside /\ r.from = f /\ r.got = disk[f]
           /\ r.node \in Nat /\ r.node <= nodes' /\ nodes' \in Nat /\ nodes' >= nodes
           /\ disk' \in [Files -> Contents \cup {Absent}]
           /\ \A g \in Files \ {Outside} : disk'[g] = disk[g]
           /\ disk'[Outside] # Absent /\ disk'[Outside].node = r.node /\ disk'[Outside].head \in Marks
           /\ There(Outside) => disk'[Outside].node = disk[Outside].node
           /\ ~ There(Outside) => disk'[Outside].node > nodes
           /\ \A g \in Files : There(g)' => disk'[g].node <= nodes'
  BY <1>1, CopyOpened
<1>3. FilesTypes'
  BY <1>1, <1>2 DEF FilesTypes
<1>4. NodesGiven'
  BY <1>2, NodesStay
<1>5. \A q \in Processes \ {p} :
        Spares(proc[q], disk, disk', raced, raced', vanished[q], vanished'[q])
  <2>1. disk'[Outside].node \in Nat /\ raced \subseteq raced' /\ vanished' = vanished
    BY <1>1, <1>2
  <2> QED BY <1>1, <1>2, <2>1, OthersSpared
<1>6. JobSound(r, disk', raced', vanished'[p])
  BY <1>1, <1>2 DEF JobSound, Makes, There
<1>7. ASSUME NEW i \in Ids \ raced' PROVE FileSound(i, disk', kept'[i], proc', hurt')
  <2>1. /\ raced \subseteq raced' /\ hurt \ {Outside} \subseteq hurt' /\ kept'[i] = kept[i]
        /\ i # Outside /\ (Makes(proc[p]) => proc[p].file = Outside) /\ Outside \in Files
    BY <1>1 DEF Makes
  <2>2. proc' = [proc EXCEPT ![p] = r] /\ \A g \in Files \ {Outside} : disk'[g] = disk[g]
    BY <1>2
  <2> QED BY <2>1, <2>2, ElsewhereSound
<1>8. ToldInv'
  BY <1>1, <1>2 DEF ToldInv, Doing, FilesTypes
<1>9. r.file \notin Ids /\ raced' = raced
  BY <1>1, <1>2
<1> QED BY <1>2, <1>3, <1>4, <1>5, <1>6, <1>7, <1>8, <1>9, StepKeeps

LEMMA ImportCopiesKeeps ==
    ASSUME FilesAssumption, FilesInv, NEW p \in Processes, ImportCopies(p)
    PROVE  FilesInv'
<1>1. PICK u \in Jobs : u = proc[p]
  BY DEF FilesInv, FilesTypes
<1>2. u.op = "import" /\ JobSound(u, disk, raced, vanished[p])
  BY <1>1 DEF ImportCopies, Doing, FilesInv, JobsInv
<1>3. PICK f \in Ids : f = u.file
  BY <1>2 DEF JobSound
<1>4. /\ FilesTypes /\ ToldInv /\ f \in Files /\ Outside \in Files /\ Outside \notin Ids /\ There(Outside)
      /\ u.got.head = f /\ (There(f) => disk[f].node > u.node)
      /\ CopyOpens(p, Outside, f)
      /\ raced' = IF disk[Outside] # u.got \/ (There(f) /\ disk[f].node > u.node)
                  THEN raced \cup {f} ELSE raced
      /\ UNCHANGED <<manager, entries, kept, made, vanished, hurt>>
      /\ nodes \in Nat /\ ~ Makes(u)
  BY <1>1, <1>2, <1>3, ContentFacts DEF FilesInv, FilesTypes, ImportCopies, Makes, JobSound, There
<1>5. PICK r \in Jobs :
           /\ proc' = [proc EXCEPT ![p] = r]
           /\ r.op = "copy" /\ r.file = f /\ r.from = Outside /\ r.got = disk[Outside]
           /\ r.node \in Nat /\ r.node <= nodes' /\ nodes' \in Nat /\ nodes' >= nodes
           /\ disk' \in [Files -> Contents \cup {Absent}]
           /\ \A g \in Files \ {f} : disk'[g] = disk[g]
           /\ disk'[f] # Absent /\ disk'[f].node = r.node /\ disk'[f].head \in Marks
           /\ There(f) => disk'[f].node = disk[f].node
           /\ ~ There(f) => disk'[f].node > nodes
           /\ \A g \in Files : There(g)' => disk'[g].node <= nodes'
  BY <1>4, CopyOpened
<1>6. raced \subseteq raced' /\ raced' \subseteq Files
      /\ (f \notin raced' => disk[Outside] = u.got /\ ~ There(f) /\ f \in Ids \ raced)
  BY <1>4 DEF FilesTypes
<1>7. f \notin raced' =>
        /\ \A q \in Processes : proc[q].file = f => ~ Makes(proc[q]) /\ proc[q].op # "entries"
        /\ kept[f] = {}
  BY <1>6, NobodyThere
<1>8. FilesTypes'
  BY <1>4, <1>5, <1>6 DEF FilesTypes
<1>9. NodesGiven'
  BY <1>5, NodesStay
<1>10. \A q \in Processes \ {p} :
        Spares(proc[q], disk, disk', raced, raced', vanished[q], vanished'[q])
  <2>1. disk'[f].node \in Nat /\ vanished' = vanished
    BY <1>4, <1>5
  <2> QED BY <1>4, <1>5, <1>6, <1>7, <2>1, OthersSpared, ZenonT(60)
<1>11. JobSound(r, disk', raced', vanished'[p])
  BY <1>4, <1>5, <1>6 DEF JobSound, Makes, There, MadeBy, LoadsOn
<1>12. ASSUME NEW i \in Ids \ raced' PROVE FileSound(i, disk', kept'[i], proc', hurt')
  <2>1. CASE i # f
    <3>1. hurt \ {f} \subseteq hurt' /\ kept'[i] = kept[i] /\ (Makes(proc[p]) => proc[p].file = f)
          /\ f \in Files /\ raced \subseteq raced'
      BY <1>1, <1>4, <1>6
    <3>2. proc' = [proc EXCEPT ![p] = r] /\ \A g \in Files \ {f} : disk'[g] = disk[g]
      BY <1>5
    <3> QED BY <2>1, <3>1, <3>2, ElsewhereSound
  <2>2. CASE i = f
    <3>1. kept'[i] = {} /\ ~ LoadsOn(disk', i)
      BY <1>4, <1>5, <1>7, <2>2 DEF LoadsOn
    <3>2. Makes(proc'[p]) /\ proc'[p].file = i /\ MadeBy(proc'[p], disk')
      BY <1>4, <1>5, <2>2 DEF Makes, MadeBy, FilesTypes
    <3> QED BY <3>1, <3>2 DEF FileSound
  <2> QED BY <2>1, <2>2
<1>13. ToldInv'
  BY <1>4, <1>5 DEF ToldInv, Doing, FilesTypes
<1>14. /\ proc[p].file \in raced => proc[p].file \in raced'
       /\ f \in Ids \ raced' => \A q \in Processes \ {p} : Makes(proc[q]) => proc[q].file # f
  BY <1>6, <1>7
<1> QED BY <1>5, <1>8, <1>9, <1>10, <1>11, <1>12, <1>13, <1>14, StepKeeps

LEMMA NodeReplaced ==
    ASSUME NEW x \in Contents, NEW n \in Nat
    PROVE  /\ [x EXCEPT !.node = n] \in Contents
           /\ [x EXCEPT !.node = n].head = x.head /\ [x EXCEPT !.node = n].body = x.body
           /\ [x EXCEPT !.node = n].node = n
BY DEF Contents

(* What p, which is copying, may write: of a file that has not raced what was loaded. *)
LEMMA SourceFacts ==
    ASSUME FilesAssumption, FilesInv, NEW p \in Processes, Doing(p, "copy"), raced' = Changes(p)
    PROVE  /\ proc[p].file \in Files /\ Source(p) \in Contents /\ proc[p].got \in Contents
           /\ raced \subseteq raced' /\ raced' \subseteq Files
           /\ \A i \in Ids \ raced' : i \in Ids \ raced
           /\ proc[p].file \in Ids \ raced' =>
                Source(p) = proc[p].got /\ proc[p].got.head = proc[p].file
<1>1. PICK u \in Jobs : u = proc[p]
  BY DEF FilesInv, FilesTypes
<1>2. /\ JobSound(u, disk, raced, vanished[p]) /\ u.op = "copy" /\ raced \subseteq Files
      /\ disk \in [Files -> Contents \cup {Absent}]
  BY <1>1 DEF FilesInv, FilesTypes, JobsInv, Doing
<1>3. u.got \in Contents /\ u.file \in Files /\ u.from \in Files
  BY <1>2 DEF JobSound, Jobs
<1>4. Source(p) \in Contents
  BY <1>1, <1>2, <1>3 DEF Source, There
<1>5. raced \subseteq raced' /\ raced' \subseteq Files
      /\ (u.file \in Ids \ raced' => Source(p) = u.got /\ u.file \in Ids \ raced)
  BY <1>1, <1>2, <1>3 DEF Changes
<1>6. u.file \in Ids \ raced => u.got.head = u.file
  BY <1>2 DEF JobSound
<1> QED BY <1>1, <1>3, <1>4, <1>5, <1>6

LEMMA CopyWritesKeeps ==
    ASSUME FilesAssumption, FilesInv, NEW p \in Processes, CopyWrites(p)
    PROVE  FilesInv'
<1>1. PICK u \in Jobs : u = proc[p]
  BY DEF FilesInv, FilesTypes
<1>2. /\ u.file \in Files /\ Source(p) \in Contents /\ u.got \in Contents
      /\ raced \subseteq raced' /\ raced' \subseteq Files
      /\ u.file \in Ids \ raced' => Source(p) = u.got /\ u.got.head = u.file
  BY <1>1, SourceFacts DEF CopyWrites
<1>3. PICK f \in Files, x \in Contents : f = u.file /\ x = Source(p)
  BY <1>2
<1> DEFINE y == [x EXCEPT !.node = u.node]
<1>4. /\ u.op = "copy" /\ Makes(u) /\ JobSound(u, disk, raced, vanished[p])
      /\ FilesTypes /\ ToldInv /\ nodes \in Nat /\ u.node <= nodes /\ u.node \in Nat
      /\ UNCHANGED <<nodes, entries, uses, deaths, vanished, hurt>>
      /\ proc' = [proc EXCEPT ![p] = Idle]
      /\ disk' = IF Mine(p) THEN [disk EXCEPT ![f] = y] ELSE disk
  BY <1>1, <1>3 DEF FilesInv, FilesTypes, JobsInv, NodesGiven, CopyWrites, Doing, Makes, Becomes, Jobs
<1>5. y \in Contents /\ y.head = x.head /\ y.body = x.body /\ y.node = u.node
  BY <1>4, NodeReplaced
<1> HIDE DEF y
<1>6. /\ disk' \in [Files -> Contents \cup {Absent}]
      /\ \A g \in Files \ {f} : disk'[g] = disk[g]
      /\ \A g \in Files : disk'[g] # Absent => disk'[g].node <= nodes
      /\ There(f) => disk'[f] # Absent /\ disk'[f].node = disk[f].node /\ disk'[f].node \in Nat
      /\ Mine(p) => disk'[f] = y /\ There(f)
      /\ ~ Mine(p) => disk' = disk
  <2>1. CASE Mine(p)
    <3>1. There(f) /\ y.node = disk[f].node
      BY <1>1, <1>3, <1>5, <2>1 DEF Mine
    <3>2. disk' = [disk EXCEPT ![f] = y]
      BY <1>4, <2>1
    <3> QED BY <1>5, <2>1, <3>1, <3>2, FileReplaced
  <2>2. CASE ~ Mine(p)
    <3>1. disk' = disk /\ \A g \in Files : There(g) => disk[g].node <= nodes /\ disk[g].node \in Nat
      BY <1>4, <2>2, TypesOf DEF FilesInv, NodesGiven
    <3> QED BY <1>4, <2>2, <3>1 DEF There, FilesTypes
  <2> QED BY <2>1, <2>2
<1>7. f \in Ids \ raced' =>
        /\ Mine(p) /\ kept[f] = {} /\ LoadsOn(disk', f) /\ disk'[f].head = f
        /\ disk'[f].body = u.got.body
        /\ \A q \in Processes \ {p} : proc[q].file = f => ~ Makes(proc[q]) /\ proc[q].op # "entries"
  <2> HAVE f \in Ids \ raced'
  <2>1. f \in Ids \ raced /\ x = u.got /\ x.head = f
    BY <1>2, <1>3
  <2>2. /\ Mine(p) /\ ~ Loads(f)
        /\ \A q \in Processes \ {p} : proc[q].file = f => ~ Makes(proc[q]) /\ proc[q].op # "entries"
    BY <1>1, <1>3, <1>4, <2>1, NobodyElse
  <2>3. kept[f] = {}
    BY <2>1, <2>2 DEF FilesInv, KeptInv, FileSound, Loads
  <2>4. f \notin Marks
    BY ContentFacts
  <2> QED BY <1>5, <1>6, <2>1, <2>2, <2>3, <2>4 DEF LoadsOn
<1>8. /\ kept' \in [Ids -> SUBSET Nat] /\ manager' \in [Processes -> Ids \cup {Absent}]
      /\ \A i \in Ids \ {f} : kept'[i] = kept[i]
      /\ f \in Ids \ raced' => kept'[f] = kept[f] \cup Range(disk'[f].body)
      /\ \A m \in made' : m \in made \/ (f \in Ids \ raced' /\ m = <<u.got.body, disk'[f].body>>)
  <2>1. CASE f # Outside /\ LoadsOn(disk', f)
    <3>1. f \in Ids
      BY <2>1 DEF Files
    <3>2. /\ made' = IF f \in raced' THEN made ELSE made \cup {<<u.got.body, disk'[f].body>>}
          /\ kept' = [kept EXCEPT ![f] = @ \cup Range(disk'[f].body)]
          /\ manager' = [manager EXCEPT ![p] = f]
      BY <1>1, <1>3, <2>1 DEF CopyWrites, Imported
    <3>3. Range(disk'[f].body) \subseteq Nat
      <4>1. disk'[f].body \in Seq(Nat)
        BY <1>6, <2>1 DEF LoadsOn, Contents
      <4> QED BY <4>1 DEF Range
    <3> QED BY <1>4, <3>1, <3>2, <3>3 DEF FilesTypes
  <2>2. CASE ~ (f # Outside /\ LoadsOn(disk', f))
    <3>1. UNCHANGED <<kept, made, manager>>
      BY <1>1, <1>3, <2>2 DEF CopyWrites
    <3>2. f \notin Ids \ raced'
      BY <1>7, <2>2, ContentFacts
    <3> QED BY <1>4, <3>1, <3>2 DEF FilesTypes
  <2> QED BY <2>1, <2>2
<1>9. Idle \in Jobs /\ ~ Makes(Idle) /\ Idle.node = 0 /\ Idle.op = "none"
      /\ JobSound(Idle, disk', raced', vanished'[p])
  BY IdleJob
<1>10. FilesTypes'
  BY <1>2, <1>4, <1>6, <1>8, <1>9 DEF FilesTypes
<1>11. NodesGiven'
  <2>1. nodes' \in Nat /\ nodes' >= nodes /\ Idle.node <= nodes'
    BY <1>4, <1>9
  <2>2. \A g \in Files : There(g)' => disk'[g].node <= nodes'
    BY <1>4, <1>6 DEF There
  <2> QED BY <1>4, <1>9, <2>1, <2>2, NodesStay
<1>12. \A q \in Processes \ {p} :
        Spares(proc[q], disk, disk', raced, raced', vanished[q], vanished'[q])
  <2>1. CASE Mine(p)
    <3>1. disk'[f] # Absent /\ disk'[f].node \in Nat /\ There(f) /\ disk'[f].node = disk[f].node
          /\ vanished' = vanished
      BY <1>4, <1>6, <2>1
    <3> QED BY <1>2, <1>6, <1>7, <3>1, OthersSpared
  <2>2. CASE ~ Mine(p)
    <3>1. disk' = disk /\ vanished' = vanished
      BY <1>4, <1>6, <2>2
    <3> SUFFICES ASSUME NEW q \in Processes \ {p}
                 PROVE  Spares(proc[q], disk, disk, raced, raced', vanished[q], vanished[q])
      BY <3>1
    <3>2. JobSound(proc[q], disk, raced, vanished[q])
      BY DEF FilesInv, JobsInv
    <3> QED BY <1>2, <3>2 DEF JobSound, Spares
  <2> QED BY <2>1, <2>2
<1>13. ASSUME NEW i \in Ids \ raced' PROVE FileSound(i, disk', kept'[i], proc', hurt')
  <2>1. CASE i # f
    <3>1. hurt \ {f} \subseteq hurt' /\ kept'[i] = kept[i] /\ (Makes(proc[p]) => proc[p].file = f)
      BY <1>1, <1>3, <1>4, <1>8, <2>1
    <3>2. proc' = [proc EXCEPT ![p] = Idle] /\ \A g \in Files \ {f} : disk'[g] = disk[g]
      BY <1>4, <1>6
    <3> QED BY <1>2, <1>9, <2>1, <3>1, <3>2, ElsewhereSound
  <2>2. CASE i = f
    BY <1>7, <1>8, <2>2 DEF FileSound
  <2> QED BY <2>1, <2>2
<1>14. ToldInv'
  <2>1. \A m \in made' : Range(m[1]) \subseteq Range(m[2])
    <3> SUFFICES ASSUME NEW m \in made' PROVE Range(m[1]) \subseteq Range(m[2])
      OBVIOUS
    <3>1. CASE m \in made
      BY <1>4, <3>1 DEF ToldInv
    <3>2. CASE f \in Ids \ raced' /\ m = <<u.got.body, disk'[f].body>>
      BY <1>7, <3>2
    <3> QED BY <1>8, <3>1, <3>2
  <2>2. \A q \in Processes : Doing(q, "raised")' => vanished'[q]
    BY <1>4, <1>9 DEF ToldInv, Doing, FilesTypes
  <2> QED BY <2>1, <2>2 DEF ToldInv
<1>15. proc[p].file \in raced => proc[p].file \in raced'
  BY <1>2
<1> QED BY <1>4, <1>9, <1>10, <1>11, <1>12, <1>13, <1>14, <1>15, StepKeeps

LEMMA ImportAppendsKeeps ==
    ASSUME FilesAssumption, FilesInv, NEW p \in Processes, ImportAppends(p)
    PROVE  FilesInv'
<1>1. PICK u \in Jobs : u = proc[p]
  BY DEF FilesInv, FilesTypes
<1>2. u.op = "entries" /\ JobSound(u, disk, raced, vanished[p]) /\ ~ Makes(u)
  BY <1>1 DEF ImportAppends, Doing, FilesInv, JobsInv, Makes
<1>3. PICK f \in Ids : f = u.file
  BY <1>2 DEF JobSound
<1>4. /\ FilesTypes /\ NodesGiven /\ ToldInv /\ KeptInv /\ f \in Files /\ nodes \in Nat
      /\ u.node <= nodes /\ u.node \in Nat /\ u.got \in Contents /\ raced' = raced
      /\ UNCHANGED <<entries, uses, deaths, vanished>>
  BY <1>1, <1>2, ContentFacts
     DEF FilesInv, FilesTypes, NodesGiven, ImportAppends, JobSound, Jobs
<1>5. Idle \in Jobs /\ ~ Makes(Idle) /\ Idle.node = 0 /\ Idle.op = "none"
      /\ \A d, bad, gone : JobSound(Idle, d, bad, gone)
  BY IdleJob
<1>6. CASE u.left # <<>>
  <2> DEFINE e == Head(u.left)
             r == IF Added(f) THEN [u EXCEPT !.left = Tail(u.left)] ELSE Idle
  <2>1. AppendTo(f, e) /\ proc' = [proc EXCEPT ![p] = r] /\ UNCHANGED <<manager, kept, made>>
    BY <1>1, <1>3, <1>6 DEF ImportAppends, Becomes
  <2>2. u.left \in Seq(Nat)
    BY DEF Jobs
  <2>3. e \in Nat /\ Tail(u.left) \in Seq(Nat) /\ Range(u.left) \subseteq Range(Tail(u.left)) \cup {e}
    BY <1>6, <2>2, RangeOfTail
  <2>4. /\ r \in Jobs /\ r.node <= nodes /\ ~ Makes(r) /\ r.op \in {"entries", "none"}
        /\ r.op = "entries" =>
            Added(f) /\ r.got = u.got /\ r.left = Tail(u.left) /\ r.file = f
    <3>1. CASE Added(f)
      <4>1. [u EXCEPT !.left = Tail(u.left)] \in Jobs
        BY <2>3 DEF Jobs
      <4> QED BY <1>2, <1>3, <1>4, <3>1, <4>1 DEF Makes, Jobs
    <3>2. CASE ~ Added(f)
      BY <1>4, <1>5, <3>2
    <3> QED BY <3>1, <3>2
  <2> HIDE DEF e, r
  <2>5. /\ disk' \in [Files -> Contents \cup {Absent}]
        /\ nodes' \in Nat /\ nodes' >= nodes /\ hurt' \subseteq Files
        /\ \A g \in Files : There(g)' => disk'[g].node <= nodes'
        /\ There(f) => disk'[f].head = disk[f].head
        /\ disk'[f] # Absent
        /\ Added(f) => Range(disk'[f].body) = Range(disk[f].body) \cup {e}
    BY <1>4, <2>1, <2>3, Appended
  <2>6. /\ \A q \in Processes : JobSound(proc[q], disk', raced, vanished[q])
        /\ \A i \in Ids \ raced : FileSound(i, disk', kept[i], proc, hurt')
    BY <2>1, <2>3, AppendKeeps
  <2>7. proc'[p] = r /\ \A q \in Processes \ {p} : proc'[q] = proc[q]
    BY <1>4, <2>1 DEF FilesTypes
  <2>8. FilesTypes'
    BY <1>4, <2>1, <2>4, <2>5 DEF FilesTypes
  <2>9. NodesGiven'
    <3>1. r.node <= nodes'
      BY <1>4, <2>4, <2>5 DEF Jobs
    <3> QED BY <2>1, <2>4, <2>5, <3>1, NodesStay
  <2>10. JobSound(r, disk', raced, vanished[p])
    <3>1. CASE r.op = "none"
      BY <3>1 DEF JobSound, Makes
    <3>2. CASE r.op = "entries"
      <4>1. Added(f) /\ r.got = u.got /\ r.left = Tail(u.left) /\ r.file = f
        BY <2>4, <3>2
      <4>2. f \in Ids \ raced => Range(u.got.body) \subseteq Range(disk[f].body) \cup Range(u.left)
        BY <1>2, <1>3 DEF JobSound
      <4>3. There(f) /\ LoadsOn(disk, f) /\ LoadsOn(disk', f)
        BY <2>5, <4>1 DEF Added, Loads, LoadsOn, There
      <4>4. f \in Ids \ raced => Range(r.got.body) \subseteq Range(disk'[f].body) \cup Range(r.left)
        BY <2>3, <2>5, <4>1, <4>2
      <4>5. r.got # Absent
        BY <1>4, <4>1, ContentFacts
      <4> QED BY <3>2, <4>1, <4>3, <4>4, <4>5 DEF JobSound, Makes
    <3> QED BY <2>4, <3>1, <3>2
  <2>11. JobsInv'
    <3> SUFFICES ASSUME NEW q \in Processes PROVE JobSound(proc'[q], disk', raced, vanished[q])
      BY <1>4 DEF JobsInv
    <3>1. CASE q = p
      BY <2>7, <2>10, <3>1
    <3>2. CASE q # p
      BY <2>6, <2>7, <3>2
    <3> QED BY <3>1, <3>2
  <2>12. Alone(proc', raced')
    <3>1. Apart(proc, proc', p, raced, raced')
      BY <1>4, <2>4, <2>7 DEF Apart
    <3> QED BY <3>1, AloneStays DEF FilesInv
  <2>13. KeptInv'
    <3> SUFFICES ASSUME NEW i \in Ids \ raced PROVE FileSound(i, disk', kept[i], proc', hurt')
      BY <1>4, <2>1 DEF KeptInv
    <3>1. Undisturbed(i, disk', disk', proc, proc', hurt', hurt')
      BY <1>1, <1>2, <2>7 DEF Undisturbed
    <3> QED BY <2>6, <3>1, FileStays
  <2>14. ToldInv'
    BY <1>4, <2>1, <2>4, <2>7 DEF ToldInv, Doing
  <2> QED BY <2>8, <2>9, <2>11, <2>12, <2>13, <2>14 DEF FilesInv
<1>7. CASE u.left = <<>> /\ ~ Loads(f)
  <2>1. Becomes(p, Idle) /\ UNCHANGED <<disk, nodes, hurt, manager, kept, made>>
    BY <1>1, <1>3, <1>7 DEF ImportAppends
  <2>2. manager' \in [Processes -> Ids \cup {Absent}]
        /\ UNCHANGED <<disk, nodes, entries, kept, made, vanished, raced, hurt>>
    BY <1>4, <2>1 DEF FilesTypes
  <2> QED BY <1>1, <1>2, <2>1, <2>2, Finishes
<1>8. CASE u.left = <<>> /\ Loads(f)
  <2>1. /\ proc' = [proc EXCEPT ![p] = Idle] /\ UNCHANGED <<disk, nodes, hurt>>
        /\ made' = IF f \in raced' THEN made ELSE made \cup {<<u.got.body, disk'[f].body>>}
        /\ kept' = [kept EXCEPT ![f] = @ \cup Range(disk'[f].body)]
        /\ manager' = [manager EXCEPT ![p] = f]
    BY <1>1, <1>3, <1>8 DEF ImportAppends, Imported, Becomes
  <2>2. proc'[p] = Idle /\ \A q \in Processes \ {p} : proc'[q] = proc[q]
    BY <1>4, <1>5, <2>1 DEF FilesTypes
  <2>3. Range(disk[f].body) \subseteq Nat
    <3>1. disk[f].body \in Seq(Nat)
      BY <1>4, <1>8, TypesOf DEF Loads, LoadsOn, There
    <3> QED BY <3>1 DEF Range
  <2>4. FilesTypes'
    BY <1>4, <1>5, <2>1, <2>3 DEF FilesTypes
  <2>5. NodesGiven'
    <3>1. nodes' \in Nat /\ nodes' >= nodes /\ Idle.node <= nodes'
      BY <1>4, <1>5, <2>1
    <3>2. \A g \in Files : There(g)' => disk'[g].node <= nodes'
      BY <1>4, <2>1 DEF NodesGiven, There
    <3> QED BY <1>5, <2>1, <3>1, <3>2, NodesStay
  <2>6. JobsInv'
    BY <1>4, <1>5, <2>1, <2>2 DEF JobsInv, FilesInv
  <2>7. Alone(proc', raced')
    <3>1. Apart(proc, proc', p, raced, raced')
      BY <1>4, <1>5, <2>2 DEF Apart
    <3> QED BY <3>1, AloneStays DEF FilesInv
  <2>8. KeptInv'
    <3> SUFFICES ASSUME NEW i \in Ids \ raced PROVE FileSound(i, disk, kept'[i], proc', hurt)
      BY <1>4, <2>1 DEF KeptInv
    <3>1. FileSound(i, disk, kept[i], proc, hurt)
      BY <1>4 DEF KeptInv
    <3>2. Undisturbed(i, disk, disk, proc, proc', hurt, hurt)
      BY <1>1, <1>2, <2>2 DEF Undisturbed
    <3>3. FileSound(i, disk, kept[i], proc', hurt)
      BY <3>1, <3>2, FileStays
    <3>4. CASE i # f
      BY <1>4, <2>1, <3>3, <3>4 DEF FilesTypes
    <3>5. CASE i = f
      <4>1. kept'[f] = kept[f] \cup Range(disk[f].body) /\ LoadsOn(disk, f)
        BY <1>4, <1>8, <2>1 DEF FilesTypes, Loads
      <4> QED BY <3>3, <3>5, <4>1 DEF FileSound
    <3> QED BY <3>4, <3>5
  <2>9. ToldInv'
    <3>1. f \in Ids \ raced => Range(u.got.body) \subseteq Range(disk[f].body)
      <4>1. Range(u.left) = {}
        BY <1>8 DEF Range
      <4> QED BY <1>2, <1>3, <4>1 DEF JobSound
    <3>2. \A m \in made' : Range(m[1]) \subseteq Range(m[2])
      BY <1>4, <2>1, <3>1 DEF ToldInv
    <3>3. \A q \in Processes : Doing(q, "raised")' => vanished'[q]
      BY <1>4, <1>5, <2>2 DEF ToldInv, Doing
    <3> QED BY <3>2, <3>3 DEF ToldInv
  <2> QED BY <2>4, <2>5, <2>6, <2>7, <2>8, <2>9 DEF FilesInv
<1> QED BY <1>6, <1>7, <1>8

(* What is left of a file that p was making when it died. *)
LEMMA LeftOver ==
    ASSUME FilesAssumption, FilesInv, NEW p \in Processes, Die(p), Makes(proc[p])
    PROVE  LET f == proc[p].file IN
           /\ f \in Files /\ raced \subseteq raced' /\ raced' \subseteq Files
           /\ disk' \in [Files -> Contents \cup {Absent}]
           /\ \A g \in Files \ {f} : disk'[g] = disk[g]
           /\ \A g \in Files : disk'[g] # Absent => disk'[g].node <= nodes
           /\ disk' = disk \/ (/\ There(f) /\ disk'[f] # Absent /\ disk'[f].node \in Nat
                               /\ disk'[f].node = disk[f].node)
           /\ f \in Ids \ raced' => f \in Ids \ raced /\ (LoadsOn(disk', f) => disk'[f].head = f)
<1>1. PICK u \in Jobs : u = proc[p]
  BY DEF FilesInv, FilesTypes
<1>2. /\ u.op \in {"header", "copy"} /\ JobSound(u, disk, raced, vanished[p]) /\ FilesTypes
      /\ raced \subseteq Files /\ u.node \in Nat
  BY <1>1 DEF FilesInv, FilesTypes, JobsInv, Makes, Jobs
<1>3. u.file \in Files
  BY <1>2, ContentFacts DEF JobSound
<1>4. PICK f \in Files : f = u.file
  BY <1>3
<1>5. u.op = "copy" => raced' = Changes(p)
  BY <1>1 DEF Die
<1>6. u.op = "header" => raced' = raced
  BY <1>1 DEF Die
<1>7. u.op = "copy" =>
        /\ Source(p) \in Contents /\ raced \subseteq raced' /\ raced' \subseteq Files
        /\ f \in Ids \ raced' => Source(p).head = f
  BY <1>1, <1>4, <1>5, SourceFacts DEF Doing
<1>8. raced \subseteq raced' /\ raced' \subseteq Files
  BY <1>2, <1>6, <1>7
<1>9. f \in Ids \ raced' => f \in Ids \ raced /\ ~ Loads(f)
  BY <1>1, <1>2, <1>4, <1>8, NobodyElse DEF Makes
<1>10. CASE disk' = disk
  <2>1. disk \in [Files -> Contents \cup {Absent}] /\ \A g \in Files : disk[g] # Absent => disk[g].node <= nodes
    BY DEF FilesInv, FilesTypes, NodesGiven, There
  <2> QED BY <1>1, <1>4, <1>8, <1>9, <1>10, <2>1 DEF Loads
<1>11. ASSUME NEW y \in Contents, Mine(p), y.node = u.node, disk' = [disk EXCEPT ![f] = y],
              f \in Ids \ raced' => y.head \in Marks \/ y.head = f
       PROVE  /\ disk' \in [Files -> Contents \cup {Absent}] /\ There(f)
              /\ \A g \in Files \ {f} : disk'[g] = disk[g]
              /\ \A g \in Files : disk'[g] # Absent => disk'[g].node <= nodes
              /\ disk'[f] # Absent /\ disk'[f].node \in Nat /\ disk'[f].node = disk[f].node
              /\ f \in Ids \ raced' /\ LoadsOn(disk', f) => disk'[f].head = f
  <2>1. There(f) /\ y.node = disk[f].node
    BY <1>1, <1>4, <1>11 DEF Mine
  <2>2. /\ disk' \in [Files -> Contents \cup {Absent}] /\ disk'[f] = y
        /\ \A g \in Files \ {f} : disk'[g] = disk[g]
        /\ disk'[f] # Absent /\ disk'[f].node \in Nat /\ disk'[f].node = disk[f].node
        /\ \A g \in Files : disk'[g] # Absent => disk'[g].node <= nodes
    BY <1>11, <2>1, FileReplaced
  <2> QED BY <1>11, <2>1, <2>2 DEF LoadsOn
<1>12. CASE u.op = "header" /\ Mine(p) /\ disk' = [disk EXCEPT ![f].head = "torn"]
  <2>1. PICK x \in Contents : x = disk[f] /\ x.node = u.node
    BY <1>1, <1>2, <1>4, <1>12 DEF Mine, There, FilesTypes
  <2> DEFINE y == [x EXCEPT !.head = "torn"]
  <2>2. y \in Contents /\ y.head = "torn" /\ y.node = u.node
    BY <2>1, HeadReplaced DEF Marks
  <2>3. disk' = [disk EXCEPT ![f] = y]
    BY <1>12, <2>1
  <2> HIDE DEF y
  <2>4. y.head \in Marks
    BY <2>2 DEF Marks
  <2> QED BY <1>1, <1>4, <1>8, <1>9, <1>11, <1>12, <2>2, <2>3, <2>4
<1>13. ASSUME u.op = "copy", Mine(p), NEW n \in 0 .. Len(Source(p).body),
              disk' = [disk EXCEPT ![f] =
                        Content(Source(p).head, SubSeq(Source(p).body, 1, n), TRUE, u.node)]
       PROVE  /\ disk' \in [Files -> Contents \cup {Absent}] /\ There(f)
              /\ \A g \in Files \ {f} : disk'[g] = disk[g]
              /\ \A g \in Files : disk'[g] # Absent => disk'[g].node <= nodes
              /\ disk'[f] # Absent /\ disk'[f].node \in Nat /\ disk'[f].node = disk[f].node
              /\ f \in Ids \ raced' /\ LoadsOn(disk', f) => disk'[f].head = f
  <2>1. PICK x \in Contents : x = Source(p)
    BY <1>7, <1>13
  <2>2. x.body \in Seq(Nat) /\ x.head \in Files \cup Marks
    BY DEF Contents
  <2>3. SubSeq(x.body, 1, n) \in Seq(Nat)
    <3>1. Len(x.body) \in Nat /\ n \in 1 - 1 .. Len(x.body) /\ 1 \in 1 .. Len(x.body) + 1
      BY <1>13, <2>1, <2>2, LenProperties
    <3> QED BY <2>2, <3>1, SubSeqProperties, SMTT(30)
  <2> DEFINE y == Content(x.head, SubSeq(x.body, 1, n), TRUE, u.node)
  <2>4. y \in Contents /\ y.head = x.head /\ y.node = u.node
    BY <1>2, <2>2, <2>3 DEF Content, Contents
  <2>5. disk' = [disk EXCEPT ![f] = y]
    BY <1>13, <2>1
  <2> HIDE DEF y
  <2>6. f \in Ids \ raced' => y.head = f
    BY <1>7, <1>13, <2>1, <2>4
  <2> QED BY <1>11, <1>13, <2>4, <2>5, <2>6
<1>14. \/ disk' = disk
       \/ u.op = "header" /\ Mine(p) /\ disk' = [disk EXCEPT ![f].head = "torn"]
       \/ /\ u.op = "copy" /\ Mine(p)
          /\ \E n \in 0 .. Len(Source(p).body) :
                disk' = [disk EXCEPT ![f] =
                            Content(Source(p).head, SubSeq(Source(p).body, 1, n), TRUE, u.node)]
  BY <1>1, <1>4 DEF Die
<1> QED BY <1>1, <1>4, <1>8, <1>9, <1>10, <1>12, <1>13, <1>14

LEMMA DieKeeps ==
    ASSUME FilesAssumption, FilesInv, NEW p \in Processes, Die(p)
    PROVE  FilesInv'
<1>1. PICK u \in Jobs : u = proc[p]
  BY DEF FilesInv, FilesTypes
<1>2. /\ JobSound(u, disk, raced, vanished[p]) /\ FilesTypes /\ NodesGiven /\ ToldInv /\ nodes \in Nat
      /\ proc' = [proc EXCEPT ![p] = Idle] /\ manager' = [manager EXCEPT ![p] = Absent]
      /\ hurt' = IF u.op \in {"header", "entries", "copy"} THEN hurt \cup {u.file} ELSE hurt
      /\ UNCHANGED <<nodes, entries, uses, kept, made, vanished>>
  BY <1>1 DEF FilesInv, FilesTypes, JobsInv, Die, Becomes
<1>3. Idle \in Jobs /\ ~ Makes(Idle) /\ Idle.node = 0 /\ Idle.op = "none"
      /\ JobSound(Idle, disk', raced', vanished'[p])
  BY IdleJob
<1>4. u.op \in {"header", "entries", "copy"} => u.file \in Files
  BY <1>2, ContentFacts DEF JobSound
<1>5. hurt \subseteq hurt' /\ hurt' \subseteq Files
  BY <1>2, <1>4 DEF FilesTypes
<1>6. ToldInv'
  BY <1>2, <1>3 DEF ToldInv, Doing, FilesTypes
<1>7. nodes' \in Nat /\ nodes' >= nodes /\ Idle.node <= nodes' /\ vanished' = vanished
  BY <1>2, <1>3
<1>8. CASE ~ Makes(u)
  <2>1. disk' = disk /\ raced' = raced
    BY <1>1, <1>8 DEF Die, Makes
  <2>2. FilesTypes'
    BY <1>2, <1>3, <1>5, <2>1 DEF FilesTypes
  <2>3. NodesGiven'
    <3>1. \A g \in Files : There(g)' => disk'[g].node <= nodes'
      BY <1>2, <2>1 DEF NodesGiven, There
    <3> QED BY <1>2, <1>3, <1>7, <3>1, NodesStay
  <2>4. ASSUME NEW q \in Processes \ {p}
        PROVE  Spares(proc[q], disk, disk', raced, raced', vanished[q], vanished'[q])
    <3>1. JobSound(proc[q], disk, raced, vanished[q])
      BY DEF FilesInv, JobsInv
    <3> QED BY <1>7, <2>1, <3>1 DEF JobSound, Spares
  <2>5. ASSUME NEW i \in Ids \ raced' PROVE FileSound(i, disk', kept'[i], proc', hurt')
    <3>1. FileSound(i, disk, kept[i], proc, hurt) /\ kept'[i] = kept[i]
      BY <1>2, <2>1 DEF FilesInv, KeptInv
    <3>2. Undisturbed(i, disk, disk', proc, proc', hurt, hurt')
      BY <1>1, <1>2, <1>5, <1>8, <2>1 DEF Undisturbed, FilesTypes
    <3> QED BY <3>1, <3>2, FileStays
  <2> QED BY <1>2, <1>3, <1>6, <2>1, <2>2, <2>3, <2>4, <2>5, StepKeeps
<1>9. CASE Makes(u)
  <2>1. PICK f \in Files : f = u.file
    BY <1>4, <1>9 DEF Makes
  <2>2. /\ raced \subseteq raced' /\ raced' \subseteq Files
        /\ disk' \in [Files -> Contents \cup {Absent}]
        /\ \A g \in Files \ {f} : disk'[g] = disk[g]
        /\ \A g \in Files : disk'[g] # Absent => disk'[g].node <= nodes
        /\ disk' = disk \/ (/\ There(f) /\ disk'[f] # Absent /\ disk'[f].node \in Nat
                            /\ disk'[f].node = disk[f].node)
        /\ f \in Ids \ raced' => f \in Ids \ raced /\ (LoadsOn(disk', f) => disk'[f].head = f)
    BY <1>1, <1>9, <2>1, LeftOver
  <2>3. f \in Ids \ raced' =>
            /\ ~ Loads(f) /\ kept[f] = {}
            /\ \A q \in Processes \ {p} : proc[q].file = f => ~ Makes(proc[q]) /\ proc[q].op # "entries"
    <3> HAVE f \in Ids \ raced'
    <3>1. ~ Loads(f)
          /\ \A q \in Processes \ {p} : proc[q].file = f => ~ Makes(proc[q]) /\ proc[q].op # "entries"
      BY <1>1, <1>9, <2>1, <2>2, NobodyElse
    <3> QED BY <2>2, <3>1 DEF FilesInv, KeptInv, FileSound, Loads
  <2>4. FilesTypes'
    BY <1>2, <1>3, <1>5, <2>2 DEF FilesTypes
  <2>5. NodesGiven'
    <3>1. \A g \in Files : There(g)' => disk'[g].node <= nodes'
      BY <1>2, <2>2 DEF There
    <3> QED BY <1>2, <1>3, <1>7, <3>1, NodesStay
  <2>6. \A q \in Processes \ {p} :
            Spares(proc[q], disk, disk', raced, raced', vanished[q], vanished'[q])
    <3>1. CASE disk' = disk
      <4> SUFFICES ASSUME NEW q \in Processes \ {p}
                   PROVE  Spares(proc[q], disk, disk, raced, raced', vanished[q], vanished[q])
        BY <1>7, <3>1
      <4>1. JobSound(proc[q], disk, raced, vanished[q])
        BY DEF FilesInv, JobsInv
      <4> QED BY <2>2, <4>1 DEF JobSound, Spares
    <3>2. CASE There(f) /\ disk'[f] # Absent /\ disk'[f].node \in Nat /\ disk'[f].node = disk[f].node
      BY <1>7, <2>2, <2>3, <3>2, OthersSpared
    <3> QED BY <2>2, <3>1, <3>2
  <2>7. ASSUME NEW i \in Ids \ raced' PROVE FileSound(i, disk', kept'[i], proc', hurt')
    <3>1. CASE i # f
      <4>1. hurt \ {f} \subseteq hurt' /\ kept'[i] = kept[i] /\ (Makes(proc[p]) => proc[p].file = f)
        BY <1>1, <1>2, <1>5, <2>1
      <4> QED BY <1>2, <1>3, <2>2, <3>1, <4>1, ElsewhereSound, ZenonT(60)
    <3>2. CASE i = f
      <4>1. kept'[i] = {} /\ i \in hurt' /\ (LoadsOn(disk', i) => disk'[i].head = i)
        BY <1>2, <1>9, <2>1, <2>2, <2>3, <3>2 DEF Makes
      <4> QED BY <4>1 DEF FileSound
    <3> QED BY <3>1, <3>2
  <2>8. proc[p].file \in raced => proc[p].file \in raced'
    BY <2>2
  <2> QED BY <1>2, <1>3, <1>6, <2>4, <2>5, <2>6, <2>7, <2>8, StepKeeps
<1> QED BY <1>8, <1>9

-----------------------------------------------------------------------------
LEMMA FilesInvariance == FilesSpec => []FilesInv
<1>1. FilesInit => FilesInv
  <2> SUFFICES ASSUME FilesInit PROVE FilesInv
    OBVIOUS
  <2>1. Idle \in Jobs /\ Idle.op = "none" /\ Idle.node = 0 /\ ~ Makes(Idle)
        /\ \A d, bad, gone : JobSound(Idle, d, bad, gone)
    BY FilesAssumption, IdleJob
  <2>2. \A f \in Files : disk[f] = Absent
    BY DEF FilesInit
  <2>3. FilesTypes
    BY <2>1 DEF FilesInit, FilesTypes
  <2>4. NodesGiven
    BY <2>1, <2>2 DEF FilesInit, NodesGiven, There
  <2>5. JobsInv /\ Alone(proc, raced) /\ ToldInv
    BY <2>1 DEF FilesInit, JobsInv, Alone, ToldInv, Doing
  <2>6. KeptInv
    BY <2>2, FilesAssumption, ContentFacts DEF FilesInit, KeptInv, FileSound, LoadsOn
  <2> QED BY <2>3, <2>4, <2>5, <2>6 DEF FilesInv
<1>2. FilesInv /\ [FilesNext]_sessionVars => FilesInv'
  <2> SUFFICES ASSUME FilesInv, [FilesNext]_sessionVars PROVE FilesInv'
    OBVIOUS
  <2> USE FilesAssumption
  <2>1. CASE UNCHANGED sessionVars
    BY <2>1 DEF FilesInv, FilesTypes, NodesGiven, JobsInv, KeptInv, ToldInv, There, Doing, sessionVars
  <2>2. ASSUME NEW p \in Processes, NEW f \in Ids,
               Create(p, f) \/ OpenSession(p, f) \/ Delete(p, f) \/ Export(p, f) \/ Import(p, f)
        PROVE  FilesInv'
    BY <2>2, CreateKeeps, OpenKeeps, DeleteKeeps, ExportKeeps, ImportKeeps
  <2>3. ASSUME NEW p \in Processes,
               \/ WriteHeader(p) \/ Say(p) \/ List(p) \/ Row(p) \/ Told(p)
               \/ ImportCopies(p) \/ ImportMakes(p) \/ CopyWrites(p) \/ ImportAppends(p) \/ Die(p)
        PROVE  FilesInv'
    BY <2>3, WriteHeaderKeeps, SayKeeps, ListKeeps, ImportCopiesKeeps, ImportMakesKeeps,
       CopyWritesKeeps, ImportAppendsKeeps, DieKeeps
  <2> QED BY <2>1, <2>2, <2>3 DEF FilesNext
<1> QED BY <1>1, <1>2, PTL DEF FilesSpec

(* Whatever the processes that share the directory do at once, a session that nobody else made,
   deleted or exported meanwhile has every entry that was acknowledged, an import takes no
   session's place and answers all that it loaded, what does not load was left by one that
   died, and a list fails only when a file is deleted under it. *)
THEOREM SessionsStay == FilesSpec => []SessionsKept
<1>1. FilesInv => SessionsKept
  <2> SUFFICES ASSUME FilesInv PROVE SessionsKept
    OBVIOUS
  <2>1. \A i \in Ids \ raced : FileSound(i, disk, kept[i], proc, hurt)
    BY DEF FilesInv, KeptInv
  <2>2. ASSUME NEW i \in Ids \ raced
        PROVE  /\ kept[i] # {} => Loads(i) /\ kept[i] \subseteq Range(disk[i].body)
               /\ Loads(i) => disk[i].head = i
               /\ There(i) /\ ~ Loads(i) => i \in hurt \/ BeingMade(i)
    BY <2>1 DEF FileSound, Loads, There, BeingMade, Makes, MadeBy, Mine
  <2> QED BY <2>2 DEF SessionsKept, FilesInv, ToldInv
<1> QED BY <1>1, FilesInvariance, PTL

-----------------------------------------------------------------------------
(* SessionMetadata: what the tree of a session may look like. *)
Notes ==
    [kind : {"model"}, value : ToSet(Models), parent : Nat]
    \cup [kind : {"level"}, value : ToSet(Levels), parent : Nat]
    \cup [kind : {"label"}, value : Names, parent : Nat]
Trees == [entries : Seq(Notes), leaf : Nat, name : Names \cup {Unset}]
TreeSound(s) ==
    /\ s \in Trees /\ s.leaf <= Len(s.entries)
    /\ \A e \in DOMAIN s.entries : s.entries[e].parent < e

(* A model and a level come first, and all others after them. *)
FirstTwo(s) ==
    /\ Len(s.entries) >= 2
    /\ s.entries[1].kind = "model" /\ s.entries[2].kind = "level" /\ s.entries[2].parent = 1
    /\ \A e \in DOMAIN s.entries : e > 2 => s.entries[e].parent >= 2
Rooted(s) == FirstTwo(s) /\ s.leaf >= 2

MetadataTypes ==
    /\ registry \subseteq ToSet(Models) /\ given \in BOOLEAN /\ torn \in BOOLEAN
    /\ registry # {} => cur \in DOMAIN sessions /\ model \in ToSet(Models) /\ level \in ToSet(Levels)
TreesInv ==
    /\ sessions \in Seq(Trees)
    /\ \A i \in DOMAIN sessions : TreeSound(sessions[i])
    /\ \A i \in DOMAIN sessions \ bare : Rooted(sessions[i])
NamesInv ==
    /\ named \in Seq(Names \cup {Unset}) /\ Len(named) = Len(sessions)
    /\ \A i \in DOMAIN sessions : NameOf(sessions[i]) = named[i]

(* What the agent has is what the session s says. *)
Agrees(s, models, m, l, option) ==
    /\ ~option /\ OnPath(s, "model") \in models => m = OnPath(s, "model")
    /\ OnPath(s, "level") # Unset => l \in {OnPath(s, "level"), "off"}
AgentInv == registry # {} /\ ~torn => Agrees(sessions[cur], registry, model, level, given)

MetadataInv == MetadataTypes /\ TreesInv /\ NamesInv /\ AgentInv

LEMMA NatInduct ==
  ASSUME NEW S \in SUBSET Nat, 0 \in S, \A n \in Nat : n \in S => n + 1 \in S
  PROVE  \A n \in Nat : n \in S
<1> DEFINE T == Nat \ S
<1>1. SUFFICES ASSUME T # {} PROVE FALSE
  OBVIOUS
<1>2. T \subseteq Nat
  OBVIOUS
<1>3. Min(T) \in T /\ \A m \in T : Min(T) <= m
  BY <1>1, <1>2, LeastOf
<1>4. Min(T) \in Nat /\ Min(T) # 0
  BY <1>3
<1>5. Min(T) - 1 \in Nat /\ Min(T) - 1 < Min(T) /\ (Min(T) - 1) + 1 = Min(T)
  BY <1>4
<1>6. Min(T) - 1 \notin T
  BY <1>3, <1>5
<1>. QED BY <1>3, <1>5, <1>6

-----------------------------------------------------------------------------
(* How BranchTo is computed. *)
BranchRule(en, n, g) ==
    g = [e \in 0 .. n |-> IF e = 0 THEN <<>> ELSE Append(g[en[e].parent], e)]

LEMMA BranchIs ==
  ASSUME NEW s, NEW n \in Nat
  PROVE  BranchTo(s, n) = (CHOOSE g : BranchRule(s.entries, n, g))[n]
BY DEF BranchTo, BranchRule

LEMMA BranchStep ==
  ASSUME NEW en, NEW n \in Nat, NEW g, BranchRule(en, n, g)
  PROVE  /\ g[0] = <<>>
         /\ \A e \in 1 .. n : g[e] = Append(g[en[e].parent], e)
<1> DEFINE E(e) == IF e = 0 THEN <<>> ELSE Append(g[en[e].parent], e)
           f == [e \in 0 .. n |-> E(e)]
<1>1. g = f
  BY DEF BranchRule
<1> HIDE DEF E
<1>2. \A e \in 0 .. n : f[e] = E(e)
  OBVIOUS
<1> HIDE DEF f
<1>3. \A e \in 0 .. n : g[e] = E(e)
  BY <1>1, <1>2
<1>4. 0 \in 0 .. n /\ \A e \in 1 .. n : e \in 0 .. n /\ e # 0
  OBVIOUS
<1>. QED BY <1>3, <1>4 DEF E

LEMMA BranchesExist ==
  ASSUME NEW en, NEW n \in Nat, \A e \in 1 .. n : en[e].parent \in 0 .. e - 1
  PROVE  \E g : BranchRule(en, n, g)
<1> DEFINE S == {k \in Nat : k <= n => \E g : BranchRule(en, k, g)}
<1>1. 0 \in S
  <2>. DEFINE g == [e \in 0 .. 0 |-> <<>>]
  <2>1. BranchRule(en, 0, g)
    BY DEF BranchRule
  <2>. QED BY <2>1
<1>2. ASSUME NEW k \in Nat, k \in S PROVE k + 1 \in S
  <2>. SUFFICES ASSUME k + 1 <= n PROVE \E h : BranchRule(en, k + 1, h)
    OBVIOUS
  <2>1. PICK g : BranchRule(en, k, g)
    BY <1>2
  <2>. DEFINE Next1(f, e) == Append(f[en[e].parent], e)
              h == [e \in 0 .. k + 1 |-> IF e = k + 1 THEN Next1(g, e) ELSE g[e]]
  <2>2. /\ g[0] = <<>> /\ \A e \in 1 .. k : g[e] = Next1(g, e)
    BY <2>1, BranchStep
  <2>3. \A e \in 0 .. k + 1 : e # 0 => en[e].parent \in 0 .. k
    OBVIOUS
  <2>4. \A e \in 0 .. k + 1 : e # 0 => h[en[e].parent] = g[en[e].parent]
    BY <2>3
  <2>5. \A e \in 0 .. k + 1 : h[e] = IF e = 0 THEN <<>> ELSE Next1(h, e)
    <3>1. TAKE e \in 0 .. k + 1
    <3>2. CASE e = k + 1
      <4>1. h[e] = Next1(g, e) /\ e # 0
        BY <3>2
      <4>2. h[en[e].parent] = g[en[e].parent]
        BY <2>4, <4>1
      <4>3. Next1(h, e) = Next1(g, e)
        <5>. HIDE DEF h
        <5>. QED BY <4>2
      <4>. HIDE DEF h, Next1
      <4>. QED BY <4>1, <4>3
    <3>3. CASE e = 0
      BY <2>2, <3>3
    <3>4. CASE e \in 1 .. k
      <4>1. h[e] = g[e] /\ h[en[e].parent] = g[en[e].parent]
        BY <2>4, <3>4
      <4>2. g[e] = Next1(g, e)
        BY <2>2, <3>4
      <4>3. e # 0
        BY <3>4
      <4>. HIDE DEF h
      <4>. QED BY <4>1, <4>2, <4>3
    <3>. QED BY <3>2, <3>3, <3>4
  <2>6. h = [e \in 0 .. k + 1 |-> IF e = 0 THEN <<>> ELSE Next1(h, e)]
    <3>. HIDE DEF Next1
    <3>. DEFINE f == [e \in 0 .. k + 1 |-> IF e = 0 THEN <<>> ELSE Next1(h, e)]
    <3>1. \A e \in 0 .. k + 1 : f[e] = h[e]
      BY <2>5
    <3>2. h = [e \in 0 .. k + 1 |-> h[e]] /\ f = [e \in 0 .. k + 1 |-> f[e]]
      OBVIOUS
    <3>. HIDE DEF h, f
    <3>3. h = f
      BY <3>1, <3>2
    <3>. QED BY <3>3 DEF f
  <2>7. BranchRule(en, k + 1, h)
    BY <2>6 DEF BranchRule
  <2>. HIDE DEF h
  <2>. QED BY <2>7
<1>3. S \in SUBSET Nat
  OBVIOUS
<1> HIDE DEF S
<1>4. n \in S
  BY <1>1, <1>2, <1>3, NatInduct
<1>. QED BY <1>4 DEF S

(* It computes the same for every leaf. *)
LEMMA BranchesAgree ==
  ASSUME NEW en, NEW n \in Nat, NEW k \in Nat, k <= n, NEW g, NEW h,
         BranchRule(en, n, g), BranchRule(en, k, h), \A e \in 1 .. n : en[e].parent \in 0 .. e - 1
  PROVE  g[k] = h[k]
<1> DEFINE T == {e \in 0 .. k : g[e] # h[e]}
<1>1. g[0] = <<>> /\ \A e \in 1 .. n : g[e] = Append(g[en[e].parent], e)
  BY BranchStep
<1>2. h[0] = <<>> /\ \A e \in 1 .. k : h[e] = Append(h[en[e].parent], e)
  BY BranchStep
<1>3. k \in 0 .. k
  OBVIOUS
<1>13. SUFFICES ASSUME T # {} PROVE FALSE
  BY <1>3, Zenon
<1>4. T \subseteq Nat
  OBVIOUS
<1> HIDE DEF T
<1>5. Min(T) \in T /\ \A e \in T : Min(T) <= e
  BY <1>13, <1>4, LeastOf
<1> DEFINE e == Min(T)
           q == en[e].parent
<1>6. e \in 0 .. k /\ g[e] # h[e]
  BY <1>5 DEF T
<1> HIDE DEF e
<1>7. e \in 1 .. k
  BY <1>1, <1>2, <1>6
<1>8. q \in 0 .. k /\ q < e
  BY <1>7
<1>9. q \notin T
  BY <1>5, <1>8, <1>4, <1>7 DEF e
<1>10. g[q] = h[q]
  BY <1>8, <1>9 DEF T
<1> HIDE DEF q
<1>14. e \in 1 .. n
  BY <1>7
<1>11. g[e] = Append(g[q], e) /\ h[e] = Append(h[q], e)
  BY <1>1, <1>2, <1>7, <1>14 DEF q
<1>. QED BY <1>6, <1>10, <1>11

LEMMA NoteFacts ==
  ASSUME NEW s, TreeSound(s)
  PROVE  /\ Len(s.entries) \in Nat /\ DOMAIN s.entries = 1 .. Len(s.entries)
         /\ s.entries \in Seq(Notes) /\ s.leaf \in 0 .. Len(s.entries)
         /\ \A e \in 1 .. Len(s.entries) :
                /\ s.entries[e] \in Notes
                /\ s.entries[e].parent \in 0 .. e - 1
<1>1. s.entries \in Seq(Notes) /\ s.leaf \in Nat /\ s.leaf <= Len(s.entries)
  BY DEF TreeSound, Trees
<1>2. Len(s.entries) \in Nat /\ DOMAIN s.entries = 1 .. Len(s.entries)
  BY <1>1, LenProperties
<1>3. ASSUME NEW e \in 1 .. Len(s.entries)
      PROVE  s.entries[e] \in Notes /\ s.entries[e].parent \in 0 .. e - 1
  <2>1. s.entries[e] \in Notes
    BY <1>1, ElementOfSeq
  <2>2. s.entries[e].parent \in Nat
    BY <2>1 DEF Notes
  <2>3. s.entries[e].parent < e
    BY <1>2 DEF TreeSound
  <2>. QED BY <2>1, <2>2, <2>3
<1>. QED BY <1>1, <1>2, <1>3

LEMMA BranchFacts ==
  ASSUME NEW s, TreeSound(s)
  PROVE  /\ BranchTo(s, 0) = <<>>
         /\ \A e \in 1 .. Len(s.entries) : BranchTo(s, e) = Append(BranchTo(s, s.entries[e].parent), e)
<1> DEFINE en == s.entries
           Of(k) == CHOOSE g : BranchRule(en, k, g)
<1>1. Len(en) \in Nat /\ \A e \in 1 .. Len(en) : en[e].parent \in 0 .. e - 1
  BY NoteFacts
<1> HIDE DEF en
<1>2. ASSUME NEW k \in 0 .. Len(en) PROVE BranchRule(en, k, Of(k))
  <2>1. k \in Nat /\ \A e \in 1 .. k : en[e].parent \in 0 .. e - 1
    BY <1>1
  <2>2. \E g : BranchRule(en, k, g)
    BY <2>1, BranchesExist
  <2>. QED BY <2>2
<1>3. ASSUME NEW k \in Nat PROVE BranchTo(s, k) = Of(k)[k]
  BY BranchIs DEF en
<1> HIDE DEF Of
<1>4. BranchTo(s, 0) = <<>>
  <2>1. 0 \in 0 .. Len(en) /\ 0 \in Nat
    BY <1>1
  <2>2. Of(0)[0] = <<>>
    BY <1>2, <2>1, BranchStep
  <2>. QED BY <1>3, <2>2
<1>5. ASSUME NEW e \in 1 .. Len(en)
      PROVE  BranchTo(s, e) = Append(BranchTo(s, en[e].parent), e)
  <2>. DEFINE q == en[e].parent
  <2>1. e \in Nat /\ q \in Nat /\ q <= e /\ e \in 0 .. Len(en) /\ q \in 0 .. Len(en) /\ e \in 1 .. e
    BY <1>1
  <2>2. \A f \in 1 .. e : en[f].parent \in 0 .. f - 1
    BY <1>1
  <2>3. BranchRule(en, e, Of(e)) /\ BranchRule(en, q, Of(q))
    BY <1>2, <2>1
  <2>4. Of(e)[e] = Append(Of(e)[q], e)
    BY <2>1, <2>3, BranchStep
  <2>. HIDE DEF q
  <2>5. Of(e)[q] = Of(q)[q]
    <3>1. e \in Nat /\ q \in Nat /\ q <= e
      BY <2>1
    <3>. QED BY <2>2, <2>3, <3>1, BranchesAgree
  <2>6. BranchTo(s, e) = Of(e)[e] /\ BranchTo(s, q) = Of(q)[q]
    BY <1>3, <2>1
  <2>. QED BY <2>4, <2>5, <2>6 DEF q
<1>. QED BY <1>4, <1>5 DEF en

LEMMA WithOneMore ==
  ASSUME NEW q \in Seq(Nat), NEW e \in Nat
  PROVE  Append(q, e) \in Seq(Nat) /\ ToSet(Append(q, e)) = ToSet(q) \cup {e} /\ Append(q, e) # <<>>
<1>1. Len(q) \in Nat /\ DOMAIN q = 1 .. Len(q)
  BY LenProperties
<1>2. /\ Append(q, e) \in Seq(Nat) /\ DOMAIN Append(q, e) = 1 .. Len(q) + 1
      /\ Append(q, e)[Len(q) + 1] = e /\ \A i \in 1 .. Len(q) : Append(q, e)[i] = q[i]
      /\ Len(Append(q, e)) = Len(q) + 1
  BY <1>1, AppendProperties, LenProperties
<1>3. 1 .. Len(q) + 1 = 1 .. Len(q) \cup {Len(q) + 1}
  BY <1>1
<1>4. Append(q, e) # <<>>
  BY <1>1, <1>2
<1>5. ToSet(Append(q, e)) = ToSet(q) \cup {e}
  BY <1>1, <1>2, <1>3 DEF ToSet
<1>. QED BY <1>2, <1>4, <1>5

(* The entries on the branch that ends in e. *)
On(s, e) == ToSet(BranchTo(s, e))

LEMMA OnFacts ==
  ASSUME NEW s, TreeSound(s)
  PROVE  /\ On(s, 0) = {}
         /\ \A e \in 1 .. Len(s.entries) : On(s, e) = On(s, s.entries[e].parent) \cup {e}
         /\ \A e \in 0 .. Len(s.entries) : On(s, e) \subseteq 1 .. e
         /\ \A e \in 0 .. Len(s.entries) : BranchTo(s, e) = <<>> <=> e = 0
<1> DEFINE n == Len(s.entries)
           Q(e) == s.entries[e].parent
           Good(e) == BranchTo(s, e) \in Seq(Nat) /\ On(s, e) \subseteq 1 .. e
           T == {e \in 0 .. n : ~ Good(e)}
<1>1. n \in Nat /\ \A e \in 1 .. n : Q(e) \in 0 .. e - 1
  BY NoteFacts
<1>2. BranchTo(s, 0) = <<>> /\ \A e \in 1 .. n : BranchTo(s, e) = Append(BranchTo(s, Q(e)), e)
  BY BranchFacts
<1> HIDE DEF n, Q
<1>3. On(s, 0) = {} /\ Good(0)
  <2>1. ToSet(<<>>) = {} /\ <<>> \in Seq(Nat)
    BY DEF ToSet
  <2>. QED BY <1>2, <2>1 DEF On
<1>4. ASSUME NEW e \in 1 .. n, Good(Q(e))
      PROVE  On(s, e) = On(s, Q(e)) \cup {e} /\ Good(e) /\ BranchTo(s, e) # <<>>
  <2>1. e \in Nat /\ Q(e) \in 0 .. e - 1 /\ BranchTo(s, e) = Append(BranchTo(s, Q(e)), e)
    BY <1>1, <1>2
  <2>2. On(s, e) = On(s, Q(e)) \cup {e} /\ BranchTo(s, e) \in Seq(Nat) /\ BranchTo(s, e) # <<>>
    BY <1>4, <2>1, WithOneMore DEF On
  <2>3. On(s, Q(e)) \subseteq 1 .. e
    BY <1>4, <2>1
  <2>. QED BY <2>1, <2>2, <2>3
<1>5. T = {}
  <2>1. SUFFICES ASSUME T # {} PROVE FALSE
    OBVIOUS
  <2>2. T \subseteq Nat
    BY <1>1
  <2>3. Min(T) \in T /\ \A e \in T : Min(T) <= e
    BY <2>1, <2>2, LeastOf
  <2>4. PICK e \in 0 .. n : ~ Good(e) /\ \A f \in T : e <= f
    BY <2>3
  <2>5. e # 0
    BY <1>3, <2>4
  <2>6. e \in 1 .. n /\ Q(e) \in 0 .. n /\ Q(e) < e
    BY <1>1, <2>5
  <2>7. Q(e) \notin T
    BY <2>2, <2>4, <2>6
  <2>8. Good(Q(e))
    BY <2>6, <2>7
  <2>. HIDE DEF Good
  <2>. QED BY <1>4, <2>4, <2>6, <2>8
<1>6. \A e \in 0 .. n : Good(e)
  BY <1>5 DEF T
<1>10. \A e \in 1 .. n : Q(e) \in 0 .. n
  BY <1>1
<1>7. \A e \in 1 .. n : Good(Q(e))
  <2>. HIDE DEF Good
  <2>. QED BY <1>10, <1>6
<1>8. \A e \in 1 .. n : On(s, e) = On(s, Q(e)) \cup {e} /\ BranchTo(s, e) # <<>>
  BY <1>4, <1>7
<1>9. \A e \in 0 .. n : e = 0 \/ e \in 1 .. n
  BY <1>1
<1>. QED BY <1>2, <1>3, <1>6, <1>8, <1>9 DEF n, Q

(* An entry more leaves the branches there are. *)
LEMMA BranchKept ==
  ASSUME NEW s, NEW t, NEW e \in Nat, \A i \in 1 .. e : s.entries[i] = t.entries[i]
  PROVE  BranchTo(s, e) = BranchTo(t, e) /\ On(s, e) = On(t, e)
<1>1. ASSUME NEW g PROVE BranchRule(s.entries, e, g) <=> BranchRule(t.entries, e, g)
  <2>1. [i \in 0 .. e |-> IF i = 0 THEN <<>> ELSE Append(g[s.entries[i].parent], i)]
            = [i \in 0 .. e |-> IF i = 0 THEN <<>> ELSE Append(g[t.entries[i].parent], i)]
    OBVIOUS
  <2>. QED BY <2>1 DEF BranchRule
<1>2. (CHOOSE g : BranchRule(s.entries, e, g)) = (CHOOSE g : BranchRule(t.entries, e, g))
  BY <1>1
<1>3. BranchTo(s, e) = BranchTo(t, e)
  BY <1>2, BranchIs
<1>. QED BY <1>3 DEF On

-----------------------------------------------------------------------------
(* What a session says of its model, its level and its name. *)
Known(s, kind) == {e \in On(s, s.leaf) : s.entries[e].kind = kind}
Labels(s) == {e \in DOMAIN s.entries : s.entries[e].kind = "label"}

LEMMA KnownIs ==
  ASSUME NEW s, TreeSound(s), NEW kind
  PROVE  /\ OnPath(s, kind) = IF Known(s, kind) = {} THEN Unset ELSE s.entries[Max(Known(s, kind))].value
         /\ Known(s, kind) \subseteq 1 .. Len(s.entries)
         /\ Known(s, kind) # {} => Max(Known(s, kind)) \in Known(s, kind)
         /\ NameOf(s) = IF Labels(s) = {} THEN s.name ELSE s.entries[Max(Labels(s))].value
         /\ Labels(s) \subseteq 1 .. Len(s.entries)
         /\ Labels(s) # {} => Max(Labels(s)) \in Labels(s)
<1>1. Len(s.entries) \in Nat /\ s.leaf \in 0 .. Len(s.entries) /\ DOMAIN s.entries = 1 .. Len(s.entries)
  BY NoteFacts
<1>2. On(s, s.leaf) \subseteq 1 .. s.leaf
  BY <1>1, OnFacts
<1>3. Known(s, kind) \subseteq 1 .. Len(s.entries) /\ Labels(s) \subseteq 1 .. Len(s.entries)
  BY <1>1, <1>2 DEF Known, Labels
<1>4. Known(s, kind) \subseteq 0 .. Len(s.entries) /\ Labels(s) \subseteq 0 .. Len(s.entries)
  BY <1>3
<1>5. /\ Known(s, kind) # {} => Max(Known(s, kind)) \in Known(s, kind)
      /\ Labels(s) # {} => Max(Labels(s)) \in Labels(s)
  BY <1>1, <1>4, GreatestOf
<1>6. OnPath(s, kind) = IF Known(s, kind) = {} THEN Unset ELSE s.entries[Max(Known(s, kind))].value
  BY DEF OnPath, Path, Known, On
<1>7. NameOf(s) = IF Labels(s) = {} THEN s.name ELSE s.entries[Max(Labels(s))].value
  BY DEF NameOf, Labels
<1>. QED BY <1>3, <1>5, <1>6, <1>7

LEMMA MaxOfMore ==
  ASSUME NEW n \in Nat, NEW S, S \subseteq 1 .. n
  PROVE  Max(S \cup {n + 1}) = n + 1
<1>1. S \cup {n + 1} \subseteq 0 .. n + 1 /\ S \cup {n + 1} # {} /\ n + 1 \in Nat
  OBVIOUS
<1>2. /\ Max(S \cup {n + 1}) \in S \cup {n + 1}
      /\ \A x \in S \cup {n + 1} : x <= Max(S \cup {n + 1})
  BY <1>1, GreatestOf
<1>3. n + 1 <= Max(S \cup {n + 1}) /\ Max(S \cup {n + 1}) \in 0 .. n + 1
  BY <1>1, <1>2
<1>. QED BY <1>3

LEMMA WithEntryTree ==
  ASSUME NEW s, TreeSound(s), NEW kind, NEW value, TreeEntry(kind, value, s.leaf) \in Notes
  PROVE  LET t == WithEntry(s, kind, value)
             n == Len(s.entries)
         IN  /\ TreeSound(t) /\ Len(t.entries) = n + 1 /\ t.leaf = n + 1 /\ t.name = s.name
             /\ DOMAIN t.entries = 1 .. n + 1
             /\ \A e \in 1 .. n : t.entries[e] = s.entries[e]
             /\ t.entries[n + 1] = TreeEntry(kind, value, s.leaf)
             /\ On(t, t.leaf) = On(s, s.leaf) \cup {n + 1}
             /\ FirstTwo(s) /\ s.leaf >= 2 => FirstTwo(t)
<1> DEFINE t == WithEntry(s, kind, value)
           n == Len(s.entries)
           new == TreeEntry(kind, value, s.leaf)
<1>1. /\ n \in Nat /\ s.entries \in Seq(Notes) /\ s.leaf \in 0 .. n /\ DOMAIN s.entries = 1 .. n
      /\ \A e \in 1 .. n : s.entries[e].parent \in 0 .. e - 1
  BY NoteFacts
<1>2. t = [entries |-> Append(s.entries, new), leaf |-> n + 1, name |-> s.name] /\ s.name \in Names \cup {Unset}
  <2>1. s \in [entries : Seq(Notes), leaf : Nat, name : Names \cup {Unset}]
    BY DEF TreeSound, Trees
  <2>2. s = [entries |-> s.entries, leaf |-> s.leaf, name |-> s.name] /\ s.name \in Names \cup {Unset}
    BY <2>1
  <2>3. t = [s EXCEPT !.entries = Append(@, new), !.leaf = n + 1]
    BY DEF WithEntry
  <2>. HIDE DEF t, n, new
  <2>. QED BY <2>2, <2>3
<1>3. /\ Append(s.entries, new) \in Seq(Notes) /\ Len(Append(s.entries, new)) = n + 1
      /\ Append(s.entries, new)[n + 1] = new /\ \A e \in 1 .. n : Append(s.entries, new)[e] = s.entries[e]
      /\ DOMAIN Append(s.entries, new) = 1 .. n + 1
  BY <1>1, AppendProperties, LenProperties
<1>4. new.parent = s.leaf
  BY DEF TreeEntry
<1> HIDE DEF t, n, new
<1>5. /\ t.entries \in Seq(Notes) /\ Len(t.entries) = n + 1 /\ t.leaf = n + 1 /\ t.name = s.name
      /\ DOMAIN t.entries = 1 .. n + 1 /\ t.entries[n + 1] = new
      /\ \A e \in 1 .. n : t.entries[e] = s.entries[e]
      /\ t \in Trees
  BY <1>1, <1>2, <1>3 DEF Trees
<1>6. \A e \in 1 .. n + 1 : e = n + 1 \/ e \in 1 .. n
  BY <1>1
<1>7. \A e \in DOMAIN t.entries : t.entries[e].parent < e
  <2>1. \A e \in 1 .. n : t.entries[e].parent < e
    <3>1. TAKE e \in 1 .. n
    <3>2. s.entries[e].parent \in 0 .. e - 1 /\ t.entries[e] = s.entries[e]
      BY <1>1, <1>5
    <3>. QED BY <3>2
  <2>2. t.entries[n + 1].parent < n + 1
    BY <1>1, <1>4, <1>5
  <2>. QED BY <1>5, <1>6, <2>1, <2>2
<1>8. TreeSound(t)
  BY <1>1, <1>5, <1>7 DEF TreeSound
<1>9. On(t, t.leaf) = On(s, s.leaf) \cup {n + 1}
  <2>1. n + 1 \in 1 .. Len(t.entries)
    BY <1>1, <1>5
  <2>2. On(t, n + 1) = On(t, s.leaf) \cup {n + 1}
    BY <1>4, <1>5, <1>8, <2>1, OnFacts
  <2>3. s.leaf \in Nat /\ \A i \in 1 .. s.leaf : t.entries[i] = s.entries[i]
    BY <1>1, <1>5
  <2>4. On(t, s.leaf) = On(s, s.leaf)
    BY <2>3, BranchKept
  <2>. QED BY <1>5, <2>2, <2>4
<1>10. FirstTwo(s) /\ s.leaf >= 2 => FirstTwo(t)
  <2>. SUFFICES ASSUME FirstTwo(s), s.leaf >= 2 PROVE FirstTwo(t)
    OBVIOUS
  <2>1. n >= 2 /\ 1 \in 1 .. n /\ 2 \in 1 .. n /\ n + 1 >= 2
    BY <1>1 DEF n, FirstTwo
  <2>2. t.entries[1] = s.entries[1] /\ t.entries[2] = s.entries[2]
    BY <1>5, <2>1
  <2>3. \A e \in DOMAIN t.entries : e > 2 => t.entries[e].parent >= 2
    BY <1>1, <1>4, <1>5, <1>6 DEF FirstTwo
  <2>. QED BY <1>5, <2>1, <2>2, <2>3 DEF FirstTwo
<1>. QED BY <1>5, <1>8, <1>9, <1>10 DEF t, n, new

(* The entry that was appended last is the one that counts. *)
LEMMA WithEntryKnown ==
  ASSUME NEW s, TreeSound(s), NEW kind, NEW value, TreeEntry(kind, value, s.leaf) \in Notes
  PROVE  LET t == WithEntry(s, kind, value)
         IN  /\ OnPath(t, kind) = value
             /\ \A other : other # kind => OnPath(t, other) = OnPath(s, other)
             /\ NameOf(t) = IF kind = "label" THEN value ELSE NameOf(s)
<1> DEFINE t == WithEntry(s, kind, value)
           n == Len(s.entries)
           new == TreeEntry(kind, value, s.leaf)
<1>1. /\ TreeSound(t) /\ t.name = s.name /\ DOMAIN t.entries = 1 .. n + 1
      /\ \A e \in 1 .. n : t.entries[e] = s.entries[e]
      /\ t.entries[n + 1] = new
      /\ On(t, t.leaf) = On(s, s.leaf) \cup {n + 1}
  BY WithEntryTree
<1>2. n \in Nat /\ DOMAIN s.entries = 1 .. n /\ s.leaf \in 0 .. n
  BY NoteFacts
<1>3. new.kind = kind /\ new.value = value
  BY DEF TreeEntry
<1>4. On(s, s.leaf) \subseteq 1 .. n
  <2>1. On(s, s.leaf) \subseteq 1 .. s.leaf
    BY <1>2, OnFacts
  <2>. QED BY <1>2, <2>1
<1>5. 1 .. n + 1 = 1 .. n \cup {n + 1}
  BY <1>2
<1> HIDE DEF t, n, new
<1>6. OnPath(t, kind) = value
  <2>1. Known(t, kind) = Known(s, kind) \cup {n + 1}
    BY <1>1, <1>3, <1>4 DEF Known
  <2>2. Known(s, kind) \subseteq 1 .. n
    BY <1>4 DEF Known
  <2>3. Max(Known(t, kind)) = n + 1 /\ Known(t, kind) # {}
    BY <1>2, <2>1, <2>2, MaxOfMore
  <2>. QED BY <1>1, <1>3, <2>3, KnownIs
<1>7. ASSUME NEW other, other # kind PROVE OnPath(t, other) = OnPath(s, other)
  <2>1. Known(t, other) = Known(s, other)
    BY <1>1, <1>3, <1>4, <1>7 DEF Known
  <2>2. Known(s, other) # {} => Max(Known(s, other)) \in 1 .. n
    BY KnownIs DEF n
  <2>3. Known(s, other) # {} => t.entries[Max(Known(s, other))] = s.entries[Max(Known(s, other))]
    BY <1>1, <2>2
  <2>. QED BY <1>1, <2>1, <2>3, KnownIs
<1>8. NameOf(t) = IF kind = "label" THEN value ELSE NameOf(s)
  <2>0. Labels(s) \subseteq 1 .. n
    BY KnownIs DEF n
  <2>1. CASE kind = "label"
    <3>1. Labels(t) = Labels(s) \cup {n + 1}
      BY <1>1, <1>2, <1>3, <1>5, <2>1 DEF Labels
    <3>2. Max(Labels(t)) = n + 1 /\ Labels(t) # {}
      BY <1>2, <2>0, <3>1, MaxOfMore
    <3>. QED BY <1>1, <1>3, <2>1, <3>2, KnownIs
  <2>2. CASE kind # "label"
    <3>1. Labels(t) = Labels(s)
      BY <1>1, <1>2, <1>3, <1>5, <2>2 DEF Labels
    <3>2. Labels(s) # {} => Max(Labels(s)) \in 1 .. n
      BY KnownIs DEF n
    <3>3. Labels(s) # {} => t.entries[Max(Labels(s))] = s.entries[Max(Labels(s))]
      BY <1>1, <3>2
    <3>. QED BY <1>1, <2>2, <3>1, <3>3, KnownIs
  <2>. QED BY <2>1, <2>2
<1>. QED BY <1>6, <1>7, <1>8 DEF t

(* What a session says is a model and a level, or nothing. *)
LEMMA KnownTypes ==
  ASSUME NEW s, TreeSound(s)
  PROVE  /\ OnPath(s, "model") \in ToSet(Models) \cup {Unset}
         /\ OnPath(s, "level") \in ToSet(Levels) \cup {Unset}
         /\ \A kind \in {"model", "level"} : Known(s, kind) # {} => OnPath(s, kind) # Unset
<1>1. \A e \in 1 .. Len(s.entries) : s.entries[e] \in Notes
  BY NoteFacts
<1>2. ASSUME NEW kind \in {"model", "level"}, Known(s, kind) # {}
      PROVE  \E e \in 1 .. Len(s.entries) : OnPath(s, kind) = s.entries[e].value /\ s.entries[e].kind = kind
  <2>1. Max(Known(s, kind)) \in Known(s, kind) /\ Known(s, kind) \subseteq 1 .. Len(s.entries)
    BY <1>2, KnownIs
  <2>2. OnPath(s, kind) = s.entries[Max(Known(s, kind))].value
    BY <1>2, KnownIs
  <2>3. PICK e \in 1 .. Len(s.entries) : e = Max(Known(s, kind)) /\ e \in Known(s, kind)
    BY <2>1
  <2>. QED BY <2>2, <2>3 DEF Known
<1>3. ASSUME NEW kind \in {"model", "level"}, Known(s, kind) = {}
      PROVE  OnPath(s, kind) = Unset
  BY <1>3, KnownIs
<1>4. \A e \in 1 .. Len(s.entries) :
        /\ s.entries[e].kind = "model" => s.entries[e].value \in ToSet(Models)
        /\ s.entries[e].kind = "level" => s.entries[e].value \in ToSet(Levels)
  BY <1>1 DEF Notes
<1>5. Unset \notin ToSet(Models) /\ Unset \notin ToSet(Levels)
  BY MetadataAssumption
<1>. QED BY <1>2, <1>3, <1>4, <1>5

(* Every branch that is longer than the first two entries has them. *)
LEMMA FirstTwoOn ==
  ASSUME NEW s, TreeSound(s), FirstTwo(s), NEW e \in 0 .. Len(s.entries)
  PROVE  IF e >= 2 THEN {1, 2} \subseteq On(s, e) ELSE On(s, e) \subseteq {1}
<1> DEFINE n == Len(s.entries)
           Q(f) == s.entries[f].parent
           T == {f \in 2 .. n : ~ {1, 2} \subseteq On(s, f)}
<1>1. n \in Nat /\ n >= 2 /\ \A f \in 1 .. n : Q(f) \in 0 .. f - 1
  BY NoteFacts DEF FirstTwo
<1>2. /\ On(s, 0) = {}
      /\ \A f \in 1 .. n : On(s, f) = On(s, Q(f)) \cup {f}
  BY OnFacts
<1>3. Q(2) = 1 /\ \A f \in 3 .. n : Q(f) >= 2
  <2>1. \A f \in 3 .. n : f \in DOMAIN s.entries /\ f > 2
    BY <1>1, NoteFacts
  <2>. QED BY <2>1 DEF FirstTwo
<1> HIDE DEF n, Q
<1>4. On(s, 1) = {1} /\ On(s, 2) = {1, 2}
  <2>1. 1 \in 1 .. n /\ 2 \in 1 .. n
    BY <1>1
  <2>2. Q(1) = 0
    BY <1>1, <2>1
  <2>. QED BY <1>2, <1>3, <2>1, <2>2
<1>5. T = {}
  <2>1. SUFFICES ASSUME T # {} PROVE FALSE
    OBVIOUS
  <2>2. T \subseteq Nat
    BY <1>1
  <2>3. Min(T) \in T /\ \A f \in T : Min(T) <= f
    BY <2>1, <2>2, LeastOf
  <2>4. PICK f \in 2 .. n : ~ {1, 2} \subseteq On(s, f) /\ \A g \in T : f <= g
    BY <2>3
  <2>5. f # 2
    BY <1>4, <2>4
  <2>6. f \in 3 .. n /\ f \in 1 .. n
    BY <1>1, <2>4, <2>5
  <2>7. Q(f) \in 2 .. n /\ Q(f) < f
    BY <1>1, <1>3, <2>6
  <2>8. Q(f) \notin T
    BY <2>2, <2>4, <2>7
  <2>9. {1, 2} \subseteq On(s, Q(f))
    BY <2>7, <2>8
  <2>. QED BY <1>2, <2>4, <2>6, <2>9
<1>6. e >= 2 => e \in 2 .. n
  BY <1>1 DEF n
<1>7. e < 2 => e = 0 \/ e = 1
  OBVIOUS
<1>8. e >= 2 => {1, 2} \subseteq On(s, e)
  BY <1>5, <1>6 DEF T
<1>9. ~ e >= 2 => On(s, e) \subseteq {1}
  BY <1>2, <1>4, <1>7
<1>. QED BY <1>8, <1>9

(* Sessions with the first two entries tell both, on every branch that has a level. *)
LEMMA RootedTells ==
  ASSUME NEW s, TreeSound(s), FirstTwo(s)
  PROVE  /\ s.leaf >= 2 => OnPath(s, "model") # Unset /\ OnPath(s, "level") # Unset
         /\ ~ s.leaf >= 2 => OnPath(s, "level") = Unset
<1>1. s.leaf \in 0 .. Len(s.entries)
  BY NoteFacts
<1>2. IF s.leaf >= 2 THEN {1, 2} \subseteq On(s, s.leaf) ELSE On(s, s.leaf) \subseteq {1}
  BY <1>1, FirstTwoOn
<1>3. s.entries[1].kind = "model" /\ s.entries[2].kind = "level"
  BY DEF FirstTwo
<1>4. s.leaf >= 2 => 1 \in Known(s, "model") /\ 2 \in Known(s, "level")
  BY <1>2, <1>3 DEF Known
<1>5. ~ s.leaf >= 2 => Known(s, "level") = {}
  BY <1>2, <1>3 DEF Known
<1>. QED BY <1>4, <1>5, KnownIs, KnownTypes

-----------------------------------------------------------------------------
(* The steps. *)

LEMMA LevelsFact ==
  /\ "off" \in ToSet(Levels) /\ DefaultLevel \in ToSet(Levels) /\ DefaultModel \in ToSet(Models)
  /\ \A m : Available(m) \subseteq ToSet(Levels) /\ Unset \notin Available(m) /\ "off" \in Available(m)
<1>1. Levels \in Seq(ToSet(Levels)) /\ Levels # <<>> /\ Head(Levels) = "off"
  BY MetadataAssumption
<1>2. Len(Levels) \in Nat /\ DOMAIN Levels = 1 .. Len(Levels) /\ Len(Levels) # 0
  BY <1>1, LenProperties, EmptySeq
<1>3. 1 \in DOMAIN Levels /\ Head(Levels) = Levels[1]
  BY <1>1, <1>2, HeadTailProperties
<1>4. "off" \in ToSet(Levels)
  BY <1>1, <1>3 DEF ToSet
<1>. QED BY <1>4, MetadataAssumption DEF Available

(* A session without entries. *)
LEMMA EmptyTree ==
  ASSUME NEW name \in Names \cup {Unset}
  PROVE  LET s == [entries |-> <<>>, leaf |-> 0, name |-> name]
         IN  TreeSound(s) /\ NameOf(s) = name /\ Path(s) = <<>>
<1> DEFINE s == [entries |-> <<>>, leaf |-> 0, name |-> name]
<1>1. <<>> \in Seq(Notes) /\ Len(<<>>) = 0 /\ DOMAIN <<>> = {}
  OBVIOUS
<1>2. s.entries = <<>> /\ s.leaf = 0 /\ s.name = name /\ s \in Trees
  BY <1>1 DEF Trees
<1> HIDE DEF s
<1>3. TreeSound(s)
  BY <1>1, <1>2 DEF TreeSound
<1>4. Labels(s) = {}
  BY <1>1, <1>2 DEF Labels
<1>5. NameOf(s) = name
  BY <1>2, <1>3, <1>4, KnownIs
<1>6. Path(s) = <<>>
  BY <1>2, <1>3, BranchFacts DEF Path
<1>. QED BY <1>3, <1>5, <1>6 DEF s

(* A model and a level are appended to a session whose path is empty. *)
LEMMA SeedTwice ==
  ASSUME NEW s, TreeSound(s), NEW m \in ToSet(Models), NEW l \in ToSet(Levels)
  PROVE  LET t == WithEntry(WithEntry(s, "model", m), "level", l)
         IN  /\ TreeSound(t) /\ OnPath(t, "model") = m /\ OnPath(t, "level") = l
             /\ NameOf(t) = NameOf(s)
             /\ Len(s.entries) = 0 => Rooted(t)
<1> DEFINE r == WithEntry(s, "model", m)
           t == WithEntry(r, "level", l)
<1>0. s.leaf \in Nat /\ Len(s.entries) \in Nat
  BY NoteFacts
<1>1. TreeEntry("model", m, s.leaf) \in Notes
  BY <1>0 DEF TreeEntry, Notes
<1>2. /\ TreeSound(r) /\ Len(r.entries) = Len(s.entries) + 1 /\ r.leaf = Len(s.entries) + 1
      /\ r.entries[Len(s.entries) + 1] = TreeEntry("model", m, s.leaf)
  BY <1>1, WithEntryTree
<1>3. OnPath(r, "model") = m /\ NameOf(r) = NameOf(s)
  BY <1>1, WithEntryKnown
<1> HIDE DEF r
<1>4. TreeEntry("level", l, r.leaf) \in Notes
  BY <1>0, <1>2 DEF TreeEntry, Notes
<1>5. /\ TreeSound(t) /\ Len(t.entries) = Len(r.entries) + 1 /\ t.leaf = Len(r.entries) + 1
      /\ DOMAIN t.entries = 1 .. Len(r.entries) + 1
      /\ t.entries[Len(r.entries) + 1] = TreeEntry("level", l, r.leaf)
      /\ \A e \in 1 .. Len(r.entries) : t.entries[e] = r.entries[e]
  BY <1>2, <1>4, WithEntryTree
<1>6. OnPath(t, "level") = l /\ OnPath(t, "model") = m /\ NameOf(t) = NameOf(s)
  BY <1>2, <1>3, <1>4, WithEntryKnown
<1> HIDE DEF t
<1>7. Len(s.entries) = 0 => Rooted(t)
  <2>. SUFFICES ASSUME Len(s.entries) = 0 PROVE Rooted(t)
    OBVIOUS
  <2>1. Len(r.entries) = 1 /\ r.leaf = 1 /\ Len(t.entries) = 2 /\ t.leaf = 2 /\ DOMAIN t.entries = 1 .. 2
    BY <1>2, <1>5
  <2>2. t.entries[1] = TreeEntry("model", m, s.leaf) /\ t.entries[2] = TreeEntry("level", l, 1)
    BY <1>2, <1>5, <2>1
  <2>. QED BY <2>1, <2>2 DEF Rooted, FirstTwo, TreeEntry
<1>. QED BY <1>5, <1>6, <1>7 DEF r, t

(* The session i is exchanged for t. *)
LEMMA ExchangedSession ==
  ASSUME MetadataInv, NEW i \in DOMAIN sessions, NEW t, TreeSound(t),
         sessions' = [sessions EXCEPT ![i] = t],
         bare \subseteq bare', i \notin bare' => Rooted(t)
  PROVE  /\ TreesInv' /\ DOMAIN sessions' = DOMAIN sessions /\ sessions'[i] = t
         /\ \A j \in DOMAIN sessions : j # i => sessions'[j] = sessions[j]
         /\ Len(sessions') = Len(sessions)
<1>1. sessions \in Seq(Trees) /\ t \in Trees
  BY DEF MetadataInv, TreesInv, TreeSound
<1>2. /\ sessions' \in Seq(Trees) /\ DOMAIN sessions' = DOMAIN sessions /\ sessions'[i] = t
      /\ \A j \in DOMAIN sessions : j # i => sessions'[j] = sessions[j]
      /\ Len(sessions') = Len(sessions)
  BY <1>1, ExceptSeq
<1>3. \A j \in DOMAIN sessions' : TreeSound(sessions'[j])
  BY <1>2 DEF MetadataInv, TreesInv
<1>4. \A j \in DOMAIN sessions' \ bare' : Rooted(sessions'[j])
  BY <1>2 DEF MetadataInv, TreesInv
<1>5. TreesInv'
  BY <1>2, <1>3, <1>4 DEF TreesInv
<1>. QED BY <1>2, <1>5

LEMMA AddedSession ==
  ASSUME MetadataInv, NEW t, TreeSound(t), Rooted(t), sessions' = Append(sessions, t), bare' = bare
  PROVE  /\ TreesInv' /\ DOMAIN sessions' = DOMAIN sessions \cup {Len(sessions) + 1}
         /\ sessions'[Len(sessions) + 1] = t
         /\ \A j \in DOMAIN sessions : sessions'[j] = sessions[j]
         /\ Len(sessions') = Len(sessions) + 1 /\ DOMAIN sessions = 1 .. Len(sessions)
         /\ Len(sessions) \in Nat
<1>1. sessions \in Seq(Trees) /\ t \in Trees
  BY DEF MetadataInv, TreesInv, TreeSound
<1>2. Len(sessions) \in Nat /\ DOMAIN sessions = 1 .. Len(sessions)
  BY <1>1, LenProperties
<1>3. /\ sessions' \in Seq(Trees) /\ Len(sessions') = Len(sessions) + 1
      /\ DOMAIN sessions' = 1 .. Len(sessions) + 1 /\ sessions'[Len(sessions) + 1] = t
      /\ \A j \in 1 .. Len(sessions) : sessions'[j] = sessions[j]
  BY <1>1, <1>2, AppendProperties, LenProperties
<1>4. 1 .. Len(sessions) + 1 = 1 .. Len(sessions) \cup {Len(sessions) + 1}
  BY <1>2
<1>5. \A j \in DOMAIN sessions' : TreeSound(sessions'[j])
  BY <1>2, <1>3, <1>4 DEF MetadataInv, TreesInv
<1>6. \A j \in DOMAIN sessions' \ bare' : Rooted(sessions'[j])
  BY <1>2, <1>3, <1>4 DEF MetadataInv, TreesInv
<1>7. TreesInv'
  BY <1>3, <1>5, <1>6 DEF TreesInv
<1>. QED BY <1>2, <1>3, <1>4, <1>7

(* An entry more in the session in use. *)
LEMMA NoteKeeps ==
  ASSUME MetadataInv, Running, NEW kind, NEW value, Note(kind, value),
         TreeEntry(kind, value, sessions[cur].leaf) \in Notes, UNCHANGED <<cur, bare>>
  PROVE  /\ TreesInv' /\ DOMAIN sessions' = DOMAIN sessions /\ cur' \in DOMAIN sessions'
         /\ Len(sessions') = Len(sessions)
         /\ sessions'[cur] = WithEntry(sessions[cur], kind, value)
         /\ \A j \in DOMAIN sessions : j # cur => sessions'[j] = sessions[j]
<1> DEFINE t == WithEntry(sessions[cur], kind, value)
<1>1. cur \in DOMAIN sessions
  BY DEF MetadataInv, MetadataTypes, Running
<1>2. TreeSound(sessions[cur]) /\ (cur \notin bare => Rooted(sessions[cur]))
  BY <1>1 DEF MetadataInv, TreesInv
<1>3. /\ TreeSound(t) /\ t.leaf = Len(sessions[cur].entries) + 1
      /\ FirstTwo(sessions[cur]) /\ sessions[cur].leaf >= 2 => FirstTwo(t)
  BY <1>2, WithEntryTree
<1>4. Len(sessions[cur].entries) \in Nat
  BY <1>2, NoteFacts
<1>5. sessions' = [sessions EXCEPT ![cur] = t]
  BY <1>1 DEF Note
<1> HIDE DEF t
<1>6. Rooted(sessions[cur]) => Rooted(t)
  BY <1>3, <1>4 DEF Rooted, FirstTwo
<1>7. bare \subseteq bare' /\ (cur \notin bare' => Rooted(t))
  BY <1>2, <1>6
<1>8. /\ TreesInv' /\ DOMAIN sessions' = DOMAIN sessions /\ sessions'[cur] = t
      /\ \A j \in DOMAIN sessions : j # cur => sessions'[j] = sessions[j]
      /\ Len(sessions') = Len(sessions)
  BY <1>1, <1>3, <1>5, <1>7, ExchangedSession
<1>9. cur' = cur
  OBVIOUS
<1>. QED BY <1>1, <1>8, <1>9 DEF t

(* A model or a level is noted, or could not be. *)
LEMMA NotedKeeps ==
  ASSUME MetadataInv, Running, NEW kind \in {"model", "level"}, NEW value, Noted(kind, value),
         TreeEntry(kind, value, sessions[cur].leaf) \in Notes,
         UNCHANGED <<cur, registry, bare, named>>
  PROVE  /\ TreesInv' /\ NamesInv' /\ torn' \in BOOLEAN /\ cur' \in DOMAIN sessions'
         /\ ~ torn' =>
                /\ ~ torn
                /\ OnPath(sessions'[cur], kind) = value
                /\ \A other : other # kind => OnPath(sessions'[cur], other) = OnPath(sessions[cur], other)
<1>1. cur \in DOMAIN sessions /\ torn \in BOOLEAN
  BY DEF MetadataInv, MetadataTypes, Running
<1>2. TreeSound(sessions[cur])
  BY <1>1 DEF MetadataInv, TreesInv
<1>3. CASE Note(kind, value) /\ UNCHANGED torn
  <2>1. /\ TreesInv' /\ DOMAIN sessions' = DOMAIN sessions /\ cur' \in DOMAIN sessions'
        /\ Len(sessions') = Len(sessions)
        /\ sessions'[cur] = WithEntry(sessions[cur], kind, value)
        /\ \A j \in DOMAIN sessions : j # cur => sessions'[j] = sessions[j]
    BY <1>3, NoteKeeps
  <2>2. /\ OnPath(sessions'[cur], kind) = value
        /\ \A other : other # kind => OnPath(sessions'[cur], other) = OnPath(sessions[cur], other)
        /\ NameOf(sessions'[cur]) = NameOf(sessions[cur])
    BY <1>2, <2>1, WithEntryKnown
  <2>3. NamesInv'
    BY <2>1, <2>2 DEF NamesInv, MetadataInv
  <2>. QED BY <1>1, <1>3, <2>1, <2>2, <2>3
<1>4. CASE torn' = TRUE /\ UNCHANGED sessions
  <2>1. TreesInv' /\ NamesInv'
    BY <1>4 DEF MetadataInv, TreesInv, NamesInv
  <2>. QED BY <1>1, <1>4, <2>1
<1>. QED BY <1>3, <1>4 DEF Noted

LEMMA SetModelKeeps == ASSUME MetadataInv, NEW m, SetModel(m) PROVE MetadataInv'
<1>1. /\ Running /\ cur \in DOMAIN sessions /\ level \in ToSet(Levels) /\ registry \subseteq ToSet(Models)
      /\ m \in registry /\ m \in ToSet(Models) /\ TreeSound(sessions[cur])
  BY DEF MetadataInv, MetadataTypes, TreesInv, Running, SetModel
<1>2. TreeEntry("model", m, sessions[cur].leaf) \in Notes
  BY <1>1, NoteFacts DEF TreeEntry, Notes
<1>3. Noted("model", m) /\ UNCHANGED <<cur, registry, bare, named>> /\ model' = m /\ ~ given' /\ level' = level
  BY DEF SetModel
<1>4. /\ TreesInv' /\ NamesInv' /\ torn' \in BOOLEAN /\ cur' \in DOMAIN sessions'
      /\ ~ torn' =>
            /\ ~ torn
            /\ OnPath(sessions'[cur], "model") = m
            /\ OnPath(sessions'[cur], "level") = OnPath(sessions[cur], "level")
  BY <1>1, <1>2, <1>3, NotedKeeps
<1>5. MetadataTypes'
  BY <1>1, <1>3, <1>4 DEF MetadataTypes, SetModel
<1>6. AgentInv'
  BY <1>1, <1>3, <1>4 DEF AgentInv, Agrees, MetadataInv, Running
<1>. QED BY <1>4, <1>5, <1>6 DEF MetadataInv

LEMMA SetLevelKeeps == ASSUME MetadataInv, NEW l, SetLevel(l) PROVE MetadataInv'
<1>1. /\ Running /\ cur \in DOMAIN sessions /\ model \in ToSet(Models)
      /\ l \in ToSet(Levels) /\ TreeSound(sessions[cur])
      /\ registry \subseteq ToSet(Models) /\ given \in BOOLEAN
  BY LevelsFact DEF MetadataInv, MetadataTypes, TreesInv, Running, SetLevel
<1>2. TreeEntry("level", l, sessions[cur].leaf) \in Notes
  BY <1>1, NoteFacts DEF TreeEntry, Notes
<1>3. /\ Noted("level", l) /\ UNCHANGED <<cur, registry, bare, named>>
      /\ level' = l /\ given' = given /\ model' = model
  BY DEF SetLevel
<1>4. /\ TreesInv' /\ NamesInv' /\ torn' \in BOOLEAN /\ cur' \in DOMAIN sessions'
      /\ ~ torn' =>
            /\ ~ torn
            /\ OnPath(sessions'[cur], "level") = l
            /\ OnPath(sessions'[cur], "model") = OnPath(sessions[cur], "model")
  BY <1>1, <1>2, <1>3, NotedKeeps
<1>5. MetadataTypes'
  BY <1>1, <1>3, <1>4 DEF MetadataTypes
<1>6. AgentInv'
  BY <1>1, <1>3, <1>4 DEF AgentInv, Agrees, MetadataInv, Running
<1>. QED BY <1>4, <1>5, <1>6 DEF MetadataInv

LEMMA RenameKeeps == ASSUME MetadataInv, NEW name \in Names, Rename(name) PROVE MetadataInv'
<1>1. Running /\ cur \in DOMAIN sessions /\ TreeSound(sessions[cur])
  BY DEF MetadataInv, MetadataTypes, TreesInv, Running, Rename
<1>2. TreeEntry("label", name, sessions[cur].leaf) \in Notes
  BY <1>1, NoteFacts DEF TreeEntry, Notes
<1>3. /\ Note("label", name) /\ UNCHANGED <<cur, registry, model, level, given, bare, torn>>
      /\ named' = [named EXCEPT ![cur] = name]
  BY DEF Rename
<1>4. /\ TreesInv' /\ DOMAIN sessions' = DOMAIN sessions /\ cur' \in DOMAIN sessions'
      /\ Len(sessions') = Len(sessions)
      /\ sessions'[cur] = WithEntry(sessions[cur], "label", name)
      /\ \A j \in DOMAIN sessions : j # cur => sessions'[j] = sessions[j]
  BY <1>1, <1>2, <1>3, NoteKeeps
<1>5. /\ OnPath(sessions'[cur], "model") = OnPath(sessions[cur], "model")
      /\ OnPath(sessions'[cur], "level") = OnPath(sessions[cur], "level")
      /\ NameOf(sessions'[cur]) = name
  BY <1>1, <1>2, <1>4, WithEntryKnown
<1>6. NamesInv'
  <2>1. named \in Seq(Names \cup {Unset}) /\ Len(named) = Len(sessions)
        /\ \A i \in DOMAIN sessions : NameOf(sessions[i]) = named[i]
    BY DEF MetadataInv, NamesInv
  <2>2. sessions \in Seq(Trees)
    BY DEF MetadataInv, TreesInv
  <2>3. DOMAIN named = DOMAIN sessions /\ DOMAIN sessions = 1 .. Len(sessions)
    BY <2>1, <2>2, LenProperties
  <2>4. /\ named' \in Seq(Names \cup {Unset}) /\ Len(named') = Len(named)
        /\ \A j \in DOMAIN sessions : named'[j] = IF j = cur THEN name ELSE named[j]
    BY <1>1, <1>3, <2>1, <2>3, ExceptSeq
  <2>5. \A i \in DOMAIN sessions' : NameOf(sessions'[i]) = named'[i]
    BY <1>4, <1>5, <2>1, <2>4
  <2>. QED BY <1>4, <2>1, <2>4, <2>5 DEF NamesInv
<1>7. MetadataTypes'
  BY <1>3, <1>4 DEF MetadataTypes, MetadataInv
<1>8. AgentInv'
  BY <1>3, <1>5 DEF AgentInv, Agrees, MetadataInv
<1>. QED BY <1>4, <1>6, <1>7, <1>8 DEF MetadataInv

(* A name is added for a session that is. *)
LEMMA NameAdded ==
  ASSUME MetadataInv, NEW name \in Names \cup {Unset}, named' = Append(named, name),
         DOMAIN sessions' = DOMAIN sessions \cup {Len(sessions) + 1}, Len(sessions') = Len(sessions) + 1,
         NameOf(sessions'[Len(sessions) + 1]) = name,
         \A j \in DOMAIN sessions : sessions'[j] = sessions[j]
  PROVE  NamesInv'
<1>1. named \in Seq(Names \cup {Unset}) /\ Len(named) = Len(sessions)
      /\ \A i \in DOMAIN sessions : NameOf(sessions[i]) = named[i]
  BY DEF MetadataInv, NamesInv
<1>2. sessions \in Seq(Trees)
  BY DEF MetadataInv, TreesInv
<1>3. Len(sessions) \in Nat /\ DOMAIN sessions = 1 .. Len(sessions)
  BY <1>2, LenProperties
<1>4. /\ named' \in Seq(Names \cup {Unset}) /\ Len(named') = Len(sessions) + 1
      /\ named'[Len(sessions) + 1] = name /\ \A j \in 1 .. Len(sessions) : named'[j] = named[j]
  BY <1>1, AppendProperties
<1>5. \A i \in DOMAIN sessions' : NameOf(sessions'[i]) = named'[i]
  BY <1>1, <1>3, <1>4
<1>. QED BY <1>4, <1>5 DEF NamesInv

LEMMA NewSessionKeeps == ASSUME MetadataInv, NEW name \in Names, NewSession(name) PROVE MetadataInv'
<1> DEFINE s == [entries |-> <<>>, leaf |-> 0, name |-> name]
           t == WithEntry(WithEntry(s, "model", model), "level", level)
<1>1. model \in ToSet(Models) /\ level \in ToSet(Levels) /\ registry \subseteq ToSet(Models)
  BY DEF MetadataInv, MetadataTypes, NewSession, Running
<1>2. TreeSound(s) /\ NameOf(s) = name /\ Len(s.entries) = 0
  BY EmptyTree
<1>3. sessions' = Append(sessions, t) /\ bare' = bare /\ cur' = Len(sessions) + 1 /\ named' = Append(named, name)
      /\ ~ given' /\ ~ torn' /\ given' \in BOOLEAN /\ torn' \in BOOLEAN
      /\ UNCHANGED <<registry, model, level>>
  BY DEF NewSession
<1> HIDE DEF s
<1>4. TreeSound(t) /\ Rooted(t) /\ OnPath(t, "model") = model /\ OnPath(t, "level") = level /\ NameOf(t) = name
  BY <1>1, <1>2, SeedTwice
<1> HIDE DEF t
<1>5. /\ TreesInv' /\ DOMAIN sessions' = DOMAIN sessions \cup {Len(sessions) + 1}
      /\ sessions'[Len(sessions) + 1] = t
      /\ \A j \in DOMAIN sessions : sessions'[j] = sessions[j]
      /\ Len(sessions') = Len(sessions) + 1
  BY <1>3, <1>4, AddedSession
<1>6. NamesInv'
  BY <1>3, <1>4, <1>5, NameAdded
<1>7. MetadataTypes'
  BY <1>1, <1>3, <1>5 DEF MetadataTypes
<1>8. AgentInv'
  BY <1>3, <1>4, <1>5 DEF AgentInv, Agrees
<1>. QED BY <1>5, <1>6, <1>7, <1>8 DEF MetadataInv

(* What a branch that is taken up makes of the agent. *)
LEMMA RestoreAgrees ==
  ASSUME MetadataInv, NEW s, TreeSound(s), Running, Restore(s)
  PROVE  /\ model' \in ToSet(Models) /\ level' \in ToSet(Levels) /\ given' \in BOOLEAN /\ torn' \in BOOLEAN
         /\ ~ torn' => Agrees(s, registry, model', level', given')
<1>1. /\ model \in ToSet(Models) /\ given \in BOOLEAN /\ torn \in BOOLEAN /\ registry \subseteq ToSet(Models)
  BY DEF MetadataInv, MetadataTypes, Running
<1>2. OnPath(s, "level") \in ToSet(Levels) \cup {Unset}
  BY KnownTypes
<1> DEFINE found == OnPath(s, "model") \in registry
<1>3. /\ model' = IF found THEN OnPath(s, "model") ELSE model
      /\ level' = IF OnPath(s, "level") \in Available(model') THEN OnPath(s, "level") ELSE "off"
      /\ given' = (given /\ ~ found) /\ torn' = (torn /\ ~ found)
  BY DEF Restore
<1>4. "off" \in ToSet(Levels) /\ Available(model') \subseteq ToSet(Levels)
  BY LevelsFact
<1>5. model' \in ToSet(Models) /\ level' \in ToSet(Levels)
  BY <1>1, <1>3, <1>4
<1>6. given' \in BOOLEAN /\ torn' \in BOOLEAN
  BY <1>3
<1>7. /\ found => model' = OnPath(s, "model")
      /\ level' \in {OnPath(s, "level"), "off"}
  BY <1>3
<1>8. Agrees(s, registry, model', level', given')
  BY <1>7 DEF Agrees
<1>. QED BY <1>5, <1>6, <1>8

LEMMA SwitchKeeps == ASSUME MetadataInv, NEW i \in DOMAIN sessions, SwitchSession(i) PROVE MetadataInv'
<1>1. TreeSound(sessions[i]) /\ Running /\ Restore(sessions[i])
  BY DEF MetadataInv, TreesInv, SwitchSession
<1>2. /\ model' \in ToSet(Models) /\ level' \in ToSet(Levels) /\ given' \in BOOLEAN /\ torn' \in BOOLEAN
      /\ ~ torn' => Agrees(sessions[i], registry, model', level', given')
  BY <1>1, RestoreAgrees
<1>3. cur' = i /\ UNCHANGED <<sessions, registry, bare, named>>
  BY DEF SwitchSession
<1>4. TreesInv' /\ NamesInv'
  BY <1>3 DEF MetadataInv, TreesInv, NamesInv
<1>5. MetadataTypes'
  BY <1>2, <1>3 DEF MetadataInv, MetadataTypes
<1>6. AgentInv'
  BY <1>2, <1>3 DEF AgentInv
<1>. QED BY <1>4, <1>5, <1>6 DEF MetadataInv

LEMMA NavigateKeeps ==
  ASSUME MetadataInv, NEW e \in 0 .. Len(sessions[cur].entries), NavigateTo(e)
  PROVE  MetadataInv'
<1> DEFINE o == sessions[cur]
           s == [o EXCEPT !.leaf = e]
<1>1. Running /\ cur \in DOMAIN sessions
  BY DEF MetadataInv, MetadataTypes, Running, NavigateTo
<1>2. TreeSound(o) /\ (cur \notin bare => Rooted(o))
  BY <1>1 DEF MetadataInv, TreesInv
<1>3. Len(o.entries) \in Nat /\ e \in Nat /\ e <= Len(o.entries)
  BY <1>2, NoteFacts
<1>4. s \in Trees /\ s.entries = o.entries /\ s.leaf = e /\ s.name = o.name
  <2>1. o \in [entries : Seq(Notes), leaf : Nat, name : Names \cup {Unset}]
    BY <1>2 DEF TreeSound, Trees
  <2>. HIDE DEF o
  <2>2. s \in [entries : Seq(Notes), leaf : Nat, name : Names \cup {Unset}]
        /\ s.entries = o.entries /\ s.leaf = e /\ s.name = o.name
    BY <1>3, <2>1
  <2>. QED BY <2>2 DEF Trees
<1>5. /\ sessions' = [sessions EXCEPT ![cur] = s] /\ Restore(s)
      /\ bare' = IF OnPath(s, "level") = Unset THEN bare \cup {cur} ELSE bare
      /\ UNCHANGED <<cur, registry, named>>
  BY DEF NavigateTo
<1> HIDE DEF s
<1>6. TreeSound(s)
  BY <1>2, <1>3, <1>4 DEF TreeSound
<1>7. FirstTwo(o) => FirstTwo(s)
  BY <1>4 DEF FirstTwo
<1>8. NameOf(s) = NameOf(o)
  BY <1>4 DEF NameOf
<1>9. bare \subseteq bare' /\ (cur \notin bare' => Rooted(s))
  <2>1. bare \subseteq bare'
    BY <1>5
  <2>2. ASSUME cur \notin bare' PROVE Rooted(s)
    <3>1. OnPath(s, "level") # Unset /\ cur \notin bare
      BY <1>5, <2>2
    <3>2. FirstTwo(s)
      BY <1>2, <1>7, <3>1 DEF Rooted
    <3>3. s.leaf >= 2
      BY <1>6, <3>1, <3>2, RootedTells
    <3>. QED BY <3>2, <3>3 DEF Rooted
  <2>. QED BY <2>1, <2>2
<1>10. /\ TreesInv' /\ DOMAIN sessions' = DOMAIN sessions /\ sessions'[cur] = s
       /\ \A j \in DOMAIN sessions : j # cur => sessions'[j] = sessions[j]
       /\ Len(sessions') = Len(sessions)
  BY <1>1, <1>5, <1>6, <1>9, ExchangedSession
<1>11. NamesInv'
  BY <1>5, <1>8, <1>10 DEF MetadataInv, NamesInv
<1>12. /\ model' \in ToSet(Models) /\ level' \in ToSet(Levels) /\ given' \in BOOLEAN /\ torn' \in BOOLEAN
       /\ ~ torn' => Agrees(s, registry, model', level', given')
  BY <1>1, <1>5, <1>6, RestoreAgrees
<1>13. MetadataTypes'
  BY <1>1, <1>5, <1>10, <1>12 DEF MetadataInv, MetadataTypes
<1>14. AgentInv'
  BY <1>5, <1>10, <1>12 DEF AgentInv
<1>. QED BY <1>10, <1>11, <1>13, <1>14 DEF MetadataInv

(* What a process that starts makes of the session s. *)
LEMMA SeededAgrees ==
  ASSUME NEW s, TreeSound(s), NEW models, models \subseteq ToSet(Models),
         NEW option \in ToSet(Models) \cup {Unset},
         option = Unset => Resolved(option, s, models) \in models
  PROVE  LET m == Resolved(option, s, models)
             l == LevelFor(s, m)
             t == Seeded(s, m, l)
         IN  /\ m \in ToSet(Models) /\ l \in ToSet(Levels)
             /\ TreeSound(t) /\ NameOf(t) = NameOf(s) /\ Agrees(t, models, m, l, option # Unset)
             /\ Rooted(s) => Rooted(t)
             /\ Len(s.entries) = 0 => Rooted(t)
<1> DEFINE m == Resolved(option, s, models)
           l == LevelFor(s, m)
           t == Seeded(s, m, l)
<1>1. OnPath(s, "model") \in ToSet(Models) \cup {Unset} /\ OnPath(s, "level") \in ToSet(Levels) \cup {Unset}
  BY KnownTypes
<1>2. m \in ToSet(Models)
  BY <1>1, LevelsFact DEF Resolved
<1>3. l \in ToSet(Levels) /\ (OnPath(s, "level") # Unset => l \in {OnPath(s, "level"), "off"})
  BY <1>1, LevelsFact DEF LevelFor
<1>4. option = Unset /\ OnPath(s, "model") \in models => m = OnPath(s, "model")
  BY DEF Resolved
<1>5. s.leaf \in 0 .. Len(s.entries) /\ Len(s.entries) \in Nat
  BY NoteFacts
<1>6. Path(s) = <<>> <=> s.leaf = 0
  BY <1>5, OnFacts DEF Path
<1> HIDE DEF m, l
<1>7. CASE Path(s) = <<>>
  <2>1. t = WithEntry(WithEntry(s, "model", m), "level", l)
    BY <1>7 DEF Seeded
  <2>2. /\ TreeSound(t) /\ OnPath(t, "model") = m /\ OnPath(t, "level") = l /\ NameOf(t) = NameOf(s)
        /\ Len(s.entries) = 0 => Rooted(t)
    BY <1>2, <1>3, <2>1, SeedTwice
  <2>. HIDE DEF t
  <2>3. ~ Rooted(s)
    BY <1>6, <1>7 DEF Rooted
  <2>4. Agrees(t, models, m, l, option # Unset)
    BY <2>2 DEF Agrees
  <2>. QED BY <1>2, <1>3, <2>2, <2>3, <2>4 DEF m, l, t
<1>8. CASE Path(s) # <<>>
  <2>1. t = s
    BY <1>8 DEF Seeded
  <2>2. Len(s.entries) # 0
    BY <1>5, <1>6, <1>8
  <2>3. Agrees(s, models, m, l, option # Unset)
    BY <1>3, <1>4 DEF Agrees
  <2>. HIDE DEF t
  <2>. QED BY <1>2, <1>3, <2>1, <2>2, <2>3 DEF m, l, t
<1>. QED BY <1>7, <1>8

LEMMA StartKeeps ==
  ASSUME MetadataInv, NEW i \in 1 .. Len(sessions) + 1, NEW option \in ToSet(Models) \cup {Unset},
         NEW models \in Registries, StartProcess(i, option, models)
  PROVE  MetadataInv'
<1> DEFINE fresh == i > Len(sessions)
           s == IF fresh THEN [entries |-> <<>>, leaf |-> 0, name |-> Unset] ELSE sessions[i]
           m == Resolved(option, s, models)
           l == LevelFor(s, m)
           t == Seeded(s, m, l)
<1>1. models \subseteq ToSet(Models)
  BY MetadataAssumption
<1>2. /\ option = Unset => m \in models
      /\ registry' = models /\ cur' = i /\ model' = m /\ level' = l
      /\ sessions' = IF fresh THEN Append(sessions, t) ELSE [sessions EXCEPT ![i] = t]
      /\ named' = IF fresh THEN Append(named, Unset) ELSE named
      /\ given' = (option # Unset) /\ torn' = FALSE /\ bare' = bare
  BY DEF StartProcess
<1>3. sessions \in Seq(Trees) /\ Len(sessions) \in Nat /\ DOMAIN sessions = 1 .. Len(sessions)
  BY LenProperties DEF MetadataInv, TreesInv
<1>4. ~ fresh => i \in DOMAIN sessions /\ s = sessions[i]
  BY <1>3
<1>5. TreeSound(s) /\ (fresh => Len(s.entries) = 0 /\ NameOf(s) = Unset)
  <2>1. CASE fresh
    <3>1. TreeSound([entries |-> <<>>, leaf |-> 0, name |-> Unset])
          /\ NameOf([entries |-> <<>>, leaf |-> 0, name |-> Unset]) = Unset
      BY EmptyTree
    <3>2. s = [entries |-> <<>>, leaf |-> 0, name |-> Unset]
      BY <2>1
    <3>. HIDE DEF s
    <3>. QED BY <3>1, <3>2
  <2>2. CASE ~ fresh
    BY <1>4, <2>2 DEF MetadataInv, TreesInv
  <2>. QED BY <2>1, <2>2
<1> HIDE DEF s
<1>6. /\ m \in ToSet(Models) /\ l \in ToSet(Levels)
      /\ TreeSound(t) /\ NameOf(t) = NameOf(s) /\ Agrees(t, models, m, l, option # Unset)
      /\ Rooted(s) => Rooted(t)
      /\ Len(s.entries) = 0 => Rooted(t)
  BY <1>1, <1>2, <1>5, SeededAgrees
<1> HIDE DEF m, l, t
<1>7. CASE fresh
  <2>1. i = Len(sessions) + 1
    BY <1>3, <1>7
  <2>2. Rooted(t) /\ NameOf(t) = Unset /\ sessions' = Append(sessions, t) /\ named' = Append(named, Unset)
    BY <1>2, <1>5, <1>6, <1>7
  <2>3. /\ TreesInv' /\ DOMAIN sessions' = DOMAIN sessions \cup {Len(sessions) + 1}
        /\ sessions'[Len(sessions) + 1] = t
        /\ \A j \in DOMAIN sessions : sessions'[j] = sessions[j]
        /\ Len(sessions') = Len(sessions) + 1
    BY <1>2, <1>6, <2>2, AddedSession
  <2>4. NamesInv'
    BY <2>2, <2>3, NameAdded
  <2>5. cur' \in DOMAIN sessions' /\ sessions'[cur'] = t
    BY <1>2, <2>1, <2>3
  <2>6. MetadataTypes'
    BY <1>1, <1>2, <1>6, <2>5 DEF MetadataTypes
  <2>7. AgentInv'
    BY <1>2, <1>6, <2>5 DEF AgentInv
  <2>. QED BY <2>3, <2>4, <2>6, <2>7 DEF MetadataInv
<1>8. CASE ~ fresh
  <2>1. i \in DOMAIN sessions /\ sessions' = [sessions EXCEPT ![i] = t] /\ named' = named
    BY <1>2, <1>4, <1>8
  <2>2. bare \subseteq bare' /\ (i \notin bare' => Rooted(t))
    BY <1>2, <1>4, <1>6, <1>8 DEF MetadataInv, TreesInv
  <2>3. /\ TreesInv' /\ DOMAIN sessions' = DOMAIN sessions /\ sessions'[i] = t
        /\ \A j \in DOMAIN sessions : j # i => sessions'[j] = sessions[j]
        /\ Len(sessions') = Len(sessions)
    <3>1. TreeSound(t)
      BY <1>6
    <3>. QED BY <2>1, <2>2, <3>1, ExchangedSession
  <2>4. NamesInv'
    BY <1>4, <1>6, <1>8, <2>1, <2>3 DEF MetadataInv, NamesInv
  <2>5. cur' \in DOMAIN sessions' /\ sessions'[cur'] = t
    BY <1>2, <2>1, <2>3
  <2>6. MetadataTypes'
    BY <1>1, <1>2, <1>6, <2>5 DEF MetadataTypes
  <2>7. AgentInv'
    BY <1>2, <1>6, <2>5 DEF AgentInv
  <2>. QED BY <2>3, <2>4, <2>6, <2>7 DEF MetadataInv
<1>. QED BY <1>7, <1>8

LEMMA EndKeeps == ASSUME MetadataInv, EndProcess PROVE MetadataInv'
<1>1. registry' = {} /\ UNCHANGED <<sessions, cur, model, level, given, bare, torn, named>>
  BY DEF EndProcess
<1>. QED BY <1>1 DEF MetadataInv, MetadataTypes, TreesInv, NamesInv, AgentInv

LEMMA InitMetadata == MetadataInit => MetadataInv
<1>1. SUFFICES ASSUME MetadataInit PROVE MetadataInv
  OBVIOUS
<1>2. sessions = <<>> /\ registry = {} /\ given = FALSE /\ torn = FALSE /\ named = <<>>
  BY <1>1 DEF MetadataInit
<1>3. <<>> \in Seq(Trees) /\ <<>> \in Seq(Names \cup {Unset}) /\ DOMAIN <<>> = {}
  OBVIOUS
<1>4. TreesInv
  BY <1>2, <1>3 DEF TreesInv
<1>5. NamesInv
  BY <1>2, <1>3 DEF NamesInv
<1>. QED BY <1>2, <1>4, <1>5 DEF MetadataInv, MetadataTypes, AgentInv

LEMMA StepKeepsMetadata == MetadataInv /\ [MetadataNext]_metaVars => MetadataInv'
<1>1. SUFFICES ASSUME MetadataInv, [MetadataNext]_metaVars PROVE MetadataInv'
  OBVIOUS
<1>2. CASE UNCHANGED metaVars
  BY <1>1, <1>2 DEF metaVars, MetadataInv, MetadataTypes, TreesInv, NamesInv, AgentInv
<1>3. CASE MetadataNext
  <2>1. ASSUME NEW i \in 1 .. Len(sessions) + 1, NEW option \in ToSet(Models) \cup {Unset},
               NEW models \in Registries, StartProcess(i, option, models)
        PROVE  MetadataInv'
    BY <1>1, <2>1, StartKeeps
  <2>2. CASE EndProcess
    BY <1>1, <2>2, EndKeeps
  <2>3. ASSUME NEW m, SetModel(m) PROVE MetadataInv'
    BY <1>1, <2>3, SetModelKeeps
  <2>4. ASSUME NEW l, SetLevel(l) PROVE MetadataInv'
    BY <1>1, <2>4, SetLevelKeeps
  <2>5. ASSUME NEW forward \in BOOLEAN, CycleModel(forward) \/ (Running /\ CycleLevel(forward))
        PROVE  MetadataInv'
    BY <2>3, <2>4, <2>5 DEF CycleModel, CycleLevel
  <2>6. ASSUME NEW name \in Names, Rename(name) \/ NewSession(name) PROVE MetadataInv'
    BY <1>1, <2>6, RenameKeeps, NewSessionKeeps
  <2>7. ASSUME NEW i \in DOMAIN sessions, SwitchSession(i) PROVE MetadataInv'
    BY <1>1, <2>7, SwitchKeeps
  <2>8. ASSUME NEW e \in 0 .. Len(sessions[cur].entries), NavigateTo(e) PROVE MetadataInv'
    BY <1>1, <2>8, NavigateKeeps
  <2>. QED BY <1>3, <2>1, <2>2, <2>3, <2>4, <2>5, <2>6, <2>7, <2>8 DEF MetadataNext
<1>. QED BY <1>1, <1>2, <1>3

LEMMA MetadataInvIsEnough == MetadataInv => MetadataKept
<1>1. SUFFICES ASSUME MetadataInv PROVE MetadataKept
  OBVIOUS
<1>2. \A i \in DOMAIN sessions : NameOf(sessions[i]) = named[i]
  BY <1>1 DEF MetadataInv, NamesInv
<1>3. ASSUME NEW i \in DOMAIN sessions \ bare
      PROVE  OnPath(sessions[i], "model") # Unset /\ OnPath(sessions[i], "level") # Unset
  <2>1. TreeSound(sessions[i]) /\ FirstTwo(sessions[i]) /\ sessions[i].leaf >= 2
    BY <1>1 DEF MetadataInv, TreesInv, Rooted
  <2>. QED BY <2>1, RootedTells
<1>4. Running /\ ~ torn =>
        /\ ~ given /\ OnPath(Session, "model") \in registry => model = OnPath(Session, "model")
        /\ OnPath(Session, "level") # Unset => level \in {OnPath(Session, "level"), "off"}
  BY <1>1 DEF MetadataInv, AgentInv, Agrees, Running, Session
<1>. QED BY <1>2, <1>3, <1>4 DEF MetadataKept

(* The agent has the model and the level of the branch it works on, every session tells both,
   and keeps the name it was given last: for any models, levels and names, and any number of
   sessions, entries and processes. *)
THEOREM MetadataIsKept == MetadataSpec => []MetadataKept
<1>1. MetadataSpec => []MetadataInv
  BY InitMetadata, StepKeepsMetadata, PTL DEF MetadataSpec
<1>. QED BY <1>1, MetadataInvIsEnough, PTL
=============================================================================
