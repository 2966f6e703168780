--------------------------- MODULE ProvidersProofs ---------------------------
(* Theorems about ProviderStream, CredentialStore and SettingsLayers, for any number of events,
   calls and processes and any documents. *)
EXTENDS ProviderStream, CredentialStore, SettingsLayers, SequenceTheorems, FiniteSetTheorems,
        WellFoundedInduction, TLAPS

Places ==
    {"attempt", "building", "opening", "reading", "chunk", "start", "lateStart", "finishing",
     "unwinding", "handling", "sleeping", "ended"}

(* Where the code of _run_once stands before the start event has been pushed, and after. *)
BeforeStart == {"attempt", "building", "opening", "start", "lateStart", "sleeping"}
AfterStart == {"reading", "chunk", "finishing"}

Finishes == {"none", "stop", "toolUse", "length"}
Blocks == [kind : Kinds, open : BOOLEAN]
Exceptions ==
    [kind : {"none", "error", "aborted"}, retryable : BOOLEAN, after : Requests, started : BOOLEAN]

Shape ==
    /\ pc \in Places
    /\ attempt \in 0 .. MaxRetries
    /\ cancelled \in BOOLEAN
    /\ started \in BOOLEAN
    /\ blocks \in Seq(Blocks)
    /\ chunks \in 0 .. MaxChunks
    /\ finish \in Finishes
    /\ error \in Exceptions
    /\ terminal \in Finishes \cup {"error", "aborted"}
    /\ starts \in {0, 1}

(* The start event is pushed once in all attempts: a later attempt begins only when no
   earlier one has pushed it. *)
StartInv ==
    /\ starts = IF started THEN 1 ELSE 0
    /\ ~ started => blocks = <<>>
    /\ pc \in BeforeStart => ~ started
    /\ pc \in AfterStart => started

(* A delta is of a line that has been read. *)
ChunkInv ==
    /\ Len(blocks) <= chunks
    /\ pc \in {"chunk", "start"} => Len(blocks) < chunks

(* An exception is there only where it unwinds or is handled, and one that may be retried
   knows whether the stream had started. *)
ErrorInv ==
    /\ pc \notin {"unwinding", "handling", "sleeping", "ended"} => error = NoError
    /\ pc = "handling" => error # NoError
    /\ error # NoError => error.kind \in {"error", "aborted"}
    /\ error.retryable => error.kind = "error" /\ error.started = started
    /\ error.retryable /\ pc # "ended" => terminal = "none"

(* A terminal event is pushed where the task leaves, and a done event after its message. *)
TerminalInv ==
    /\ terminal # "none" => pc \in {"unwinding", "handling", "ended"}
    /\ pc = "unwinding" => (terminal # "none" <=> error = NoError)
    /\ pc = "handling" /\ terminal # "none" => error.kind = "error"
    /\ pc = "ended" => terminal # "none"

StreamInv ==
    /\ Shape /\ StartInv /\ ChunkInv /\ ErrorInv /\ TerminalInv
    /\ pc = "sleeping" => error.retryable
    /\ RetryDiscipline

-----------------------------------------------------------------------------
LEMMA LeastNatural ==
    ASSUME NEW S, S \subseteq Nat, S # {}
    PROVE  \E n \in S : \A m \in S : n <= m
<1> DEFINE R == OpToRel(<, Nat)
<1>1. IsWellFoundedOn(R, Nat)
  BY NatLessThanWellFounded
<1> HIDE DEF R
<1>2. \E n \in S : \A m \in S : ~ (<<m, n>> \in R)
  BY <1>1, WFMin
<1>3. ASSUME NEW m \in Nat, NEW n \in Nat, ~ (<<m, n>> \in R) PROVE n <= m
  BY <1>3 DEF R, OpToRel
<1> QED
  BY <1>2, <1>3

LEMMA KindsAreNatural == Kinds \subseteq Nat
  BY IndicesAssumption DEF Kinds, Text, Thinking, Tools, Tool

(* While a block is open there is one to end: the open block with the least kind. *)
LEMMA NextToEndIsOpen ==
    ASSUME blocks \in Seq(Blocks), Open # {}
    PROVE  NextToEnd \in Open
<1> DEFINE Ks == {blocks[i].kind : i \in Open}
<1>1. \A i \in Open : i \in DOMAIN blocks /\ blocks[i] \in Blocks
  BY ElementOfSeq DEF Open
<1>2. Ks \subseteq Nat /\ Ks # {}
  BY <1>1, KindsAreNatural DEF Blocks
<1>3. PICK n \in Ks : \A m \in Ks : n <= m
  BY <1>2, LeastNatural
<1>4. \E i \in Open : \A j \in Open : blocks[i].kind <= blocks[j].kind
  BY <1>3
<1> QED
  BY <1>4 DEF NextToEnd

LEMMA ExceptionShapes ==
    /\ NoDelay \in Requests
    /\ NoError \in Exceptions /\ NoError.kind = "none" /\ ~ NoError.retryable
    /\ Aborted \in Exceptions /\ Aborted.kind = "aborted" /\ ~ Aborted.retryable
    /\ Aborted # NoError
  BY DEF Exceptions, NoError, Aborted, NoDelay, Requests

LEMMA FailureShape ==
    ASSUME started \in BOOLEAN, NEW r \in BOOLEAN, NEW a \in Requests
    PROVE  /\ Failure(r, a) \in Exceptions /\ Failure(r, a) # NoError
           /\ Failure(r, a).kind = "error" /\ Failure(r, a).retryable = r
           /\ Failure(r, a).after = a /\ Failure(r, a).started = started
  BY DEF Failure, Exceptions, NoError

LEMMA CloseFailureShape ==
    ASSUME started \in BOOLEAN
    PROVE  /\ CloseFailure \in Exceptions /\ CloseFailure # NoError
           /\ CloseFailure.kind = "error" /\ ~ CloseFailure.retryable
  BY ExceptionShapes DEF CloseFailure, Failure, Exceptions, NoError

LEMMA InitStreamInv == Init => StreamInv
<1> SUFFICES ASSUME Init PROVE StreamInv
  OBVIOUS
<1>1. blocks \in Seq(Blocks) /\ Len(blocks) = 0
  BY DEF Init
<1>2. 0 \in 0 .. MaxRetries /\ 0 \in 0 .. MaxChunks
  BY RetriesAssumption
<1>3. Shape
  BY <1>1, <1>2, ExceptionShapes DEF Init, Shape, Places, Finishes
<1> QED
  BY <1>1, <1>3, ExceptionShapes DEF Init, StreamInv, StartInv, ChunkInv, ErrorInv, TerminalInv,
     RetryDiscipline, BeforeStart, AfterStart

LEMMA StepStreamInv == StreamInv /\ [Next]_vars => StreamInv'
<1> SUFFICES ASSUME StreamInv, [Next]_vars PROVE StreamInv'
  OBVIOUS
<1> USE RetriesAssumption, ExceptionShapes
<1>1. CASE UNCHANGED vars
  BY <1>1 DEF vars, StreamInv, Shape, StartInv, ChunkInv, ErrorInv, TerminalInv,
     RetryDiscipline, Places, BeforeStart, AfterStart, Finishes, localVars, Goto
<1>2. CASE Cancel
  BY <1>2 DEF Cancel, StreamInv, Shape, StartInv, ChunkInv, ErrorInv, TerminalInv,
     RetryDiscipline, Places, BeforeStart, AfterStart, Finishes, localVars, Goto
<1>3. CASE Begin
  <2>1. UNCHANGED <<started, blocks>> /\ Len(blocks) = 0
    BY <1>3 DEF Begin, StreamInv, Shape, StartInv, BeforeStart
  <2>2. CASE cancelled
    BY <1>3, <2>1, <2>2 DEF Begin, Raise, StreamInv, Shape, StartInv, ChunkInv, ErrorInv, TerminalInv,
       RetryDiscipline, Places, BeforeStart, AfterStart, Finishes, localVars, Goto
  <2>3. CASE ~ cancelled
    BY <1>3, <2>1, <2>3 DEF Begin, StreamInv, Shape, StartInv, ChunkInv, ErrorInv, TerminalInv,
       RetryDiscipline, Places, BeforeStart, AfterStart, Finishes, localVars, Goto
  <2> QED
    BY <2>2, <2>3
<1>4. CASE Build
  <2>1. CASE Goto("opening") /\ UNCHANGED error
    BY <1>4, <2>1 DEF Build, StreamInv, Shape, StartInv, ChunkInv, ErrorInv, TerminalInv,
       RetryDiscipline, Places, BeforeStart, AfterStart, Finishes, localVars, Goto
  <2>2. CASE Raise(Failure(FALSE, NoDelay))
    BY <1>4, <2>2, FailureShape DEF Build, Raise, StreamInv, Shape, StartInv, ChunkInv, ErrorInv, TerminalInv,
       RetryDiscipline, Places, BeforeStart, AfterStart, Finishes, localVars, Goto
  <2> QED
    BY <1>4, <2>1, <2>2 DEF Build
<1>5. CASE OpenFails
  BY <1>5, FailureShape DEF OpenFails, Raise, StreamInv, Shape, StartInv, ChunkInv, ErrorInv, TerminalInv,
     RetryDiscipline, Places, BeforeStart, AfterStart, Finishes, localVars, Goto
<1>6. CASE Read
  BY <1>6 DEF Read, StreamInv, Shape, StartInv, ChunkInv, ErrorInv, TerminalInv,
     RetryDiscipline, Places, BeforeStart, AfterStart, Finishes, localVars, Goto
<1>7. CASE ReadEnd
  BY <1>7 DEF ReadEnd, StreamInv, Shape, StartInv, ChunkInv, ErrorInv, TerminalInv,
     RetryDiscipline, Places, BeforeStart, AfterStart, Finishes, localVars, Goto
<1>8. CASE ReadFails
  BY <1>8, FailureShape DEF ReadFails, Raise, StreamInv, Shape, StartInv, ChunkInv, ErrorInv, TerminalInv,
     RetryDiscipline, Places, BeforeStart, AfterStart, Finishes, localVars, Goto
<1>9. CASE ReadCancelled
  BY <1>9 DEF ReadCancelled, Raise, StreamInv, Shape, StartInv, ChunkInv, ErrorInv, TerminalInv,
     RetryDiscipline, Places, BeforeStart, AfterStart, Finishes, localVars, Goto
<1>10. CASE PushStart
  <2>0. starts = 0 /\ starts' = 1 /\ started'
    BY <1>10 DEF PushStart, StreamInv, Shape, StartInv, BeforeStart
  <2>1. CASE pc = "start"
    BY <1>10, <2>0, <2>1 DEF PushStart, StreamInv, Shape, StartInv, ChunkInv, ErrorInv, TerminalInv,
       RetryDiscipline, Places, BeforeStart, AfterStart, Finishes, localVars, Goto
  <2>2. CASE pc = "lateStart"
    BY <1>10, <2>0, <2>2 DEF PushStart, StreamInv, Shape, StartInv, ChunkInv, ErrorInv, TerminalInv,
       RetryDiscipline, Places, BeforeStart, AfterStart, Finishes, localVars, Goto
  <2> QED
    BY <1>10, <2>1, <2>2 DEF PushStart
<1>11. CASE SkipChunk
  BY <1>11 DEF SkipChunk, StreamInv, Shape, StartInv, ChunkInv, ErrorInv, TerminalInv,
     RetryDiscipline, Places, BeforeStart, AfterStart, Finishes, localVars, Goto
<1>12. ASSUME NEW k \in Kinds, StartBlock(k) PROVE StreamInv'
  <2>1. Block(k, TRUE) \in Blocks
    BY DEF Block, Blocks
  <2>2. blocks' \in Seq(Blocks) /\ Len(blocks') = Len(blocks) + 1
    <3>1. blocks \in Seq(Blocks) /\ blocks' = Append(blocks, Block(k, TRUE))
      BY <1>12 DEF StartBlock, StreamInv, Shape
    <3> QED
      BY ONLY <2>1, <3>1, AppendProperties
  <2>3. Shape'
    BY <1>12, <2>2 DEF StartBlock, StreamInv, Shape, Places, Goto
  <2>4. StartInv'
    BY <1>12 DEF StartBlock, StreamInv, StartInv, BeforeStart, AfterStart, Goto
  <2>5. ChunkInv'
    BY <1>12, <2>2, LenProperties DEF StartBlock, StreamInv, Shape, ChunkInv, Goto
  <2> QED
    BY <1>12, <2>3, <2>4, <2>5 DEF StartBlock, StreamInv, ErrorInv, TerminalInv, RetryDiscipline,
       Goto
<1>13. ASSUME NEW k \in Kinds, Delta(k) PROVE StreamInv'
  BY <1>13 DEF Delta, StreamInv, Shape, StartInv, ChunkInv, ErrorInv, TerminalInv,
     RetryDiscipline, Places, BeforeStart, AfterStart, Finishes, localVars, Goto
<1>14. CASE EndBlock
  <2>1. NextToEnd \in DOMAIN blocks
    BY <1>14, NextToEndIsOpen DEF EndBlock, Open, StreamInv, Shape
  <2>2. blocks' \in Seq(Blocks) /\ Len(blocks') = Len(blocks) /\ blocks # <<>>
    <3>1. blocks[NextToEnd] \in Blocks
      BY <2>1, ElementOfSeq DEF StreamInv, Shape
    <3>2. [blocks[NextToEnd] EXCEPT !.open = FALSE] \in Blocks
      BY <3>1 DEF Blocks
    <3> QED
      BY <1>14, <2>1, <3>2, ExceptSeq DEF EndBlock, StreamInv, Shape
  <2> QED
    BY <1>14, <2>2 DEF EndBlock, StreamInv, Shape, StartInv, ChunkInv, ErrorInv, TerminalInv,
     RetryDiscipline, Places, BeforeStart, AfterStart, Finishes, localVars, Goto
<1>15. CASE EndBlockFails
  BY <1>15, FailureShape DEF EndBlockFails, Raise, StreamInv, Shape, StartInv, ChunkInv, ErrorInv, TerminalInv,
     RetryDiscipline, Places, BeforeStart, AfterStart, Finishes, localVars, Goto
<1>16. CASE PushDone
  <2>1. StopReason \in Finishes \ {"none"}
    BY DEF StopReason, StreamInv, Shape, Finishes
  <2>2. CASE cancelled
    <3>1. /\ error' = Aborted /\ pc' = "unwinding"
          /\ UNCHANGED <<terminal, attempt, cancelled, localVars, delay, starts>>
      BY <1>16, <2>2 DEF PushDone, Raise, Goto
    <3>2. terminal = "none" /\ started
      BY <1>16 DEF PushDone, StreamInv, TerminalInv, StartInv, AfterStart
    <3> QED
      BY <3>1, <3>2 DEF StreamInv, Shape, StartInv, ChunkInv, ErrorInv, TerminalInv,
         RetryDiscipline, Places, BeforeStart, AfterStart, localVars
  <2>3. CASE ~ cancelled
    BY <1>16, <2>1, <2>3 DEF PushDone, StreamInv, Shape, StartInv, ChunkInv, ErrorInv, TerminalInv,
     RetryDiscipline, Places, BeforeStart, AfterStart, Finishes, localVars, Goto
  <2> QED
    BY <2>2, <2>3
<1>17. CASE Unwind
  BY <1>17, CloseFailureShape DEF Unwind, StreamInv, Shape, StartInv, ChunkInv, ErrorInv, TerminalInv,
     RetryDiscipline, Places, BeforeStart, AfterStart, Finishes, localVars, Goto
<1>18. CASE HandleAborted
  BY <1>18 DEF HandleAborted, PushTerminal, StreamInv, Shape, StartInv, ChunkInv, ErrorInv, TerminalInv,
     RetryDiscipline, Places, BeforeStart, AfterStart, Finishes, localVars, Goto
<1>19. CASE GiveUp
  BY <1>19 DEF GiveUp, PushTerminal, MayRetry, StreamInv, Shape, StartInv, ChunkInv, ErrorInv, TerminalInv,
     RetryDiscipline, Places, BeforeStart, AfterStart, Finishes, localVars, Goto
<1>20. CASE Retry
  <2>1. Maximum > 0 => delay' <= Maximum
    BY <1>20, DelaysAssumption DEF Retry, Excessive, Backoff, Shape, StreamInv, Exceptions, Requests, NoDelay, RetryAfter
  <2>2. error.retryable /\ ~ error.started /\ attempt < MaxRetries
    BY <1>20 DEF Retry, MayRetry
  <2> QED
    BY <1>20, <2>1, <2>2 DEF Retry, StreamInv, Shape, StartInv, ChunkInv, ErrorInv, TerminalInv,
     RetryDiscipline, Places, BeforeStart, AfterStart, Finishes, localVars, Goto
<1>21. CASE Wake
  BY <1>21 DEF Wake, StreamInv, Shape, StartInv, ChunkInv, ErrorInv, TerminalInv,
     RetryDiscipline, Places, BeforeStart, AfterStart, Finishes, localVars, Goto
<1>22. CASE SleepCancelled
  BY <1>22 DEF SleepCancelled, StreamInv, Shape, StartInv, ChunkInv, ErrorInv, TerminalInv,
     RetryDiscipline, Places, BeforeStart, AfterStart, Finishes, localVars, Goto
<1> QED
  BY <1>1, <1>2, <1>3, <1>4, <1>5, <1>6, <1>7, <1>8, <1>9, <1>10, <1>11, <1>12, <1>13, <1>14, <1>15, <1>16, <1>17, <1>18, <1>19, <1>20, <1>21, <1>22 DEF Next, Step

(* Every reachable state satisfies the inductive invariant of the request. *)
THEOREM StreamInvariance == Spec => []StreamInv
  BY InitStreamInv, StepStreamInv, PTL DEF Spec

(* Whenever the task sleeps before another attempt nothing has been pushed, an attempt is
   left, and the delay is the one that the server asks for and no longer than the user
   allows: a failure after the stream has begun is never retried. *)
THEOREM RetriesAreDisciplined == Spec => []RetryDiscipline
<1>1. StreamInv => RetryDiscipline
  BY DEF StreamInv
<1> QED
  BY <1>1, StreamInvariance, PTL

-----------------------------------------------------------------------------
(* The refinement of StreamProtocol. *)

LEMMA InitRefines == Init => Protocol!Init
  BY DEF Init, Protocol!Init

(* Steps that push nothing. *)
LEMMA SilentSteps ==
    ASSUME UNCHANGED <<blocks, terminal, starts>>
    PROVE  UNCHANGED Protocol!vars
  BY DEF Protocol!vars

LEMMA StepRefines ==
    ASSUME StreamInv, [Next]_vars
    PROVE  [Protocol!Next]_(Protocol!vars)
<1>1. CASE UNCHANGED vars
  BY <1>1, SilentSteps DEF vars, localVars
<1>2. CASE \/ Cancel \/ Build \/ OpenFails \/ Read \/ ReadEnd \/ ReadFails \/ ReadCancelled
           \/ SkipChunk \/ EndBlockFails \/ Unwind \/ Retry \/ Wake \/ SleepCancelled
           \/ \E k \in Kinds : Delta(k)
  BY <1>2, SilentSteps DEF Cancel, Build, OpenFails, Read, ReadEnd, ReadFails, ReadCancelled,
     SkipChunk, EndBlockFails, Unwind, Retry, Wake, SleepCancelled, Delta, localVars
<1>3. CASE Begin
  BY <1>3, SilentSteps DEF Begin, StreamInv, StartInv, BeforeStart
<1>4. CASE PushStart
  <2>1. terminal = "none" /\ starts = 0 /\ starts' = 1 /\ UNCHANGED <<blocks, terminal>>
    BY <1>4 DEF PushStart, StreamInv, Shape, StartInv, BeforeStart, TerminalInv
  <2> QED
    BY <2>1 DEF Protocol!Next, Protocol!Start
<1>5. ASSUME NEW k \in Kinds, StartBlock(k) PROVE Protocol!StartBlock
  <2>1. terminal = "none" /\ starts # 0 /\ terminal' = terminal /\ starts' = starts
    BY <1>5 DEF StartBlock, StreamInv, StartInv, AfterStart, TerminalInv
  <2>2. Len(blocks) < 2 + MaxChunks
    BY <1>5, LenProperties, RetriesAssumption DEF StartBlock, StreamInv, Shape, ChunkInv
  <2>3. \E j \in Kinds : blocks' = Append(blocks, Protocol!Block(j, TRUE))
    BY <1>5 DEF StartBlock, Block, Protocol!Block
  <2> QED
    BY <2>1, <2>2, <2>3 DEF Protocol!StartBlock
<1>6. CASE EndBlock
  <2>1. terminal = "none" /\ starts # 0 /\ terminal' = terminal /\ starts' = starts
    BY <1>6 DEF EndBlock, StreamInv, StartInv, AfterStart, TerminalInv
  <2>2. NextToEnd \in DOMAIN blocks /\ blocks[NextToEnd].open
    BY <1>6, NextToEndIsOpen DEF EndBlock, Open, StreamInv, Shape
  <2>3. blocks' = [blocks EXCEPT ![NextToEnd].open = FALSE]
    BY <1>6 DEF EndBlock
  <2>4. \E i \in DOMAIN blocks :
          blocks[i].open /\ blocks' = [blocks EXCEPT ![i].open = FALSE]
    BY <2>2, <2>3
  <2>5. Protocol!EndBlock
    BY <2>1, <2>4 DEF Protocol!EndBlock
  <2> QED
    BY <2>5 DEF Protocol!Next
<1>7. CASE PushDone
  <2>1. terminal = "none" /\ starts = 1 /\ UNCHANGED <<blocks, starts>>
    BY <1>7 DEF PushDone, StreamInv, StartInv, AfterStart, TerminalInv, localVars
  <2>2. CASE cancelled
    BY <1>7, <2>2, SilentSteps DEF PushDone, localVars
  <2>3. CASE ~ cancelled
    <3>1. terminal' \in {"stop", "toolUse", "length"}
      BY <1>7, <2>3 DEF PushDone, StopReason, StreamInv, Shape, Finishes
    <3>2. \A i \in DOMAIN blocks : ~ blocks[i].open
      BY <1>7 DEF PushDone, Open
    <3> QED
      BY <2>1, <3>1, <3>2 DEF Protocol!Next, Protocol!Done
  <2> QED
    BY <2>2, <2>3
<1>8. CASE HandleAborted
  <2>1. terminal = "none" /\ terminal' = "aborted" /\ UNCHANGED <<blocks, starts>>
    BY <1>8 DEF HandleAborted, PushTerminal, StreamInv, TerminalInv, localVars
  <2> QED
    BY <2>1 DEF Protocol!Next, Protocol!Fail
<1>9. CASE GiveUp
  <2>1. UNCHANGED <<blocks, starts>>
    BY <1>9 DEF GiveUp, localVars
  <2>2. CASE terminal = "none"
    BY <1>9, <2>1, <2>2 DEF GiveUp, PushTerminal, Protocol!Next, Protocol!Fail
  <2>3. CASE terminal # "none"
    BY <1>9, <2>1, <2>3, SilentSteps DEF GiveUp, PushTerminal
  <2> QED
    BY <2>2, <2>3
<1> QED
  BY <1>1, <1>2, <1>3, <1>4, <1>5, <1>6, <1>7, <1>8, <1>9 DEF Next, Step, Protocol!Next

(* Across all its attempts the provider pushes one well-formed message: at most one start,
   blocks that are started and ended, and nothing after a terminal event, done only when
   every block has ended.  (That there is a terminal event is the fairness part of
   KeepsProtocol.) *)
THEOREM ImplementsProtocol ==
    Spec => Protocol!Init /\ [][Protocol!Next]_(Protocol!vars)
  BY InitRefines, StreamInvariance, StepRefines, PTL DEF Spec

-----------------------------------------------------------------------------
(* CredentialStore: what threads, locks and secrets have to do with each other. *)
CallPlaces == {"get", "wait", "reget", "refreshing", "set", "remove", "left"}
Methods == {"resolve", "set", "remove", "get", "reget"}
CallsUnderWay ==
    [at : CallPlaces, method : Methods, provider : Providers,
     cred : Credentials \cup {Nil}, old : Credentials \cup {Nil}]
AuthFiles == [Providers -> Credentials \cup {Nil}]

CredentialShape ==
    /\ file \in AuthFiles /\ written \in AuthFiles /\ expired \in SUBSET Secrets
    /\ call \in [Calls -> {[at |-> "ready"], [at |-> "done"]} \cup CallsUnderWay]
    /\ thread \in [Calls -> {"none", "queued", "read", "done", "raised"}]
    /\ seen \in [Calls -> AuthFiles]
    /\ fileHolder \in Calls \cup {Nil}
    /\ storageLock \in [Processes -> Calls \cup {Nil}]
    /\ refreshLock \in [Processes -> [Providers -> Calls \cup {Nil}]]
    /\ secrets \in Secrets /\ mishaps \in Nat
    /\ spent \in [Processes -> SUBSET Secrets]

UnderWay(c) == call[c].at \in CallPlaces

(* The thread of a call, and what the call has at hand. *)
ThreadsFit(c) ==
    /\ call[c].at \in {"ready", "wait", "refreshing", "done"} => thread[c] = "none"
    /\ call[c].at = "left" => thread[c] # "none" /\ call[c].method \in {"get", "reget", "set", "remove"}
    /\ call[c].at = "remove" => call[c].method = "remove"
    /\ call[c].at = "refreshing" => call[c].cred # Nil
    /\ UnderWay(c) /\ Purpose(c) = "set" => call[c].cred # Nil
    /\ call[c].at = "set" /\ call[c].method = "resolve" => call[c].old # Nil

(* Who has read the file under its lock has seen what it still holds. *)
FileInv ==
    /\ file = written
    /\ \A c \in Calls : thread[c] = "read" => fileHolder = c /\ seen[c] = file

(* A call that refreshes holds the lock of its process for the provider until it has stored. *)
Refreshing(c) == call[c].at \in {"reget", "refreshing"} \/ (call[c].at = "set" /\ call[c].method = "resolve")
RefreshInv == \A c \in Calls : Refreshing(c) => refreshLock[ProcessOf[c]][call[c].provider] = c

(* A secret is of one provider.  One that is still to be stored is nowhere else. *)
Sec(x, k) == x # Nil /\ x.secret = k
HasSecret(c, k) == UnderWay(c) /\ (Sec(call[c].cred, k) \/ Sec(call[c].old, k))
Belongs(k, p) ==
    \/ Sec(file[p], k)
    \/ \E c \in Calls : Sec(seen[c][p], k) \/ (call[c].provider = p /\ HasSecret(c, k))
Pending(c) == UnderWay(c) /\ Purpose(c) = "set" /\ thread[c] \notin {"done", "raised"}
Circulates(k) ==
    \/ \E p \in Providers : Sec(file[p], k) \/ \E c \in Calls : Sec(seen[c][p], k)
    \/ \E c \in Calls : UnderWay(c) /\ (Sec(call[c].old, k) \/ (Sec(call[c].cred, k) /\ ~Pending(c)))
    \/ \E x \in Processes : k \in spent[x]
SecretInv ==
    /\ \A k \in Secrets : \A p \in Providers : Belongs(k, p) => k <= secrets
    /\ \A x \in Processes : \A k \in spent[x] : k <= secrets
    /\ \A k \in Secrets : \A p, q \in Providers : Belongs(k, p) /\ Belongs(k, q) => p = q
    /\ \A c \in Calls : Pending(c) => ~Circulates(call[c].cred.secret)
    /\ \A c, d \in Calls : Pending(c) /\ Pending(d) /\ call[c].cred.secret = call[d].cred.secret => c = d

(* What has been refreshed and stored is not in the file any more, nor found there by a call
   that is about to refresh. *)
SpentInv ==
    /\ \A x \in Processes : \A k \in spent[x] : \A p \in Providers : ~Sec(file[p], k)
    /\ \A c \in Calls : call[c].at = "set" /\ call[c].method = "resolve" /\ thread[c] = "done" =>
            \A p \in Providers : ~Sec(file[p], call[c].old.secret)
    /\ \A c \in Calls : call[c].at = "reget" /\ thread[c] \in {"read", "done"} =>
            \A k \in spent[ProcessOf[c]] : ~Sec(Found(c), k)
    /\ \A c \in Calls : call[c].at = "refreshing" => call[c].cred.secret \notin spent[ProcessOf[c]]

CredentialInv ==
    /\ CredentialShape /\ (\A c \in Calls : ThreadsFit(c))
    /\ FileInv /\ RefreshInv /\ SecretInv /\ SpentInv

(* A step of one call. *)
Only(c) ==
    /\ \A d \in Calls \ {c} : call'[d] = call[d] /\ thread'[d] = thread[d] /\ seen'[d] = seen[d]

-----------------------------------------------------------------------------
LEMMA SecretsTyped ==
    ASSUME CredentialShape, CredentialAssumption
    PROVE  /\ \A x \in Credentials \cup {Nil} : \A k : Sec(x, k) => k \in Secrets
           /\ \A c \in Calls : ProcessOf[c] \in Processes
           /\ \A c \in Calls : UnderWay(c) => call[c] \in CallsUnderWay
<1>1. \A x \in Credentials \cup {Nil} : \A k : Sec(x, k) => k \in Secrets
  BY DEF Sec, Credentials
<1>2. \A c \in Calls : UnderWay(c) => call[c] \in CallsUnderWay
  BY DEF CredentialShape, UnderWay, CallPlaces
<1> QED
  BY <1>1, <1>2 DEF Processes

LEMMA CirculatesBelongs ==
    ASSUME CredentialShape, CredentialAssumption, SecretInv, NEW k \in Secrets, Circulates(k)
    PROVE  k <= secrets
<1>1. CASE \E p \in Providers : Belongs(k, p)
  BY <1>1 DEF SecretInv
<1>2. CASE \E x \in Processes : k \in spent[x]
  BY <1>2 DEF SecretInv
<1>3. ASSUME NEW c \in Calls, HasSecret(c, k) PROVE \E p \in Providers : Belongs(k, p)
  <2>1. call[c].provider \in Providers
    BY <1>3, SecretsTyped DEF HasSecret, CallsUnderWay
  <2> QED
    BY <1>3, <2>1 DEF Belongs
<1>4. ASSUME NEW p \in Providers, Sec(file[p], k) \/ \E c \in Calls : Sec(seen[c][p], k) PROVE Belongs(k, p)
  BY <1>4 DEF Belongs
<1>5. (\E p \in Providers : Belongs(k, p)) \/ (\E x \in Processes : k \in spent[x])
  BY <1>3, <1>4 DEF Circulates, HasSecret
<1> QED
  BY <1>1, <1>2, <1>5

(* Where secrets only move, are stored, or are new. *)
LEMMA SecretsMove ==
    ASSUME CredentialAssumption, CredentialShape, CredentialShape', SecretInv,
           \A c \in Calls : ThreadsFit(c), \A c \in Calls : ThreadsFit(c)',
           NEW new \in Providers, NEW newcomer \in Calls,
           secrets' \in {secrets, secrets + 1},
           \A k \in Secrets : \A p \in Providers : Belongs(k, p)' =>
                Belongs(k, p) \/ (k = secrets + 1 /\ secrets' = secrets + 1 /\ p = new),
           \A k \in Secrets : Circulates(k)' =>
                Circulates(k) \/ \E w \in Calls : Pending(w) /\ ~Pending(w)' /\ call[w].cred.secret = k,
           \A c \in Calls : Pending(c)' =>
                \/ Pending(c) /\ call'[c].cred = call[c].cred
                \/ c = newcomer /\ secrets' = secrets + 1 /\ call'[c].cred.secret = secrets + 1,
           \A x \in Processes : \A k \in spent'[x] : k \in spent[x] \/ \E p \in Providers : Belongs(k, p)
    PROVE  SecretInv'
<1>1. secrets \in Nat /\ secrets' \in Nat /\ secrets <= secrets' /\ Secrets \subseteq Nat
  BY DEF CredentialShape, Secrets, CredentialAssumption
<1>2. \A c \in Calls : Pending(c) =>
        /\ call[c].provider \in Providers /\ call[c].cred.secret \in Secrets
        /\ Belongs(call[c].cred.secret, call[c].provider)
  <2>1. ASSUME NEW c \in Calls, Pending(c) PROVE call[c] \in CallsUnderWay /\ call[c].cred # Nil
    BY <2>1, SecretsTyped DEF Pending, ThreadsFit
  <2>2. ASSUME NEW c \in Calls, Pending(c) PROVE call[c].provider \in Providers /\ call[c].cred \in Credentials
    BY <2>1, <2>2 DEF CallsUnderWay
  <2>3. ASSUME NEW c \in Calls, Pending(c) PROVE call[c].cred.secret \in Secrets
    BY <2>2, <2>3 DEF Credentials
  <2> QED
    BY <2>1, <2>2, <2>3 DEF Belongs, HasSecret, Sec, Pending
<1>3. \A k \in Secrets : \A p \in Providers : Belongs(k, p) => k <= secrets
  BY DEF SecretInv
<1>4. \A k \in Secrets : \A p \in Providers : Belongs(k, p)' => k <= secrets'
  BY <1>1, <1>3
<1>5. \A x \in Processes : \A k \in spent'[x] : k <= secrets'
  <2> SUFFICES ASSUME NEW x \in Processes, NEW k \in spent'[x] PROVE k <= secrets'
    OBVIOUS
  <2>1. k \in Secrets
    BY DEF CredentialShape
  <2>2. k <= secrets
    BY <1>3, <2>1 DEF SecretInv
  <2> QED
    BY <1>1, <2>1, <2>2
<1>6. \A k \in Secrets : \A p, q \in Providers : Belongs(k, p)' /\ Belongs(k, q)' => p = q
  BY <1>1, <1>3 DEF SecretInv
<1>7. \A c \in Calls : Pending(c)' => ~Circulates(call[c].cred.secret)'
  <2>1. ASSUME NEW c \in Calls, Pending(c)' PROVE call'[c].cred.secret \in Secrets
    <3>1. call'[c] \in CallsUnderWay /\ call'[c].cred # Nil
      BY <2>1 DEF Pending, ThreadsFit, CredentialShape, UnderWay, CallPlaces
    <3>2. call'[c].cred \in Credentials
      BY <3>1 DEF CallsUnderWay
    <3> QED
      BY <3>2 DEF Credentials
  <2> SUFFICES ASSUME NEW c \in Calls, Pending(c)', NEW k \in Secrets, k = call'[c].cred.secret, Circulates(k)'
               PROVE  FALSE
    BY <2>1 DEF Circulates
  <2>2. CASE Pending(c) /\ call'[c].cred = call[c].cred
    <3>1. ~Circulates(k)
      BY <2>2 DEF SecretInv
    <3>3. PICK w \in Calls : Pending(w) /\ ~Pending(w)' /\ call[w].cred.secret = k
      BY <3>1
    <3> QED
      BY <2>2, <3>3 DEF SecretInv
  <2>3. CASE k = secrets + 1
    <3>1. ~Circulates(k)
      BY <1>1, <2>3, CirculatesBelongs
    <3>2. PICK w \in Calls : Pending(w) /\ call[w].cred.secret = k
      BY <3>1
    <3> QED
      BY <1>1, <1>2, <1>3, <2>3, <3>2
  <2> QED
    BY <2>2, <2>3
<1>8. \A c, d \in Calls : Pending(c)' /\ Pending(d)' /\ call'[c].cred.secret = call'[d].cred.secret => c = d
  <2>1. \A c \in Calls : Pending(c) => call[c].cred.secret # secrets + 1
    BY <1>1, <1>2, <1>3
  <2> QED
    BY <2>1 DEF SecretInv
<1> QED
  BY <1>4, <1>5, <1>6, <1>7, <1>8 DEF SecretInv
(* A step of a call that brings no secret and stores none. *)
LEMMA SecretsKept ==
    ASSUME CredentialAssumption, CredentialShape, CredentialShape', SecretInv,
           \A d \in Calls : ThreadsFit(d), \A d \in Calls : ThreadsFit(d)',
           NEW c \in Calls, Only(c), UNCHANGED <<file, secrets>>,
           seen'[c] \in {seen[c], Nothing, file},
           UnderWay(c)' =>
                \/ call'[c].cred = Nil /\ call'[c].old = Nil
                \/ /\ UnderWay(c) /\ call'[c].provider = call[c].provider /\ call'[c].old = call[c].old
                   /\ call'[c].cred = call[c].cred \/ (call'[c].cred = Found(c) /\ ~Pending(c)'),
           Pending(c)' => Pending(c) /\ call'[c].cred = call[c].cred,
           \A x \in Processes : \A k \in spent'[x] :
                k \in spent[x] \/ (UnderWay(c) /\ Sec(call[c].old, k))
    PROVE  SecretInv'
<1>1. \A d \in Calls \ {c} : (UnderWay(d)' <=> UnderWay(d)) /\ (Pending(d)' <=> Pending(d)) /\ call'[d] = call[d]
  BY DEF Only, UnderWay, Pending, Purpose, CallAt
<1>2. \A p \in Providers : \A k : ~Sec(Nothing[p], k) /\ ~Sec(Nil, k)
  BY DEF Nothing, Sec
<1>3. \A d \in Calls : \A p \in Providers : \A k : Sec(seen'[d][p], k) => Sec(seen[d][p], k) \/ Sec(file[p], k)
  BY <1>2 DEF Only
<1>4. UnderWay(c) => call[c].provider \in Providers
  BY SecretsTyped DEF CallsUnderWay
<1>5. \A k \in Secrets : HasSecret(c, k)' =>
        /\ UnderWay(c) /\ call'[c].provider = call[c].provider
        /\ HasSecret(c, k) \/ Sec(seen[c][call[c].provider], k)
  BY <1>2 DEF HasSecret, Found
<1>6. \A d \in Calls \ {c} : \A k \in Secrets : HasSecret(d, k)' <=> HasSecret(d, k)
  BY <1>1 DEF HasSecret
<1>7. \A k \in Secrets : \A p \in Providers : Belongs(k, p)' => Belongs(k, p)
  <2> SUFFICES ASSUME NEW k \in Secrets, NEW p \in Providers, Belongs(k, p)' PROVE Belongs(k, p)
    OBVIOUS
  <2>1. CASE Sec(file'[p], k)
    BY <2>1 DEF Belongs
  <2>2. CASE \E d \in Calls : Sec(seen'[d][p], k)
    BY <1>3, <2>2 DEF Belongs
  <2>3. CASE \E d \in Calls : call'[d].provider = p /\ HasSecret(d, k)'
    BY <1>1, <1>5, <1>6, <2>3 DEF Belongs
  <2> QED
    BY <2>1, <2>2, <2>3 DEF Belongs
<1>8. \A k \in Secrets : Circulates(k)' =>
        Circulates(k) \/ \E w \in Calls : Pending(w) /\ ~Pending(w)' /\ call[w].cred.secret = k
  <2> SUFFICES ASSUME NEW k \in Secrets, Circulates(k)'
               PROVE  Circulates(k) \/ \E w \in Calls : Pending(w) /\ ~Pending(w)' /\ call[w].cred.secret = k
    OBVIOUS
  <2>1. CASE \E p \in Providers : Sec(file'[p], k) \/ \E d \in Calls : Sec(seen'[d][p], k)
    BY <1>3, <2>1 DEF Circulates
  <2>2. ASSUME NEW d \in Calls, UnderWay(d)', Sec(call'[d].old, k) \/ (Sec(call'[d].cred, k) /\ ~Pending(d)')
        PROVE  Circulates(k) \/ (Pending(d) /\ ~Pending(d)' /\ call[d].cred.secret = k)
    <3>1. CASE d # c
      BY <1>1, <2>2, <3>1 DEF Circulates
    <3>2. CASE d = c
      <4>1. UnderWay(c)
        BY <1>2, <2>2, <3>2
      <4>2. CASE Sec(call'[c].old, k)
        BY <1>2, <4>1, <4>2, <2>2, <3>2 DEF Circulates
      <4>3. CASE Sec(call'[c].cred, k) /\ ~Pending(c)' /\ call'[c].cred = call[c].cred
        BY <4>1, <4>3, <3>2 DEF Circulates, Sec
      <4>4. CASE Sec(call'[c].cred, k) /\ ~Pending(c)' /\ call'[c].cred = Found(c)
        BY <1>4, <4>1, <4>4 DEF Circulates, Found
      <4> QED
        BY <1>2, <2>2, <3>2, <4>2, <4>3, <4>4
    <3> QED
      BY <3>1, <3>2
  <2>3. ASSUME NEW x \in Processes, k \in spent'[x] PROVE Circulates(k)
    BY <2>3 DEF Circulates
  <2> QED
    BY <2>1, <2>2, <2>3 DEF Circulates
<1>9. \A x \in Processes : \A k \in spent'[x] : k \in spent[x] \/ \E p \in Providers : Belongs(k, p)
  BY <1>4 DEF Belongs, HasSecret
<1>10. PICK new \in Providers : TRUE
  BY DEF CredentialAssumption
<1>11. \A d \in Calls : Pending(d)' => Pending(d) /\ call'[d].cred = call[d].cred
  BY <1>1
<1>12. secrets' \in {secrets, secrets + 1}
  OBVIOUS
<1> QED
  BY <1>7, <1>8, <1>9, <1>10, <1>11, <1>12, SecretsMove

(* A login or a refresh brings a secret. *)
LEMMA SecretComes ==
    ASSUME CredentialAssumption, CredentialShape, CredentialShape', SecretInv,
           \A d \in Calls : ThreadsFit(d), \A d \in Calls : ThreadsFit(d)',
           NEW c \in Calls, Only(c), UNCHANGED <<file, spent, seen>>, secrets' = secrets + 1,
           call'[c] \in CallsUnderWay, call'[c].cred.secret = secrets + 1,
           \/ call'[c].old = Nil
           \/ UnderWay(c) /\ call'[c].provider = call[c].provider /\ call'[c].old = call[c].cred,
           ~Pending(c), Pending(c)'
    PROVE  SecretInv'
<1>1. \A d \in Calls \ {c} : (UnderWay(d)' <=> UnderWay(d)) /\ (Pending(d)' <=> Pending(d)) /\ call'[d] = call[d]
  BY DEF Only, UnderWay, Pending, Purpose, CallAt
<1>2. \A k : ~Sec(Nil, k)
  BY DEF Sec
<1>3. call'[c].provider \in Providers
  BY DEF CallsUnderWay
<1>4. \A k \in Secrets : \A p \in Providers : Belongs(k, p)' =>
        Belongs(k, p) \/ (k = secrets + 1 /\ secrets' = secrets + 1 /\ p = call'[c].provider)
  <2> SUFFICES ASSUME NEW k \in Secrets, NEW p \in Providers, Belongs(k, p)', k # secrets + 1 \/ p # call'[c].provider
               PROVE  Belongs(k, p)
    OBVIOUS
  <2>1. CASE Sec(file'[p], k) \/ \E d \in Calls : Sec(seen'[d][p], k)
    BY <2>1 DEF Belongs
  <2>2. ASSUME NEW d \in Calls, call'[d].provider = p, HasSecret(d, k)' PROVE Belongs(k, p)
    <3>1. CASE d # c
      BY <1>1, <2>2, <3>1 DEF Belongs, HasSecret
    <3>2. CASE d = c
      <4>1. k # secrets + 1
        BY <2>2, <3>2
      <4>2. Sec(call'[c].old, k)
        BY <2>2, <3>2, <4>1 DEF HasSecret, Sec
      <4> QED
        BY <1>2, <2>2, <3>2, <4>2 DEF Belongs, HasSecret
    <3> QED
      BY <3>1, <3>2
  <2> QED
    BY <2>1, <2>2 DEF Belongs
<1>5. \A k \in Secrets : Circulates(k)' => Circulates(k)
  <2> SUFFICES ASSUME NEW k \in Secrets, Circulates(k)' PROVE Circulates(k)
    OBVIOUS
  <2>1. CASE \E p \in Providers : Sec(file'[p], k) \/ \E d \in Calls : Sec(seen'[d][p], k)
    BY <2>1 DEF Circulates
  <2>2. ASSUME NEW d \in Calls, UnderWay(d)', Sec(call'[d].old, k) \/ (Sec(call'[d].cred, k) /\ ~Pending(d)')
        PROVE  Circulates(k)
    <3>1. CASE d # c
      BY <1>1, <2>2, <3>1 DEF Circulates
    <3>2. CASE d = c
      BY <1>2, <2>2, <3>2 DEF Circulates
    <3> QED
      BY <3>1, <3>2
  <2>3. ASSUME NEW x \in Processes, k \in spent'[x] PROVE Circulates(k)
    BY <2>3 DEF Circulates
  <2> QED
    BY <2>1, <2>2, <2>3 DEF Circulates
<1>6. \A d \in Calls : Pending(d)' =>
        \/ Pending(d) /\ call'[d].cred = call[d].cred
        \/ d = c /\ secrets' = secrets + 1 /\ call'[d].cred.secret = secrets + 1
  BY <1>1
<1>7. secrets' \in {secrets, secrets + 1} /\ \A x \in Processes : \A k \in spent'[x] : k \in spent[x]
  OBVIOUS
<1> QED
  BY <1>3, <1>4, <1>5, <1>6, <1>7, SecretsMove
(* A step of a call that leaves the files and what has been refreshed alone. *)
LEMMA OthersKept ==
    ASSUME CredentialAssumption, CredentialInv, NEW c \in Calls, Only(c),
           UNCHANGED <<file, written>>,
           ThreadsFit(c)',
           thread'[c] = "read" => thread[c] = "read" /\ seen'[c] = seen[c],
           fileHolder' = fileHolder \/ (fileHolder = c /\ thread'[c] # "read"),
           \A x \in Processes : \A p \in Providers :
                refreshLock'[x][p] = refreshLock[x][p] \/ refreshLock[x][p] \in {c, Nil},
           Refreshing(c)' => refreshLock'[ProcessOf[c]][call'[c].provider] = c,
           call'[c].at = "set" /\ call'[c].method = "resolve" => thread'[c] # "done",
           call'[c].at = "reget" /\ thread'[c] \in {"read", "done"} =>
                call[c].at = "reget" /\ thread[c] = thread'[c] /\ seen'[c] = seen[c] /\ call'[c] = call[c],
           call'[c].at = "refreshing" =>
                /\ call[c].at = "reget" /\ thread[c] = "done" /\ Found(c) # Nil /\ call'[c].cred = Found(c)
    PROVE  (\A d \in Calls : ThreadsFit(d)') /\ FileInv' /\ RefreshInv' /\ (spent' = spent => SpentInv')
<1>1. \A d \in Calls \ {c} : call'[d] = call[d] /\ thread'[d] = thread[d] /\ seen'[d] = seen[d]
  BY DEF Only
<1>2. \A d \in Calls : ThreadsFit(d)'
  BY <1>1 DEF CredentialInv, ThreadsFit, UnderWay, Purpose, CallAt
<1>3. FileInv'
  BY <1>1 DEF CredentialInv, FileInv
<1>4. RefreshInv'
  <2> SUFFICES ASSUME NEW d \in Calls, Refreshing(d)' PROVE refreshLock'[ProcessOf[d]][call'[d].provider] = d
    BY DEF RefreshInv
  <2>1. CASE d # c
    <3>1. Refreshing(d) /\ call'[d] = call[d]
      BY <1>1, <2>1 DEF Refreshing
    <3>2. refreshLock[ProcessOf[d]][call[d].provider] = d
      BY <3>1 DEF CredentialInv, RefreshInv
    <3>3. UnderWay(d)
      BY <3>1 DEF Refreshing, UnderWay, CallPlaces
    <3>4. ProcessOf[d] \in Processes /\ call[d].provider \in Providers
      BY <3>3, SecretsTyped DEF CredentialInv, CallsUnderWay
    <3>5. d # Nil
      BY DEF CredentialAssumption
    <3> QED
      BY <2>1, <3>1, <3>2, <3>4, <3>5
  <2> QED
    BY <2>1
<1>5. ASSUME spent' = spent PROVE SpentInv'
  <2>1. \A x \in Processes : \A k \in spent'[x] : \A p \in Providers : ~Sec(file'[p], k)
    BY <1>5 DEF CredentialInv, SpentInv
  <2>2. \A d \in Calls : call'[d].at = "set" /\ call'[d].method = "resolve" /\ thread'[d] = "done" =>
            \A p \in Providers : ~Sec(file'[p], call'[d].old.secret)
    BY <1>1, <1>5 DEF CredentialInv, SpentInv
  <2>3. \A d \in Calls : call'[d].at = "reget" /\ thread'[d] \in {"read", "done"} =>
            \A k \in spent'[ProcessOf[d]] : ~Sec(seen'[d][call'[d].provider], k)
    BY <1>1, <1>5 DEF CredentialInv, SpentInv, Found
  <2>4. \A d \in Calls : call'[d].at = "refreshing" => call'[d].cred.secret \notin spent'[ProcessOf[d]]
    BY <1>1, <1>5 DEF CredentialInv, SpentInv, Found, Sec
  <2> QED
    BY <2>1, <2>2, <2>3, <2>4 DEF SpentInv, Found
<1> QED
  BY <1>2, <1>3, <1>4, <1>5

(* Both locks, or the one of the storage, given up. *)
LEMMA LocksLeft ==
    ASSUME CredentialAssumption, CredentialShape, NEW c \in Calls
    PROVE  /\ LeaveStorage(c) => storageLock' \in [Processes -> Calls \cup {Nil}]
           /\ LeaveBoth(c) =>
                /\ storageLock' \in [Processes -> Calls \cup {Nil}]
                /\ refreshLock' \in [Processes -> [Providers -> Calls \cup {Nil}]]
                /\ \A x \in Processes : \A p \in Providers :
                        refreshLock'[x][p] = refreshLock[x][p] \/ refreshLock[x][p] = c
<1>1. LeaveStorage(c) => storageLock' \in [Processes -> Calls \cup {Nil}]
  BY DEF LeaveStorage, CredentialShape
<1>2. ASSUME LeaveBoth(c)
      PROVE  /\ refreshLock' \in [Processes -> [Providers -> Calls \cup {Nil}]]
             /\ \A x \in Processes : \A p \in Providers :
                    refreshLock'[x][p] = refreshLock[x][p] \/ refreshLock[x][p] = c
  <2> DEFINE x0 == ProcessOf[c]
             freed == [p \in Providers |-> IF refreshLock[x0][p] = c THEN Nil ELSE refreshLock[x0][p]]
  <2>1. x0 \in Processes
    BY DEF Processes
  <2>2. refreshLock' = [refreshLock EXCEPT ![x0] = freed]
    BY <1>2 DEF LeaveBoth
  <2>3. freed \in [Providers -> Calls \cup {Nil}]
    BY <2>1 DEF CredentialShape
  <2>4. \A p \in Providers : freed[p] = refreshLock[x0][p] \/ refreshLock[x0][p] = c
    OBVIOUS
  <2> HIDE DEF freed, x0
  <2> QED
    BY <2>1, <2>2, <2>3, <2>4 DEF CredentialShape
<1> QED
  BY <1>1, <1>2 DEF LeaveBoth

(* A step that brings no secret and stores none. *)
LEMMA CallKeeps ==
    ASSUME CredentialAssumption, CredentialInv, NEW c \in Calls, Only(c), CredentialShape',
           UNCHANGED <<file, written, spent, secrets>>,
           ThreadsFit(c)',
           seen'[c] \in {seen[c], Nothing},
           thread'[c] = "read" => thread[c] = "read" /\ seen'[c] = seen[c],
           fileHolder' = fileHolder \/ (fileHolder = c /\ thread'[c] # "read"),
           \A x \in Processes : \A p \in Providers :
                refreshLock'[x][p] = refreshLock[x][p] \/ refreshLock[x][p] \in {c, Nil},
           Refreshing(c)' => refreshLock'[ProcessOf[c]][call'[c].provider] = c,
           call'[c].at = "set" /\ call'[c].method = "resolve" => thread'[c] # "done",
           call'[c].at = "reget" /\ thread'[c] \in {"read", "done"} =>
                call[c].at = "reget" /\ thread[c] = thread'[c] /\ seen'[c] = seen[c] /\ call'[c] = call[c],
           call'[c].at = "refreshing" =>
                /\ call[c].at = "reget" /\ thread[c] = "done" /\ Found(c) # Nil /\ call'[c].cred = Found(c),
           UnderWay(c)' =>
                \/ call'[c].cred = Nil /\ call'[c].old = Nil
                \/ /\ UnderWay(c) /\ call'[c].provider = call[c].provider /\ call'[c].old = call[c].old
                   /\ call'[c].cred = call[c].cred \/ (call'[c].cred = Found(c) /\ ~Pending(c)'),
           Pending(c)' => Pending(c) /\ call'[c].cred = call[c].cred
    PROVE  CredentialInv'
<1>1. (\A d \in Calls : ThreadsFit(d)') /\ FileInv' /\ RefreshInv' /\ SpentInv'
  BY OthersKept
<1>2. CredentialShape /\ SecretInv /\ (\A d \in Calls : ThreadsFit(d))
  BY DEF CredentialInv
<1>3. SecretInv'
  <2>1. seen'[c] \in {seen[c], Nothing, file}
    OBVIOUS
  <2>2. \A x \in Processes : \A k \in spent'[x] : k \in spent[x]
    OBVIOUS
  <2> QED
    BY <1>1, <1>2, <2>1, <2>2, SecretsKept
<1> QED
  BY <1>1, <1>3 DEF CredentialInv
(* A call that is over. *)
LEMMA OverKeeps ==
    ASSUME CredentialAssumption, CredentialInv, NEW c \in Calls, End(c),
           UNCHANGED <<file, expired, secrets, written, spent, fileHolder>>,
           thread' = [thread EXCEPT ![c] = "none"] \/ (thread' = thread /\ thread[c] = "none"),
           seen' = seen \/ seen' = [seen EXCEPT ![c] = Nothing],
           mishaps' \in Nat,
           LeaveBoth(c) \/ UNCHANGED <<storageLock, refreshLock>>
              \/ (LeaveStorage(c) /\ UNCHANGED refreshLock)
    PROVE  CredentialInv'
<1>1. /\ call' \in [Calls -> {[at |-> "ready"], [at |-> "done"]} \cup CallsUnderWay]
      /\ call'[c].at = "done" /\ \A d \in Calls \ {c} : call'[d] = call[d]
  BY DEF End, CredentialInv, CredentialShape
<1>2. /\ thread' \in [Calls -> {"none", "queued", "read", "done", "raised"}] /\ thread'[c] = "none"
      /\ \A d \in Calls \ {c} : thread'[d] = thread[d]
  BY DEF CredentialInv, CredentialShape
<1>3. Nothing \in AuthFiles
  BY DEF Nothing, AuthFiles
<1>4. seen' \in [Calls -> AuthFiles] /\ seen'[c] \in {seen[c], Nothing} /\ \A d \in Calls \ {c} : seen'[d] = seen[d]
  BY <1>3 DEF CredentialInv, CredentialShape
<1>5. /\ storageLock' \in [Processes -> Calls \cup {Nil}]
      /\ refreshLock' \in [Processes -> [Providers -> Calls \cup {Nil}]]
      /\ \A x \in Processes : \A p \in Providers :
            refreshLock'[x][p] = refreshLock[x][p] \/ refreshLock[x][p] = c
  BY LocksLeft DEF CredentialInv, CredentialShape
<1>6. CredentialShape'
  BY <1>1, <1>2, <1>4, <1>5 DEF CredentialInv, CredentialShape
<1>7. Only(c)
  BY <1>1, <1>2, <1>4 DEF Only
<1>8. ~UnderWay(c)' /\ ~Pending(c)' /\ ~Refreshing(c)' /\ ThreadsFit(c)'
  BY <1>1, <1>2 DEF UnderWay, Pending, Refreshing, ThreadsFit, CallPlaces
<1> QED
  BY <1>1, <1>2, <1>4, <1>5, <1>6, <1>7, <1>8, CallKeeps

LEMMA StartKeeps ==
    ASSUME CredentialAssumption, CredentialInv, NEW c \in Calls, NEW method \in {"resolve", "set", "remove"},
           NEW p \in Providers, StartCall(c, method, p)
    PROVE  CredentialInv'
<1> USE DEF CredentialInv
<1>0. /\ call[c].at = "ready" /\ thread[c] = "none" /\ ~UnderWay(c) /\ ~Pending(c)
      /\ UNCHANGED <<file, expired, thread, seen, locks, mishaps, written, spent>>
  BY DEF StartCall, CallAt, ThreadsFit, UnderWay, Pending, CallPlaces
<1>1. ASSUME NEW at \in {"get", "remove"}, method \in {"resolve", "remove"}, UNCHANGED secrets,
             at = "remove" => method = "remove",
             call' = [call EXCEPT ![c] = [at |-> at, method |-> method, provider |-> p, cred |-> Nil, old |-> Nil]]
      PROVE  CredentialInv'
  <2>1. [at |-> at, method |-> method, provider |-> p, cred |-> Nil, old |-> Nil] \in CallsUnderWay
    BY <1>1 DEF CallsUnderWay, CallPlaces, Methods
  <2>2. /\ CredentialShape' /\ Only(c)
        /\ call'[c] = [at |-> at, method |-> method, provider |-> p, cred |-> Nil, old |-> Nil]
    BY <1>0, <1>1, <2>1 DEF CredentialShape, Only, locks
  <2>3. call'[c].at = at /\ call'[c].cred = Nil /\ call'[c].old = Nil /\ thread'[c] = "none"
    BY <1>0, <2>2
  <2>4. ThreadsFit(c)' /\ ~Pending(c)' /\ ~Refreshing(c)'
    BY <1>1, <2>3 DEF ThreadsFit, Pending, Purpose, CallAt, Refreshing
  <2> QED
    BY <1>0, <1>1, <2>2, <2>3, <2>4, CallKeeps DEF locks
<1>2. ASSUME method = "set", secrets < MaxSecrets, secrets' = secrets + 1, NEW r \in BOOLEAN,
             call' = [call EXCEPT ![c] =
                [at |-> "set", method |-> method, provider |-> p,
                 cred |-> [secret |-> secrets + 1, renewable |-> r], old |-> Nil]]
      PROVE  CredentialInv'
  <2>0. secrets' \in Secrets /\ [secret |-> secrets + 1, renewable |-> r] \in Credentials
    BY <1>2, CredentialAssumption DEF CredentialShape, Secrets, Credentials, CredentialAssumption
  <2>1. [at |-> "set", method |-> method, provider |-> p,
         cred |-> [secret |-> secrets + 1, renewable |-> r], old |-> Nil] \in CallsUnderWay
    BY <1>2, <2>0 DEF CallsUnderWay, CallPlaces, Methods
  <2>2. CredentialShape' /\ Only(c) /\ call'[c] \in CallsUnderWay
    BY <1>0, <1>2, <2>0, <2>1 DEF CredentialShape, Only, locks
  <2>3. /\ call'[c].at = "set" /\ call'[c].method = "set" /\ call'[c].old = Nil
        /\ call'[c].cred = [secret |-> secrets + 1, renewable |-> r] /\ thread'[c] = "none"
    BY <1>0, <1>2 DEF CredentialShape
  <2>4. call'[c].cred # Nil /\ call'[c].cred.secret = secrets + 1
    BY <2>0, <2>3 DEF CredentialAssumption, Credentials, Secrets
  <2>5. ThreadsFit(c)' /\ Pending(c)' /\ ~Refreshing(c)'
    BY <2>3, <2>4 DEF ThreadsFit, Pending, Purpose, CallAt, Refreshing, UnderWay, CallPlaces
  <2>6. (\A d \in Calls : ThreadsFit(d)') /\ FileInv' /\ RefreshInv' /\ SpentInv'
    BY <1>0, <2>2, <2>3, <2>5, OthersKept DEF locks
  <2>7. SecretInv'
    BY <1>0, <1>2, <2>2, <2>3, <2>4, <2>5, <2>6, SecretComes
  <2> QED
    BY <2>2, <2>6, <2>7
<1> QED
  BY <1>1, <1>2 DEF StartCall
LEMMA TakesKeep ==
    ASSUME CredentialAssumption, CredentialInv, NEW c \in Calls, TakeStorage(c) \/ TakeRefresh(c)
    PROVE  CredentialInv'
<1> USE DEF CredentialInv
<1>1. CASE TakeStorage(c)
  <2>1. /\ Accessing(c) /\ thread[c] = "none" /\ UnderWay(c) /\ ProcessOf[c] \in Processes
        /\ UNCHANGED <<file, expired, call, seen, fileHolder, refreshLock, secrets, mishaps, written, spent>>
        /\ storageLock' = [storageLock EXCEPT ![ProcessOf[c]] = c]
        /\ thread' = [thread EXCEPT ![c] = "queued"]
    BY <1>1 DEF TakeStorage, Accessing, UnderWay, CallPlaces, Processes
  <2>2. CredentialShape' /\ Only(c) /\ thread'[c] = "queued"
    BY <2>1 DEF CredentialShape, Only
  <2>3. ThreadsFit(c)' /\ (Pending(c)' => Pending(c)) /\ (Refreshing(c)' => Refreshing(c))
    BY <2>1, <2>2 DEF ThreadsFit, Pending, Purpose, CallAt, Refreshing, UnderWay, Accessing
  <2>4. Refreshing(c) => refreshLock[ProcessOf[c]][call[c].provider] = c
    BY DEF RefreshInv
  <2>5. call[c].at # "refreshing"
    BY <2>1 DEF Accessing
  <2> QED
    BY <2>1, <2>2, <2>3, <2>4, <2>5, CallKeeps
<1>2. CASE TakeRefresh(c)
  <2>1. /\ call[c].at = "wait" /\ refreshLock[ProcessOf[c]][call[c].provider] = Nil
        /\ refreshLock' = [refreshLock EXCEPT ![ProcessOf[c]][call[c].provider] = c]
        /\ call' = [call EXCEPT ![c].at = "reget"]
        /\ UNCHANGED <<file, expired, thread, seen, fileHolder, storageLock, secrets, mishaps, written, spent>>
        /\ thread[c] = "none" /\ UnderWay(c)
    BY <1>2 DEF TakeRefresh, CallAt, Advance, ThreadsFit, UnderWay, CallPlaces
  <2>2. call[c] \in CallsUnderWay /\ ProcessOf[c] \in Processes
    BY <2>1, SecretsTyped
  <2>3. call[c].provider \in Providers
    BY <2>2 DEF CallsUnderWay
  <2>4. call'[c] = [call[c] EXCEPT !.at = "reget"] /\ \A d \in Calls \ {c} : call'[d] = call[d]
    BY <2>1 DEF CredentialShape
  <2>5. /\ call'[c] \in CallsUnderWay /\ call'[c].at = "reget" /\ call'[c].provider = call[c].provider
        /\ call'[c].cred = call[c].cred /\ call'[c].old = call[c].old
    BY <2>2, <2>4 DEF CallsUnderWay, CallPlaces
  <2>6. call' \in [Calls -> {[at |-> "ready"], [at |-> "done"]} \cup CallsUnderWay]
    BY <2>1, <2>4, <2>5 DEF CredentialShape
  <2>7. /\ refreshLock' \in [Processes -> [Providers -> Calls \cup {Nil}]]
        /\ refreshLock'[ProcessOf[c]][call[c].provider] = c
        /\ \A x \in Processes : \A p \in Providers :
                refreshLock'[x][p] = refreshLock[x][p] \/ refreshLock[x][p] = Nil
    BY <2>1, <2>2, <2>3 DEF CredentialShape
  <2>8. CredentialShape' /\ Only(c)
    BY <2>1, <2>4, <2>6, <2>7 DEF CredentialShape, Only
  <2>9. ThreadsFit(c)' /\ ~Pending(c)'
    BY <2>1, <2>5 DEF ThreadsFit, Pending, Purpose, CallAt
  <2> QED
    BY <2>1, <2>5, <2>7, <2>8, <2>9, CallKeeps
<1> QED
  BY <1>1, <1>2

(* What a call has found about its provider. *)
LEMMA LooksKeep ==
    ASSUME CredentialAssumption, CredentialInv, NEW c \in Calls, Looked(c) \/ LookedAgain(c)
    PROVE  CredentialInv'
<1> USE DEF CredentialInv
<1>0. /\ thread[c] = "done" /\ call[c].at \in {"get", "reget"}
      /\ thread' = [thread EXCEPT ![c] = "none"] /\ seen' = [seen EXCEPT ![c] = Nothing]
      /\ UNCHANGED <<file, expired, fileHolder, secrets, mishaps, written, spent>>
  BY DEF Looked, LookedAgain, CallAt
<1>1. UnderWay(c) /\ call[c] \in CallsUnderWay /\ ProcessOf[c] \in Processes
  BY <1>0, SecretsTyped DEF UnderWay, CallPlaces
<1>2. Found(c) \in Credentials \cup {Nil}
  BY <1>1 DEF Found, CallsUnderWay, CredentialShape, AuthFiles
<1>3. ASSUME NEW place \in {"wait", "refreshing"}, call' = [call EXCEPT ![c].at = place, ![c].cred = Found(c)],
             Found(c) # Nil, place = "refreshing" <=> call[c].at = "reget",
             LeaveStorage(c), UNCHANGED refreshLock
      PROVE  CredentialInv'
  <2>1. /\ call'[c] = [call[c] EXCEPT !.at = place, !.cred = Found(c)]
        /\ \A d \in Calls \ {c} : call'[d] = call[d]
    BY <1>1, <1>3 DEF CredentialShape, CallsUnderWay
  <2>2. /\ call'[c] \in CallsUnderWay /\ call'[c].at = place /\ call'[c].provider = call[c].provider
        /\ call'[c].cred = Found(c) /\ call'[c].old = call[c].old
    BY <1>1, <1>2, <2>1 DEF CallsUnderWay, CallPlaces
  <2>3. call' \in [Calls -> {[at |-> "ready"], [at |-> "done"]} \cup CallsUnderWay]
    BY <1>3, <2>1, <2>2 DEF CredentialShape
  <2>4. storageLock' \in [Processes -> Calls \cup {Nil}]
    BY <1>3, LocksLeft
  <2>5. Nothing \in AuthFiles
    BY DEF Nothing, AuthFiles
  <2>6. CredentialShape' /\ Only(c) /\ thread'[c] = "none" /\ seen'[c] = Nothing
    BY <1>0, <1>3, <2>1, <2>3, <2>4, <2>5 DEF CredentialShape, Only
  <2>7. ThreadsFit(c)' /\ ~Pending(c)'
    BY <1>3, <2>2, <2>6 DEF ThreadsFit, Pending, Purpose, CallAt
  <2>8. Refreshing(c)' => Refreshing(c) /\ call[c].at = "reget"
    BY <1>3, <2>2 DEF Refreshing
  <2>9. Refreshing(c) => refreshLock[ProcessOf[c]][call[c].provider] = c
    BY DEF RefreshInv
  <2> QED
    BY <1>0, <1>1, <1>3, <2>2, <2>6, <2>7, <2>8, <2>9, CallKeeps
<1>4. CASE End(c)
  <2>1. LeaveBoth(c) \/ (LeaveStorage(c) /\ UNCHANGED refreshLock)
    BY DEF Looked, LookedAgain, LeaveBoth
  <2>2. mishaps' \in Nat
    BY <1>0 DEF CredentialShape
  <2> QED
    BY <1>0, <1>4, <2>1, <2>2, OverKeeps
<1>5. CASE Looked(c)
  <2>1. LeaveStorage(c) /\ UNCHANGED refreshLock /\ call[c].at = "get"
    BY <1>5 DEF Looked, CallAt
  <2>2. CASE NeedsRefresh(Found(c))
    BY <1>3, <1>5, <2>1, <2>2 DEF Looked, NeedsRefresh
  <2>3. CASE ~NeedsRefresh(Found(c))
    BY <1>4, <1>5, <2>3 DEF Looked
  <2> QED
    BY <2>2, <2>3
<1>6. CASE LookedAgain(c)
  <2>1. CASE Found(c) = Nil \/ ~Expired(Found(c))
    BY <1>4, <1>6, <2>1 DEF LookedAgain
  <2>2. CASE ~(Found(c) = Nil \/ ~Expired(Found(c)))
    <3>1. /\ LeaveStorage(c) /\ UNCHANGED refreshLock /\ call[c].at = "reget" /\ Found(c) # Nil
          /\ call' = [call EXCEPT ![c].cred = Found(c), ![c].at = "refreshing"]
      BY <1>6, <2>2 DEF LookedAgain, CallAt
    <3>2. call' = [call EXCEPT ![c].at = "refreshing", ![c].cred = Found(c)]
      BY <1>1, <3>1 DEF CredentialShape, CallsUnderWay
    <3> QED
      BY <1>3, <3>1, <3>2
  <2> QED
    BY <2>1, <2>2
<1> QED
  BY <1>5, <1>6

LEMMA RefreshedKeeps ==
    ASSUME CredentialAssumption, CredentialInv, NEW c \in Calls, Refreshed(c)
    PROVE  CredentialInv'
<1> USE DEF CredentialInv
<1> DEFINE fresh == [secret |-> secrets + 1, renewable |-> TRUE]
<1>0. /\ call[c].at = "refreshing" /\ secrets < MaxSecrets /\ secrets' = secrets + 1
      /\ call' = [call EXCEPT ![c].at = "set", ![c].old = call[c].cred, ![c].cred = fresh]
      /\ UNCHANGED <<file, expired, thread, seen, locks, mishaps, written, spent>>
  BY DEF Refreshed, CallAt
<1>1. /\ UnderWay(c) /\ call[c] \in CallsUnderWay /\ ProcessOf[c] \in Processes
      /\ thread[c] = "none" /\ call[c].cred # Nil
  BY <1>0, SecretsTyped DEF UnderWay, CallPlaces, ThreadsFit
<1>2. secrets' \in Secrets /\ fresh \in Credentials /\ fresh.secret = secrets + 1
  BY <1>0, CredentialAssumption DEF CredentialShape, Secrets, Credentials, CredentialAssumption
<1>3. fresh # Nil
  <2>1. secrets + 1 \in Nat
    BY DEF CredentialShape, Secrets
  <2>2. [secret |-> secrets + 1, renewable |-> TRUE] \in [secret : Nat, renewable : BOOLEAN]
    BY <2>1
  <2> QED
    BY <2>2, CredentialAssumption DEF fresh, CredentialAssumption
<1> HIDE DEF fresh
<1>4. /\ call'[c] = [call[c] EXCEPT !.at = "set", !.old = call[c].cred, !.cred = fresh]
      /\ \A d \in Calls \ {c} : call'[d] = call[d]
  BY <1>0, <1>1 DEF CredentialShape, CallsUnderWay
<1>5. /\ call'[c] \in CallsUnderWay /\ call'[c].at = "set" /\ call'[c].provider = call[c].provider
      /\ call'[c].cred = fresh /\ call'[c].old = call[c].cred /\ call'[c].method = call[c].method
  BY <1>1, <1>2, <1>4 DEF CallsUnderWay, CallPlaces
<1>6. call' \in [Calls -> {[at |-> "ready"], [at |-> "done"]} \cup CallsUnderWay]
  BY <1>0, <1>4, <1>5 DEF CredentialShape
<1>7. CredentialShape' /\ Only(c)
  BY <1>0, <1>2, <1>4, <1>6 DEF CredentialShape, Only, locks
<1>8. ThreadsFit(c)' /\ Pending(c)' /\ ~Pending(c)
  BY <1>0, <1>1, <1>3, <1>5 DEF ThreadsFit, Pending, Purpose, CallAt, UnderWay, CallPlaces
<1>9. refreshLock[ProcessOf[c]][call[c].provider] = c
  BY <1>0 DEF RefreshInv, Refreshing
<1>10. (\A d \in Calls : ThreadsFit(d)') /\ FileInv' /\ RefreshInv' /\ SpentInv'
  BY <1>0, <1>1, <1>5, <1>7, <1>8, <1>9, OthersKept DEF locks
<1>11. SecretInv'
  BY <1>0, <1>1, <1>2, <1>5, <1>7, <1>8, <1>10, SecretComes
<1> QED
  BY <1>7, <1>10, <1>11

(* What was refreshed is stored: the secret it was refreshed with is not in the file, and no
   other call of the process is about to refresh the provider. *)
LEMMA StoredKeeps ==
    ASSUME CredentialAssumption, CredentialInv, NEW c \in Calls, Stored(c)
    PROVE  CredentialInv'
<1> USE DEF CredentialInv
<1>0. /\ call[c].at \in {"set", "remove"} /\ thread[c] = "done" /\ End(c) /\ LeaveBoth(c)
      /\ thread' = [thread EXCEPT ![c] = "none"]
      /\ UNCHANGED <<file, expired, seen, fileHolder, secrets, mishaps, written>>
  BY DEF Stored
<1>1. CASE call[c].method # "resolve"
  BY <1>0, <1>1, OverKeeps DEF Stored, CredentialShape
<1>2. CASE call[c].method = "resolve"
  <2> DEFINE k == call[c].old.secret
             x == ProcessOf[c]
             p == call[c].provider
  <2>1. call[c].at = "set" /\ call[c].old # Nil
    BY <1>0, <1>2 DEF ThreadsFit
  <2>2. UnderWay(c) /\ call[c] \in CallsUnderWay /\ x \in Processes
    BY <2>1, SecretsTyped DEF UnderWay, CallPlaces
  <2>3. p \in Providers /\ call[c].old \in Credentials
    BY <2>1, <2>2 DEF CallsUnderWay
  <2>4. k \in Secrets /\ Sec(call[c].old, k)
    BY <2>1, <2>3 DEF Credentials, Sec
  <2>5. Belongs(k, p)
    BY <2>2, <2>4 DEF Belongs, HasSecret
  <2>6. refreshLock[x][p] = c
    BY <1>2, <2>1 DEF RefreshInv, Refreshing
  <2>7. spent' = [spent EXCEPT ![x] = @ \cup {k}]
    BY <1>2 DEF Stored
  <2> HIDE DEF k, x, p
  <2>8. /\ spent' \in [Processes -> SUBSET Secrets]
        /\ \A y \in Processes : \A j \in spent'[y] : j \in spent[y] \/ (y = x /\ j = k)
    BY <2>2, <2>4, <2>7 DEF CredentialShape
  <2>9. /\ call' \in [Calls -> {[at |-> "ready"], [at |-> "done"]} \cup CallsUnderWay]
        /\ call'[c].at = "done" /\ \A d \in Calls \ {c} : call'[d] = call[d]
    BY <1>0 DEF End, CredentialShape
  <2>10. /\ storageLock' \in [Processes -> Calls \cup {Nil}]
         /\ refreshLock' \in [Processes -> [Providers -> Calls \cup {Nil}]]
         /\ \A y \in Processes : \A q \in Providers :
                refreshLock'[y][q] = refreshLock[y][q] \/ refreshLock[y][q] = c
    BY <1>0, LocksLeft
  <2>11. CredentialShape' /\ Only(c) /\ thread'[c] = "none"
    BY <1>0, <2>8, <2>9, <2>10 DEF CredentialShape, Only
  <2>12. ~UnderWay(c)' /\ ~Pending(c)' /\ ~Refreshing(c)' /\ ThreadsFit(c)'
    BY <2>9, <2>11 DEF UnderWay, Pending, Refreshing, ThreadsFit, CallPlaces
  <2>13. (\A d \in Calls : ThreadsFit(d)') /\ FileInv' /\ RefreshInv'
    BY <1>0, <2>9, <2>10, <2>11, <2>12, OthersKept
  <2>14. SecretInv'
    BY <1>0, <2>2, <2>4, <2>8, <2>11, <2>12, <2>13, SecretsKept
  <2>15. SpentInv'
    <3>1. \A y \in Processes : \A j \in spent'[y] : \A q \in Providers : ~Sec(file'[q], j)
      BY <1>0, <1>2, <2>1, <2>8 DEF SpentInv, k
    <3>2. \A d \in Calls : call'[d].at = "set" /\ call'[d].method = "resolve" /\ thread'[d] = "done" =>
            \A q \in Providers : ~Sec(file'[q], call'[d].old.secret)
      BY <1>0, <2>9, <2>11 DEF SpentInv, Only
    <3>3. ASSUME NEW d \in Calls, Refreshing(d), d # c, ProcessOf[d] = x PROVE call[d].provider # p
      BY <2>6, <3>3 DEF RefreshInv
    <3>4. ASSUME NEW d \in Calls, Refreshing(d), call[d].at # "set"
          PROVE  UnderWay(d) /\ call[d].provider \in Providers
      <4>1. UnderWay(d)
        BY <3>4 DEF Refreshing, UnderWay, CallPlaces
      <4> QED
        BY <4>1, SecretsTyped DEF CallsUnderWay
    <3>5. ASSUME NEW d \in Calls, call'[d].at = "reget", thread'[d] \in {"read", "done"},
                 NEW j \in spent'[ProcessOf[d]], Sec(seen'[d][call'[d].provider], j)
          PROVE  FALSE
      <4>1. d # c /\ call'[d] = call[d] /\ thread'[d] = thread[d] /\ seen'[d] = seen[d]
        BY <2>9, <2>11, <3>5 DEF Only
      <4>2. Refreshing(d) /\ ProcessOf[d] \in Processes /\ call[d].provider \in Providers
        BY <3>4, <3>5, <4>1, SecretsTyped DEF Refreshing
      <4>3. CASE j \in spent[ProcessOf[d]]
        BY <3>5, <4>1, <4>3 DEF SpentInv, Found
      <4>4. CASE ProcessOf[d] = x /\ j = k
        <5>1. Belongs(k, call[d].provider)
          BY <3>5, <4>1, <4>4 DEF Belongs
        <5> QED
          BY <2>3, <2>4, <2>5, <3>3, <4>1, <4>2, <4>4, <5>1 DEF SecretInv
      <4> QED
        BY <2>8, <3>5, <4>2, <4>3, <4>4
    <3>6. ASSUME NEW d \in Calls, call'[d].at = "refreshing", call'[d].cred.secret \in spent'[ProcessOf[d]]
          PROVE  FALSE
      <4>1. d # c /\ call'[d] = call[d]
        BY <2>9, <3>6
      <4>2. /\ Refreshing(d) /\ ProcessOf[d] \in Processes /\ call[d].provider \in Providers /\ UnderWay(d)
            /\ call[d].cred # Nil
        BY <3>4, <3>6, <4>1, SecretsTyped DEF Refreshing, ThreadsFit
      <4>3. CASE call[d].cred.secret \in spent[ProcessOf[d]]
        BY <3>6, <4>1, <4>3 DEF SpentInv
      <4>4. CASE ProcessOf[d] = x /\ call[d].cred.secret = k
        <5>1. Belongs(k, call[d].provider)
          BY <4>2, <4>4 DEF Belongs, HasSecret, Sec
        <5> QED
          BY <2>3, <2>4, <2>5, <3>3, <4>1, <4>2, <4>4, <5>1 DEF SecretInv
      <4> QED
        BY <2>8, <3>6, <4>1, <4>2, <4>3, <4>4
    <3> QED
      BY <3>1, <3>2, <3>5, <3>6 DEF SpentInv, Found
  <2> QED
    BY <2>11, <2>13, <2>14, <2>15
<1> QED
  BY <1>1, <1>2
LEMMA EndsKeep ==
    ASSUME CredentialAssumption, CredentialInv, NEW c \in Calls,
           Elsewhere(c) \/ RefreshFails(c) \/ Raised(c)
    PROVE  CredentialInv'
<1> USE DEF CredentialInv
<1>1. CASE Elsewhere(c)
  <2>1. thread[c] = "none" /\ mishaps' \in Nat
    BY <1>1 DEF Elsewhere, CallAt, ThreadsFit, locks, CredentialShape
  <2> QED
    BY <1>1, <2>1, OverKeeps DEF Elsewhere, locks
<1>2. CASE RefreshFails(c)
  <2>1. thread[c] = "none" /\ mishaps' \in Nat
    BY <1>2 DEF RefreshFails, CallAt, ThreadsFit, CredentialShape
  <2> QED
    BY <1>2, <2>1, OverKeeps DEF RefreshFails
<1>3. CASE Raised(c)
  <2>1. mishaps' \in Nat
    BY <1>3 DEF Raised, CredentialShape
  <2> QED
    BY <1>3, <2>1, OverKeeps DEF Raised
<1> QED
  BY <1>1, <1>2, <1>3

LEMMA CancelKeeps ==
    ASSUME CredentialAssumption, CredentialInv, NEW c \in Calls, CancelCall(c)
    PROVE  CredentialInv'
<1> USE DEF CredentialInv
<1>0. /\ call[c].at \notin {"ready", "done", "left"} /\ LeaveBoth(c)
      /\ UNCHANGED <<file, expired, seen, fileHolder, secrets, written, spent>> /\ mishaps' \in Nat
  BY DEF CancelCall, CredentialShape
<1>1. CASE thread[c] \in {"queued", "read"}
  <2>1. call' = [call EXCEPT ![c].at = "left", ![c].method = call[c].at] /\ UNCHANGED thread
    BY <1>1 DEF CancelCall
  <2>2. UnderWay(c) /\ call[c] \in CallsUnderWay /\ ProcessOf[c] \in Processes
    <3>1. UnderWay(c)
      BY <1>0 DEF CredentialShape, CallsUnderWay, UnderWay
    <3> QED
      BY <3>1, SecretsTyped
  <2>3. call[c].at \in {"get", "reget", "set", "remove"}
    BY <1>0, <1>1, <2>2 DEF ThreadsFit, UnderWay, CallPlaces
  <2>4. /\ call'[c] = [call[c] EXCEPT !.at = "left", !.method = call[c].at]
        /\ \A d \in Calls \ {c} : call'[d] = call[d]
    BY <2>1, <2>2 DEF CredentialShape, CallsUnderWay
  <2>5. /\ call'[c] \in CallsUnderWay /\ call'[c].at = "left" /\ call'[c].method = call[c].at
        /\ call'[c].provider = call[c].provider /\ call'[c].cred = call[c].cred /\ call'[c].old = call[c].old
    BY <2>2, <2>3, <2>4 DEF CallsUnderWay, CallPlaces, Methods
  <2>6. call' \in [Calls -> {[at |-> "ready"], [at |-> "done"]} \cup CallsUnderWay]
    BY <2>1, <2>4, <2>5 DEF CredentialShape
  <2>7. /\ storageLock' \in [Processes -> Calls \cup {Nil}]
        /\ refreshLock' \in [Processes -> [Providers -> Calls \cup {Nil}]]
        /\ \A x \in Processes : \A p \in Providers :
                refreshLock'[x][p] = refreshLock[x][p] \/ refreshLock[x][p] = c
    BY <1>0, LocksLeft
  <2>8. CredentialShape' /\ Only(c)
    BY <1>0, <2>1, <2>4, <2>6, <2>7 DEF CredentialShape, Only
  <2>9. ThreadsFit(c)' /\ (Pending(c)' => Pending(c)) /\ ~Refreshing(c)'
    BY <1>0, <1>1, <2>1, <2>2, <2>3, <2>5 DEF ThreadsFit, Pending, Purpose, CallAt, Refreshing, UnderWay
  <2> QED
    BY <1>0, <2>1, <2>2, <2>5, <2>7, <2>8, <2>9, CallKeeps
<1>2. CASE thread[c] \notin {"queued", "read"}
  BY <1>0, <1>2, OverKeeps DEF CancelCall
<1> QED
  BY <1>1, <1>2

LEMMA ReadKeeps ==
    ASSUME CredentialAssumption, CredentialInv, NEW c \in Calls, ReadFile(c)
    PROVE  CredentialInv'
<1> USE DEF CredentialInv
<1>0. /\ thread[c] = "queued" /\ fileHolder = Nil /\ fileHolder' = c
      /\ seen' = [seen EXCEPT ![c] = file] /\ thread' = [thread EXCEPT ![c] = "read"]
      /\ UNCHANGED <<file, expired, call, storageLock, refreshLock, secrets, mishaps, written, spent>>
  BY DEF ReadFile
<1>1. CredentialShape' /\ Only(c) /\ thread'[c] = "read" /\ seen'[c] = file
  BY <1>0 DEF CredentialShape, Only
<1>2. UnderWay(c) => call[c].provider \in Providers
  BY SecretsTyped DEF CallsUnderWay
<1>3. \A d \in Calls : ThreadsFit(d)'
  BY <1>0, <1>1 DEF Only, ThreadsFit, UnderWay, Purpose, CallAt
<1>4. FileInv'
  BY <1>0, <1>1, CredentialAssumption DEF FileInv, Only, CredentialAssumption
<1>5. RefreshInv'
  BY <1>0 DEF RefreshInv, Refreshing
<1>6. SecretInv'
  <2>1. Pending(c)' => Pending(c)
    BY <1>0 DEF Pending, UnderWay, Purpose, CallAt
  <2>2. UnderWay(c)' => UnderWay(c)
    BY <1>0 DEF UnderWay
  <2> QED
    BY <1>0, <1>1, <1>3, <2>1, <2>2, SecretsKept
<1>7. SpentInv'
  <2>1. \A d \in Calls : call'[d].at = "set" /\ call'[d].method = "resolve" /\ thread'[d] = "done" =>
            \A p \in Providers : ~Sec(file'[p], call'[d].old.secret)
    BY <1>0, <1>1 DEF SpentInv, Only
  <2>2. ASSUME NEW d \in Calls, call'[d].at = "reget", thread'[d] \in {"read", "done"}
        PROVE  \A k \in spent'[ProcessOf[d]] : ~Sec(seen'[d][call'[d].provider], k)
    <3>1. CASE d # c
      BY <1>0, <1>1, <2>2, <3>1 DEF SpentInv, Only, Found
    <3>2. CASE d = c
      <4>1. UnderWay(c) /\ ProcessOf[c] \in Processes
        BY <1>0, <2>2, <3>2 DEF UnderWay, CallPlaces, Processes
      <4> QED
        BY <1>0, <1>1, <1>2, <3>2, <4>1 DEF SpentInv
    <3> QED
      BY <3>1, <3>2
  <2> QED
    BY <1>0, <2>1, <2>2 DEF SpentInv, Found
<1> QED
  BY <1>1, <1>3, <1>4, <1>5, <1>6, <1>7

LEMMA FailKeeps ==
    ASSUME CredentialAssumption, CredentialInv, NEW c \in Calls, Fail(c)
    PROVE  CredentialInv'
<1> USE DEF CredentialInv
<1>0. /\ thread[c] = "read" /\ fileHolder' = Nil /\ thread' = [thread EXCEPT ![c] = "raised"]
      /\ UNCHANGED <<file, expired, call, seen, storageLock, refreshLock, secrets, written, spent>>
      /\ mishaps' \in Nat /\ fileHolder = c
  BY DEF Fail, CredentialShape, FileInv
<1>1. CredentialShape' /\ Only(c) /\ thread'[c] = "raised"
  BY <1>0 DEF CredentialShape, Only
<1>2. /\ ThreadsFit(c)' /\ ~Pending(c)' /\ (Refreshing(c)' => Refreshing(c)) /\ (UnderWay(c)' => UnderWay(c))
      /\ call[c].at # "refreshing"
  BY <1>0, <1>1 DEF ThreadsFit, Pending, Purpose, CallAt, Refreshing, UnderWay
<1>3. \A d \in Calls : ThreadsFit(d)'
  BY <1>1, <1>2 DEF Only, ThreadsFit, UnderWay, Purpose, CallAt
<1>4. FileInv'
  BY <1>0, <1>1 DEF Only, FileInv
<1>5. RefreshInv'
  BY <1>0 DEF RefreshInv, Refreshing
<1>6. SecretInv'
  BY <1>0, <1>1, <1>2, <1>3, SecretsKept
<1>7. SpentInv'
  BY <1>0, <1>1 DEF Only, SpentInv, Found
<1> QED
  BY <1>1, <1>3, <1>4, <1>5, <1>6, <1>7

(* What is written was pending; what it takes the place of, in the entry of its provider, is
   not there any more. *)
LEMMA WriteKeeps ==
    ASSUME CredentialAssumption, CredentialInv, NEW c \in Calls, Write(c)
    PROVE  CredentialInv'
<1> USE DEF CredentialInv
<1> DEFINE p0 == call[c].provider
           entry == IF Purpose(c) = "set" THEN call[c].cred ELSE Nil
<1>0. /\ thread[c] = "read" /\ fileHolder' = Nil /\ thread' = [thread EXCEPT ![c] = "done"]
      /\ UNCHANGED <<expired, call, storageLock, refreshLock, secrets, mishaps, spent>>
      /\ fileHolder = c /\ seen[c] = file /\ file = written
  BY DEF Write, FileInv
<1>1. UnderWay(c) /\ call[c] \in CallsUnderWay /\ call[c].at # "refreshing"
  <2>1. UnderWay(c) /\ call[c].at # "refreshing"
    BY <1>0 DEF ThreadsFit, UnderWay, CredentialShape, CallsUnderWay
  <2> QED
    BY <2>1, SecretsTyped
<1>2. p0 \in Providers /\ entry \in Credentials \cup {Nil}
  BY <1>1 DEF CallsUnderWay
<1>3. \A d \in Calls \ {c} : thread'[d] = thread[d] /\ thread'[d] # "read"
  BY <1>0 DEF CredentialShape, FileInv
<1>4. thread'[c] = "done"
  BY <1>0 DEF CredentialShape
<1>5. \/ /\ Purpose(c) \in {"set", "remove"}
         /\ file' = [file EXCEPT ![p0] = entry] /\ written' = [written EXCEPT ![p0] = entry]
         /\ seen' = [seen EXCEPT ![c] = Nothing]
      \/ Purpose(c) \notin {"set", "remove"} /\ UNCHANGED <<file, written, seen>>
  BY <1>0 DEF Write
<1>6. /\ \A p \in Providers : file'[p] = file[p] \/ (p = p0 /\ file'[p] = entry)
      /\ file' \in AuthFiles /\ written' = file'
  BY <1>0, <1>2, <1>5 DEF CredentialShape, AuthFiles
<1>7. /\ seen' \in [Calls -> AuthFiles] /\ seen'[c] \in {seen[c], Nothing}
      /\ \A d \in Calls \ {c} : seen'[d] = seen[d]
  <2>1. Nothing \in AuthFiles
    BY DEF Nothing, AuthFiles
  <2> QED
    BY <1>5, <2>1 DEF CredentialShape
<1> HIDE DEF p0
<1>8. Purpose(c) = "set" => Pending(c) /\ entry = call[c].cred /\ entry # Nil
  BY <1>0, <1>1 DEF Pending, ThreadsFit
<1>9. Purpose(c) # "set" => entry = Nil
  OBVIOUS
<1> HIDE DEF entry
<1>10. CredentialShape'
  BY <1>0, <1>6, <1>7 DEF CredentialShape
<1>11. \A d \in Calls : ThreadsFit(d)'
  BY <1>0, <1>1, <1>3, <1>4 DEF ThreadsFit, UnderWay, Purpose, CallAt
<1>12. FileInv'
  BY <1>3, <1>4, <1>6 DEF FileInv
<1>13. RefreshInv'
  BY <1>0 DEF RefreshInv, Refreshing
<1>14. \A d \in Calls \ {c} : (UnderWay(d)' <=> UnderWay(d)) /\ (Pending(d)' <=> Pending(d))
  BY <1>0, <1>3 DEF UnderWay, Pending, Purpose, CallAt
<1>15. ~Pending(c)' /\ (UnderWay(c)' <=> UnderWay(c))
  BY <1>0, <1>4 DEF Pending, UnderWay
<1>16. \A p \in Providers : \A k : ~Sec(Nothing[p], k) /\ ~Sec(Nil, k)
  BY DEF Nothing, Sec
<1>17. \A k \in Secrets : Sec(entry, k) => Pending(c) /\ call[c].cred.secret = k /\ Sec(call[c].cred, k)
  BY <1>8, <1>9, <1>16 DEF Sec
<1>18. \A d \in Calls : \A p \in Providers : \A k : Sec(seen'[d][p], k) => Sec(seen[d][p], k)
  BY <1>7, <1>16
<1>19. SecretInv'
  <2>1. \A k \in Secrets : \A p \in Providers : Belongs(k, p)' => Belongs(k, p)
    <3> SUFFICES ASSUME NEW k \in Secrets, NEW p \in Providers, Belongs(k, p)' PROVE Belongs(k, p)
      OBVIOUS
    <3>1. CASE Sec(file'[p], k)
      <4>1. CASE file'[p] = file[p]
        BY <3>1, <4>1 DEF Belongs
      <4>2. CASE p = p0 /\ file'[p] = entry
        BY <1>1, <1>17, <3>1, <4>2 DEF Belongs, HasSecret, p0
      <4> QED
        BY <1>6, <4>1, <4>2
    <3>2. CASE \E d \in Calls : Sec(seen'[d][p], k)
      BY <1>18, <3>2 DEF Belongs
    <3>3. CASE \E d \in Calls : call'[d].provider = p /\ HasSecret(d, k)'
      BY <1>0, <3>3 DEF Belongs, HasSecret, UnderWay
    <3> QED
      BY <3>1, <3>2, <3>3 DEF Belongs
  <2>2. \A k \in Secrets : Circulates(k)' =>
            Circulates(k) \/ \E w \in Calls : Pending(w) /\ ~Pending(w)' /\ call[w].cred.secret = k
    <3> SUFFICES ASSUME NEW k \in Secrets, Circulates(k)'
                 PROVE  Circulates(k) \/ (Pending(c) /\ ~Pending(c)' /\ call[c].cred.secret = k)
      OBVIOUS
    <3>1. ASSUME NEW p \in Providers, Sec(file'[p], k)
          PROVE  Circulates(k) \/ (Pending(c) /\ ~Pending(c)' /\ call[c].cred.secret = k)
      BY <1>6, <1>15, <1>17, <3>1 DEF Circulates
    <3>2. ASSUME NEW p \in Providers, NEW d \in Calls, Sec(seen'[d][p], k) PROVE Circulates(k)
      BY <1>18, <3>2 DEF Circulates
    <3>3. ASSUME NEW d \in Calls, UnderWay(d)', Sec(call'[d].old, k) \/ (Sec(call'[d].cred, k) /\ ~Pending(d)')
          PROVE  Circulates(k) \/ (Pending(c) /\ ~Pending(c)' /\ call[c].cred.secret = k)
      <4>1. CASE d # c
        BY <1>0, <1>14, <3>3, <4>1 DEF Circulates
      <4>2. CASE d = c
        BY <1>0, <1>15, <3>3, <4>2 DEF Circulates, Sec
      <4> QED
        BY <4>1, <4>2
    <3>4. ASSUME NEW x \in Processes, k \in spent'[x] PROVE Circulates(k)
      BY <1>0, <3>4 DEF Circulates
    <3> QED
      BY <3>1, <3>2, <3>3, <3>4 DEF Circulates
  <2>3. \A d \in Calls : Pending(d)' => Pending(d) /\ call'[d].cred = call[d].cred
    BY <1>0, <1>14, <1>15
  <2>4. secrets' \in {secrets, secrets + 1} /\ \A x \in Processes : \A k \in spent'[x] : k \in spent[x]
    BY <1>0
  <2> QED
    BY <1>2, <1>10, <1>11, <2>1, <2>2, <2>3, <2>4, SecretsMove
<1>20. SpentInv'
  <2>0. \A k \in Secrets : Sec(entry, k) => ~Circulates(k)
    BY <1>17 DEF SecretInv
  <2>1. \A x \in Processes : \A k \in spent'[x] : \A p \in Providers : ~Sec(file'[p], k)
    <3>1. \A x \in Processes : \A k \in spent[x] : k \in Secrets /\ ~Sec(entry, k)
      BY <2>0 DEF Circulates, CredentialShape
    <3> QED
      BY <1>0, <1>6, <3>1 DEF SpentInv
  <2>2. ASSUME NEW d \in Calls, call'[d].at = "set", call'[d].method = "resolve", thread'[d] = "done",
               NEW p \in Providers
        PROVE  ~Sec(file'[p], call'[d].old.secret)
    <3> DEFINE k == call[d].old.secret
    <3>1. call'[d] = call[d] /\ UnderWay(d) /\ call[d].old # Nil
      BY <1>0, <2>2 DEF ThreadsFit, UnderWay, CallPlaces
    <3>2. call[d] \in CallsUnderWay
      BY <3>1, SecretsTyped
    <3>3. call[d].old \in Credentials
      BY <3>1, <3>2 DEF CallsUnderWay
    <3>4. k \in Secrets /\ Sec(call[d].old, k)
      BY <3>1, <3>3 DEF Credentials, Sec
    <3> HIDE DEF k
    <3>5. ~Sec(entry, k)
      BY <2>0, <3>1, <3>4 DEF Circulates
    <3>6. ~Sec(file'[p], k)
      <4>1. CASE d # c
        BY <1>3, <1>6, <2>2, <3>1, <3>5, <4>1 DEF SpentInv, k
      <4>2. CASE d = c
        <5>1. Belongs(k, p0)
          BY <3>1, <3>4, <4>2 DEF Belongs, HasSecret, p0
        <5>2. Purpose(c) = "set"
          BY <2>2, <3>1, <4>2 DEF Purpose, CallAt
        <5>3. file'[p0] = entry
          BY <1>2, <1>5, <5>2 DEF CredentialShape, AuthFiles
        <5>4. CASE p = p0
          BY <3>5, <5>3, <5>4
        <5>5. CASE p # p0
          BY <1>2, <1>6, <3>4, <5>1, <5>5 DEF SecretInv, Belongs
        <5> QED
          BY <5>4, <5>5
      <4> QED
        BY <4>1, <4>2
    <3> QED
      BY <3>1, <3>6 DEF k
  <2>3. ASSUME NEW d \in Calls, call'[d].at = "reget", thread'[d] \in {"read", "done"}
        PROVE  \A k \in spent'[ProcessOf[d]] : ~Sec(seen'[d][call'[d].provider], k)
    <3>1. CASE d # c
      BY <1>0, <1>3, <1>7, <2>3, <3>1 DEF SpentInv, Found
    <3>2. CASE d = c
      <4>1. Purpose(c) = "reget"
        BY <1>0, <2>3, <3>2 DEF Purpose, CallAt
      <4> QED
        BY <1>0, <1>5, <2>3, <3>2, <4>1 DEF SpentInv, Found
    <3> QED
      BY <3>1, <3>2
  <2>4. \A d \in Calls : call'[d].at = "refreshing" => call'[d].cred.secret \notin spent'[ProcessOf[d]]
    BY <1>0 DEF SpentInv
  <2> QED
    BY <2>1, <2>2, <2>3, <2>4 DEF SpentInv, Found
<1> QED
  BY <1>10, <1>11, <1>12, <1>13, <1>19, <1>20

(* A process that dies takes its calls, threads and locks with it. *)
LEMMA DieKeeps ==
    ASSUME CredentialAssumption, CredentialInv, NEW x \in Processes, Die(x)
    PROVE  CredentialInv'
<1> USE DEF CredentialInv
<1> DEFINE gone == {c \in Calls : ProcessOf[c] = x /\ call[c].at # "ready"}
<1>0. /\ call' = [c \in Calls |-> IF c \in gone THEN [at |-> "done"] ELSE call[c]]
      /\ thread' = [c \in Calls |-> IF c \in gone THEN "none" ELSE thread[c]]
      /\ fileHolder' = IF fileHolder \in gone THEN Nil ELSE fileHolder
      /\ storageLock' = [storageLock EXCEPT ![x] = Nil]
      /\ refreshLock' = [refreshLock EXCEPT ![x] = Nothing]
      /\ seen' = [c \in Calls |-> IF c \in gone THEN Nothing ELSE seen[c]]
      /\ UNCHANGED <<file, expired, secrets, written, spent>> /\ mishaps' = mishaps + 1
  BY DEF Die
<1>1. gone \in SUBSET Calls /\ \A c \in Calls : c \notin gone /\ ProcessOf[c] = x => call[c].at = "ready"
  OBVIOUS
<1> HIDE DEF gone
<1>2. \A c \in gone : call'[c] = [at |-> "done"] /\ thread'[c] = "none" /\ seen'[c] = Nothing
  BY <1>0, <1>1
<1>3. \A c \in Calls \ gone : call'[c] = call[c] /\ thread'[c] = thread[c] /\ seen'[c] = seen[c]
  BY <1>0
<1>4. Nothing \in AuthFiles /\ Nothing \in [Providers -> Calls \cup {Nil}]
  BY DEF Nothing, AuthFiles
<1>5. \A c \in Calls : call'[c] \in {[at |-> "ready"], [at |-> "done"]} \cup CallsUnderWay
  BY <1>2, <1>3 DEF CredentialShape
<1>6. CredentialShape'
  <2>1. call' \in [Calls -> {[at |-> "ready"], [at |-> "done"]} \cup CallsUnderWay]
    BY <1>0, <1>5
  <2>2. thread' \in [Calls -> {"none", "queued", "read", "done", "raised"}] /\ seen' \in [Calls -> AuthFiles]
    BY <1>0, <1>4 DEF CredentialShape
  <2>3. /\ storageLock' \in [Processes -> Calls \cup {Nil}]
        /\ refreshLock' \in [Processes -> [Providers -> Calls \cup {Nil}]]
        /\ fileHolder' \in Calls \cup {Nil} /\ mishaps' \in Nat
    BY <1>0, <1>4 DEF CredentialShape
  <2> QED
    BY <1>0, <2>1, <2>2, <2>3 DEF CredentialShape
<1>7. \A c \in gone : ~UnderWay(c)' /\ ~Pending(c)' /\ ~Refreshing(c)' /\ ThreadsFit(c)'
  BY <1>2 DEF UnderWay, Pending, Refreshing, ThreadsFit, CallPlaces
<1>8. \A c \in Calls \ gone : /\ (UnderWay(c)' <=> UnderWay(c)) /\ (Pending(c)' <=> Pending(c))
                              /\ (Refreshing(c)' <=> Refreshing(c)) /\ (ThreadsFit(c)' <=> ThreadsFit(c))
  BY <1>3 DEF UnderWay, Pending, Purpose, CallAt, Refreshing, ThreadsFit
<1>9. \A c \in Calls : ThreadsFit(c)'
  BY <1>7, <1>8
<1>10. FileInv'
  BY <1>0, <1>2, <1>3 DEF FileInv
<1>11. RefreshInv'
  <2> SUFFICES ASSUME NEW c \in Calls, Refreshing(c)' PROVE refreshLock'[ProcessOf[c]][call'[c].provider] = c
    BY DEF RefreshInv
  <2>1. c \notin gone /\ Refreshing(c) /\ call'[c] = call[c]
    BY <1>3, <1>7, <1>8
  <2>2. ProcessOf[c] \in Processes /\ ProcessOf[c] # x
    BY <1>1, <2>1 DEF Refreshing, Processes
  <2> QED
    BY <1>0, <2>1, <2>2 DEF RefreshInv, CredentialShape
<1>12. \A p \in Providers : \A k : ~Sec(Nothing[p], k)
  BY DEF Nothing, Sec
<1>13. \A c \in Calls : \A p \in Providers : \A k : Sec(seen'[c][p], k) => Sec(seen[c][p], k)
  BY <1>2, <1>3, <1>12
<1>14. SecretInv'
  <2>1. \A k \in Secrets : \A p \in Providers : Belongs(k, p)' => Belongs(k, p)
    BY <1>0, <1>3, <1>7, <1>8, <1>13 DEF Belongs, HasSecret
  <2>2. \A k \in Secrets : Circulates(k)' => Circulates(k)
    <3> SUFFICES ASSUME NEW k \in Secrets, Circulates(k)' PROVE Circulates(k)
      OBVIOUS
    <3>1. CASE \E p \in Providers : Sec(file'[p], k) \/ \E d \in Calls : Sec(seen'[d][p], k)
      BY <1>0, <1>13, <3>1 DEF Circulates
    <3>2. ASSUME NEW d \in Calls, UnderWay(d)', Sec(call'[d].old, k) \/ (Sec(call'[d].cred, k) /\ ~Pending(d)')
          PROVE  Circulates(k)
      BY <1>3, <1>7, <1>8, <3>2 DEF Circulates
    <3>3. ASSUME NEW y \in Processes, k \in spent'[y] PROVE Circulates(k)
      BY <1>0, <3>3 DEF Circulates
    <3> QED
      BY <3>1, <3>2, <3>3 DEF Circulates
  <2>3. \A d \in Calls : Pending(d)' => Pending(d) /\ call'[d].cred = call[d].cred
    BY <1>3, <1>7, <1>8
  <2>4. secrets' \in {secrets, secrets + 1} /\ \A y \in Processes : \A k \in spent'[y] : k \in spent[y]
    BY <1>0
  <2>5. PICK new \in Providers, someone \in Calls : TRUE
    BY CredentialAssumption DEF CredentialAssumption, Processes
  <2> QED
    BY <1>6, <1>9, <2>1, <2>2, <2>3, <2>4, <2>5, SecretsMove
<1>15. SpentInv'
  BY <1>0, <1>2, <1>3 DEF SpentInv, Found
<1> QED
  BY <1>6, <1>9, <1>10, <1>11, <1>14, <1>15

LEMMA ExpireKeeps ==
    ASSUME CredentialAssumption, CredentialInv, NEW k \in Secrets, Expire(k)
    PROVE  CredentialInv'
<1> USE DEF CredentialInv
<1>0. /\ expired' = expired \cup {k}
      /\ UNCHANGED <<file, call, thread, seen, locks, secrets, mishaps, written, spent>>
  BY DEF Expire
<1>1. CredentialShape'
  BY <1>0 DEF CredentialShape, locks
<1>2. (\A c \in Calls : ThreadsFit(c)') /\ FileInv' /\ RefreshInv' /\ SpentInv'
  BY <1>0 DEF ThreadsFit, UnderWay, Purpose, CallAt, FileInv, RefreshInv, Refreshing, SpentInv, Found, locks
<1>3. SecretInv'
  BY <1>0 DEF SecretInv, Belongs, HasSecret, Circulates, Pending, UnderWay, Purpose, CallAt
<1> QED
  BY <1>1, <1>2, <1>3

LEMMA CredentialsStart == ASSUME CredentialAssumption, CredentialInit PROVE CredentialInv
<1>1. \A c \in Calls : call[c].at = "ready" /\ thread[c] = "none" /\ seen[c] = Nothing
  BY DEF CredentialInit
<1>2. \A p \in Providers : \A k : ~Sec(Nothing[p], k)
  BY DEF Nothing, Sec
<1>3. 0 \in Secrets /\ Secrets \subseteq Nat /\ MaxSecrets \in Nat
  BY CredentialAssumption DEF CredentialAssumption, Secrets
<1>4. Nothing \in AuthFiles /\ Nothing \in [Providers -> Calls \cup {Nil}]
  BY DEF Nothing, AuthFiles
<1>5. PICK p0 \in Providers, first \in Credentials \cup {Nil} :
        file = [Nothing EXCEPT ![p0] = first] /\ (first # Nil => first.secret = 0)
  <2>1. CASE file = Nothing
    <3>1. PICK p0 \in Providers : TRUE
      BY CredentialAssumption DEF CredentialAssumption
    <3>2. file = [Nothing EXCEPT ![p0] = Nil]
      BY <2>1, <3>1 DEF Nothing
    <3> QED
      BY <3>2
  <2>2. CASE \E p \in Providers, r \in BOOLEAN : file = [Nothing EXCEPT ![p] = [secret |-> 0, renewable |-> r]]
    <3>1. PICK p \in Providers, r \in BOOLEAN : file = [Nothing EXCEPT ![p] = [secret |-> 0, renewable |-> r]]
      BY <2>2
    <3>2. [secret |-> 0, renewable |-> r] \in Credentials /\ [secret |-> 0, renewable |-> r].secret = 0
      BY <1>3 DEF Credentials
    <3> QED
      BY <3>1, <3>2
  <2> QED
    BY <2>1, <2>2 DEF CredentialInit
<1>6. /\ file \in AuthFiles
      /\ \A p \in Providers : file[p] = Nothing[p] \/ (p = p0 /\ file[p] = first)
  BY <1>4, <1>5 DEF AuthFiles
<1>7. CredentialShape
  <2>1. /\ call \in [Calls -> {[at |-> "ready"], [at |-> "done"]} \cup CallsUnderWay]
        /\ thread \in [Calls -> {"none", "queued", "read", "done", "raised"}]
        /\ seen \in [Calls -> AuthFiles] /\ expired \in SUBSET Secrets
    BY <1>3, <1>4 DEF CredentialInit
  <2>2. /\ storageLock \in [Processes -> Calls \cup {Nil}]
        /\ refreshLock \in [Processes -> [Providers -> Calls \cup {Nil}]]
        /\ fileHolder \in Calls \cup {Nil} /\ secrets \in Secrets /\ mishaps \in Nat
        /\ spent \in [Processes -> SUBSET Secrets] /\ written \in AuthFiles
    BY <1>3, <1>4, <1>6 DEF CredentialInit
  <2> QED
    BY <1>6, <2>1, <2>2 DEF CredentialShape
<1>8. \A c \in Calls : ~UnderWay(c) /\ ~Pending(c) /\ ~Refreshing(c) /\ ThreadsFit(c)
  BY <1>1 DEF UnderWay, Pending, Refreshing, ThreadsFit, CallPlaces
<1>9. \A k \in Secrets : \A p \in Providers : Belongs(k, p) => p = p0 /\ k = 0
  BY <1>1, <1>2, <1>5, <1>6, <1>8 DEF Belongs, HasSecret, Sec
<1>10. secrets = 0 /\ \A x \in Processes : spent[x] = {}
  BY DEF CredentialInit
<1>11. SecretInv
  BY <1>3, <1>8, <1>9, <1>10 DEF SecretInv
<1>12. FileInv /\ RefreshInv
  BY <1>1, <1>8 DEF FileInv, RefreshInv, CredentialInit
<1>13. SpentInv
  BY <1>1, <1>10 DEF SpentInv
<1> QED
  BY <1>7, <1>8, <1>11, <1>12, <1>13 DEF CredentialInv

LEMMA CredentialsStep ==
    ASSUME CredentialAssumption, CredentialInv, [CredentialNext]_credentialVars PROVE CredentialInv'
<1>1. CASE UNCHANGED credentialVars
  <2>1. UNCHANGED <<file, expired, call, thread, seen, locks, secrets, mishaps, written, spent>>
    BY <1>1 DEF credentialVars
  <2>2. CredentialShape'
    BY <2>1 DEF CredentialInv, CredentialShape, locks
  <2>3. (\A c \in Calls : ThreadsFit(c)') /\ FileInv' /\ RefreshInv' /\ SpentInv'
    BY <2>1 DEF CredentialInv, ThreadsFit, UnderWay, Purpose, CallAt, FileInv, RefreshInv, Refreshing,
                SpentInv, Found, locks
  <2>4. SecretInv'
    BY <2>1 DEF CredentialInv, SecretInv, Belongs, HasSecret, Circulates, Pending, UnderWay, Purpose, CallAt
  <2> QED
    BY <2>2, <2>3, <2>4 DEF CredentialInv
<1>2. CASE CredentialNext
  BY <1>2, StartKeeps, TakesKeep, LooksKeep, RefreshedKeeps, StoredKeeps, EndsKeep, CancelKeeps, ReadKeeps,
     WriteKeeps, FailKeeps, DieKeeps, ExpireKeeps DEF CredentialNext
<1> QED
  BY <1>1, <1>2

(* auth.json holds what was written last about every provider, whichever process, thread or
   abandoned thread wrote; and a process refreshes a provider once at a time, and never with
   a credential that it has already refreshed and stored (auth.py:158-204). *)
THEOREM CredentialsKept == CredentialSpec => []CredentialsSound
<1>1. CredentialInit => CredentialInv
  BY CredentialsStart, CredentialAssumption
<1>2. CredentialInv /\ [CredentialNext]_credentialVars => CredentialInv'
  BY CredentialsStep, CredentialAssumption
<1>3. CredentialInv => CredentialsSound
  BY DEF CredentialInv, FileInv, RefreshInv, Refreshing, SpentInv, CredentialsSound, CallAt
<1> QED
  BY <1>1, <1>2, <1>3, PTL DEF CredentialSpec

-----------------------------------------------------------------------------
(* SettingsLayers: where resolving is, and what the layers so far come to. *)
LayerTypes ==
    /\ strict \in BOOLEAN /\ next \in 1 .. 6 /\ outcome \in {"resolving", "resolved", "error"}
    /\ given \in Seq(Documents)
    /\ Len(given) = IF outcome = "error" /\ Len(given) = next THEN next ELSE next - 1
    /\ outcome = "resolved" => next = 6

(* A file has had what it has, and what was read of it. *)
FilesInv ==
    /\ DOMAIN files = FileLayers /\ DOMAIN stored = FileLayers
    /\ \A l \in FileLayers : files[l] \in stored[l] /\ (files[l] \in Documents \cup {None, Broken})
    /\ temporary # None => temporary.target \in FileLayers /\ temporary.doc \in Documents
    /\ \A i \in 1 .. Len(given) : i <= 2 =>
        given[i] \in stored[Layers[i]] \/ (given[i] = Empty /\ None \in stored[Layers[i]])

(* Until a key is wrong, what is resolved is what the highest layer so far says of it. *)
FinalInv ==
    outcome # "error" =>
        /\ \A k \in Specs :
            /\ values[k] = Final(k) /\ values[k] # Garbage
            /\ origins[k] = IF Mentioning(k) = {} THEN "default" ELSE Layers[Highest(Mentioning(k))]
        /\ values["reserve"] \in Int /\ values["keep"] \in Int
        /\ warnings \in Seq({Layers[i] : i \in 1 .. 5})
        /\ Len(warnings) = Cardinality(Mentioning(Unknown)) /\ (strict => warnings = <<>>)

(* How resolving ended. *)
OutcomeInv ==
    /\ outcome = "resolved" => values["reserve"] < values["keep"]
    /\ outcome = "error" =>
        \/ next <= 2 /\ Broken \in stored[Layers[next]]
        \/ given # <<>> /\ Wrong(given[Len(given)]) # {}
        \/ next = 6 /\ Final("keep") <= Final("reserve")

SettingsInv == LayerTypes /\ FilesInv /\ FinalInv /\ OutcomeInv

-----------------------------------------------------------------------------
(* What one more layer changes of who mentions a key. *)
LEMMA MoreMentions ==
    ASSUME NEW doc \in Documents, given \in Seq(Documents), given' = Append(given, doc), NEW k
    PROVE  /\ Mentioning(k)' = IF k \in DOMAIN doc THEN Mentioning(k) \cup {Len(given) + 1} ELSE Mentioning(k)
           /\ Mentioning(k) \subseteq 1 .. Len(given)
<1>1. Len(given') = Len(given) + 1 /\ given'[Len(given) + 1] = doc /\ Len(given) \in Nat
  OBVIOUS
<1>2. \A i \in 1 .. Len(given) : given'[i] = given[i]
  OBVIOUS
<1>3. Mentioning(k) \subseteq 1 .. Len(given)
  BY DEF Mentioning
<1>4. 1 .. Len(given) + 1 = (1 .. Len(given)) \cup {Len(given) + 1}
  BY <1>1
<1>5. Mentioning(k)' = {i \in 1 .. Len(given) + 1 : k \in DOMAIN given'[i]}
  BY <1>1 DEF Mentioning
<1>6. \A i \in 1 .. Len(given) + 1 :
        k \in DOMAIN given'[i] <=> i \in Mentioning(k) \/ (i = Len(given) + 1 /\ k \in DOMAIN doc)
  BY <1>1, <1>2, <1>4 DEF Mentioning
<1>. QED BY <1>3, <1>4, <1>5, <1>6

LEMMA HighestIs ==
    ASSUME NEW S \in SUBSET Nat, NEW n \in S, \A j \in S : j <= n
    PROVE  Highest(S) = n
<1>1. n \in S /\ \A j \in S : j <= n
  OBVIOUS
<1>2. Highest(S) \in S /\ \A j \in S : j <= Highest(S)
  BY <1>1 DEF Highest
<1>3. n \in Nat /\ Highest(S) \in Nat
  BY <1>1, <1>2
<1>4. n <= Highest(S) /\ Highest(S) <= n
  BY <1>1, <1>2
<1>. QED BY <1>3, <1>4

LEMMA HighestThereIs ==
    ASSUME NEW n \in Nat, NEW S, S \subseteq 1 .. n, S # {}
    PROVE  \E x \in S : \A y \in S : y <= x
<1>1. \A x \in S : x \in Nat /\ x <= n /\ n - x \in Nat
  OBVIOUS
<1>2. PICK T : T = {n - x : x \in S}
  OBVIOUS
<1>3. T \subseteq Nat /\ T # {}
  BY <1>1, <1>2
<1>4. PICK d \in T : \A e \in T : d <= e
  BY <1>3, LeastNatural
<1>5. PICK x \in S : d = n - x
  BY <1>2
<1>6. ASSUME NEW y \in S PROVE y <= x
  <2>1. n - y \in T
    BY <1>2
  <2>2. n - x <= n - y
    BY <1>4, <1>5, <2>1
  <2>. QED BY <1>1, <2>2
<1>. QED BY <1>6

(* A document that is all right decides what it mentions, and nothing else. *)
LEMMA FinalNext ==
    ASSUME NEW doc \in Documents, given \in Seq(Documents), given' = Append(given, doc), NEW k
    PROVE  /\ k \in DOMAIN doc =>
                Final(k)' = doc[k] /\ Mentioning(k)' # {} /\ Highest(Mentioning(k))' = Len(given) + 1
           /\ k \notin DOMAIN doc =>
                /\ Final(k)' = Final(k) /\ Mentioning(k)' = Mentioning(k)
                /\ Highest(Mentioning(k))' = Highest(Mentioning(k))
<1>1. Len(given') = Len(given) + 1 /\ given'[Len(given) + 1] = doc /\ Len(given) \in Nat
  OBVIOUS
<1>2. PICK M : M = Mentioning(k)'
  OBVIOUS
<1>3. /\ M = IF k \in DOMAIN doc THEN Mentioning(k) \cup {Len(given) + 1} ELSE Mentioning(k)
      /\ Mentioning(k) \subseteq 1 .. Len(given)
  BY <1>2, MoreMentions
<1>4. Highest(Mentioning(k))' = Highest(M)
  BY <1>2 DEF Highest
<1>5. Final(k)' = IF M = {} THEN Default[k] ELSE given'[Highest(M)][k]
  BY <1>2, <1>4 DEF Final
<1>6. CASE k \in DOMAIN doc
  <2>1. M \in SUBSET Nat /\ Len(given) + 1 \in M /\ \A j \in M : j <= Len(given) + 1
    BY <1>1, <1>3, <1>6
  <2>2. Highest(M) = Len(given) + 1
    BY <2>1, HighestIs
  <2>. QED BY <1>1, <1>2, <1>4, <1>5, <1>6, <2>1, <2>2
<1>7. CASE k \notin DOMAIN doc
  <2>1. M = Mentioning(k)
    BY <1>3, <1>7
  <2>2. CASE M = {}
    BY <1>2, <1>4, <1>5, <1>7, <2>1, <2>2 DEF Final
  <2>3. CASE M # {}
    <3>1. M \in SUBSET Nat
      BY <1>1, <1>3, <2>1
    <3>2. PICK n \in M : \A j \in M : j <= n
      BY <1>1, <1>3, <2>1, <2>3, HighestThereIs
    <3>3. Highest(M) = n
      BY <3>1, <3>2, HighestIs
    <3>4. n \in 1 .. Len(given) /\ given'[n] = given[n]
      BY <1>1, <1>3, <2>1, <3>2
    <3>. QED BY <1>2, <1>4, <1>5, <1>7, <2>1, <2>3, <3>3, <3>4 DEF Final
  <2>. QED BY <2>2, <2>3
<1>. QED BY <1>6, <1>7

LEMMA SettingsStart == ASSUME SettingsAssumption, SettingsInit PROVE SettingsInv
<1>1. given = <<>> /\ Len(given) = 0 /\ given \in Seq(Documents)
  BY DEF SettingsInit
<1>2. \A k : Mentioning(k) = {}
  BY <1>1 DEF Mentioning
<1>3. Cardinality({}) = 0
  BY FS_EmptySet
<1>4. LayerTypes
  BY <1>1 DEF SettingsInit, LayerTypes
<1>5. FilesInv
  BY <1>1 DEF SettingsInit, FilesInv
<1>6. FinalInv
  <2>1. \A k \in Specs : Default[k] # Garbage
    BY DEF SettingsAssumption, Specs, Default, Garbage
  <2>2. \A k \in Specs :
          /\ values[k] = Final(k) /\ values[k] # Garbage
          /\ origins[k] = IF Mentioning(k) = {} THEN "default" ELSE Layers[Highest(Mentioning(k))]
    BY <1>2, <2>1 DEF SettingsInit, Final
  <2>3. values["reserve"] \in Int /\ values["keep"] \in Int
    BY DEF SettingsInit, Default
  <2>4. warnings = <<>> /\ Len(warnings) = Cardinality(Mentioning(Unknown))
    BY <1>2, <1>3 DEF SettingsInit
  <2>. QED BY <2>2, <2>3, <2>4 DEF FinalInv
<1>7. OutcomeInv
  BY DEF SettingsInit, OutcomeInv
<1>. QED BY <1>4, <1>5, <1>6, <1>7 DEF SettingsInv

(* A layer is applied: whatever it says, all that is said here goes on. *)
LEMMA ApplyKeepsFinal ==
    ASSUME SettingsAssumption, SettingsInv, outcome = "resolving", NEW layer, layer = Layers[next],
           next \in 1 .. 5, NEW doc \in Documents, Apply(layer, doc), UNCHANGED strict,
           outcome' # "error"
    PROVE  FinalInv'
<1>1. /\ given \in Seq(Documents) /\ Len(given) = next - 1 /\ Len(given) + 1 = next
      /\ given' = Append(given, doc) /\ outcome # "error"
  BY DEF SettingsInv, LayerTypes, Apply
<1>2. Wrong(doc) = {}
  BY DEF Apply
<1>3. DOMAIN doc \subseteq Specs \cup {Unknown}
  BY DEF SettingsAssumption
<1>4. Accepted(doc) = DOMAIN doc \cap Specs
  BY <1>2 DEF Accepted
<1>5. \A k \in DOMAIN doc : doc[k] # Garbage
  BY <1>2 DEF Wrong
<1>6. ASSUME NEW k \in Specs
      PROVE  /\ values'[k] = Final(k)' /\ values'[k] # Garbage
             /\ origins'[k] = IF Mentioning(k)' = {} THEN "default" ELSE Layers[Highest(Mentioning(k))']
  <2>1. /\ values[k] = Final(k) /\ values[k] # Garbage
        /\ origins[k] = IF Mentioning(k) = {} THEN "default" ELSE Layers[Highest(Mentioning(k))]
    BY <1>1 DEF SettingsInv, FinalInv
  <2>2. /\ values'[k] = IF k \in Accepted(doc) THEN doc[k] ELSE values[k]
        /\ origins'[k] = IF k \in Accepted(doc) THEN layer ELSE origins[k]
    BY DEF Apply
  <2>3. CASE k \in DOMAIN doc
    <3>1. Final(k)' = doc[k] /\ Mentioning(k)' # {} /\ Highest(Mentioning(k))' = next
      BY <1>1, <2>3, FinalNext
    <3>2. values'[k] = doc[k] /\ origins'[k] = Layers[next]
      BY <1>4, <2>2, <2>3
    <3>. QED BY <1>5, <2>3, <3>1, <3>2
  <2>4. CASE k \notin DOMAIN doc
    <3>1. /\ Final(k)' = Final(k) /\ Mentioning(k)' = Mentioning(k)
          /\ Highest(Mentioning(k))' = Highest(Mentioning(k))
      BY <1>1, <2>4, FinalNext
    <3>2. values'[k] = values[k] /\ origins'[k] = origins[k]
      BY <1>4, <2>2, <2>4
    <3>. QED BY <2>1, <3>1, <3>2
  <2>. QED BY <2>3, <2>4
<1>7. values'["reserve"] \in Int /\ values'["keep"] \in Int
  <2>1. ASSUME NEW k \in {"reserve", "keep"} PROVE values'[k] \in Int
    <3>1. k \in Specs
      BY DEF Specs
    <3>2. values'[k] = IF k \in Accepted(doc) THEN doc[k] ELSE values[k]
      BY <3>1 DEF Apply
    <3>3. values[k] \in Int
      BY <1>1 DEF SettingsInv, FinalInv
    <3>4. k \in DOMAIN doc => doc[k] \in Int
      BY DEF SettingsAssumption
    <3>. QED BY <1>4, <3>2, <3>3, <3>4
  <2>. QED BY <2>1
<1>8. /\ warnings' \in Seq({Layers[i] : i \in 1 .. 5}) /\ (strict' => warnings' = <<>>)
      /\ Len(warnings') = Cardinality(Mentioning(Unknown)')
  <2>1. /\ warnings \in Seq({Layers[i] : i \in 1 .. 5}) /\ (strict => warnings = <<>>)
        /\ Len(warnings) = Cardinality(Mentioning(Unknown)) /\ strict \in BOOLEAN
    BY <1>1 DEF SettingsInv, FinalInv, LayerTypes
  <2>2. layer \in {Layers[i] : i \in 1 .. 5}
    OBVIOUS
  <2>3. strict => Unknown \notin DOMAIN doc
    BY <1>2 DEF Wrong
  <2>4. warnings' = IF Unknown \in DOMAIN doc /\ ~strict THEN Append(warnings, layer) ELSE warnings
    BY DEF Apply
  <2>5. PICK M : M = Mentioning(Unknown)
    OBVIOUS
  <2>6. /\ Mentioning(Unknown)' = IF Unknown \in DOMAIN doc THEN M \cup {Len(given) + 1} ELSE M
        /\ M \subseteq 1 .. Len(given)
    BY <1>1, <2>5, MoreMentions
  <2>7. Len(given) \in Nat /\ Len(given) + 1 \notin M
    BY <1>1, <2>6
  <2>8. IsFiniteSet(M) /\ Cardinality(M) \in Nat
    <3>1. IsFiniteSet(1 .. Len(given))
      BY <2>7, FS_Interval
    <3>2. IsFiniteSet(M)
      BY <2>6, <3>1, FS_Subset
    <3>. QED BY <3>2, FS_CardinalityType
  <2>9. Cardinality(M \cup {Len(given) + 1}) = Cardinality(M) + 1
    BY <2>7, <2>8, FS_AddElement
  <2>10. CASE Unknown \in DOMAIN doc
    <3>1. warnings' = Append(warnings, layer) /\ ~strict
      BY <2>1, <2>3, <2>4, <2>10
    <3>2. Len(warnings') = Len(warnings) + 1 /\ warnings' \in Seq({Layers[i] : i \in 1 .. 5})
      BY <2>1, <2>2, <3>1
    <3>. QED BY <2>1, <2>5, <2>6, <2>9, <2>10, <3>1, <3>2
  <2>11. CASE Unknown \notin DOMAIN doc
    BY <2>1, <2>4, <2>5, <2>6, <2>11
  <2>. QED BY <2>10, <2>11
<1>. QED BY <1>6, <1>7, <1>8 DEF FinalInv

LEMMA ApplyKeeps ==
    ASSUME SettingsAssumption, SettingsInv, outcome = "resolving", NEW layer, layer = Layers[next],
           next \in 1 .. 5, NEW doc \in Documents, Apply(layer, doc),
           UNCHANGED <<files, temporary, strict, stored>>,
           next <= 2 => doc \in stored[layer] \/ (doc = Empty /\ None \in stored[layer])
    PROVE  SettingsInv'
<1>1. /\ given \in Seq(Documents) /\ Len(given) = next - 1 /\ Len(given) + 1 = next
      /\ given' = Append(given, doc)
  BY DEF SettingsInv, LayerTypes, Apply
<1>2. /\ Len(given') = next /\ given' \in Seq(Documents) /\ given'[next] = doc /\ given' # <<>>
      /\ \A i \in 1 .. Len(given) : given'[i] = given[i]
  BY <1>1
<1>3. /\ next' = IF Wrong(doc) = {} THEN next + 1 ELSE next
      /\ outcome' = IF Wrong(doc) = {} THEN "resolving" ELSE "error"
  BY DEF Apply
<1>4. LayerTypes'
  BY <1>2, <1>3 DEF SettingsInv, LayerTypes
<1>5. FilesInv'
  <2>1. ASSUME NEW i \in 1 .. Len(given'), i <= 2
        PROVE  given'[i] \in stored'[Layers[i]] \/ (given'[i] = Empty /\ None \in stored'[Layers[i]])
    <3>1. CASE i = next
      BY <1>2, <2>1, <3>1
    <3>2. CASE i # next
      <4>1. i \in 1 .. Len(given)
        BY <1>1, <1>2, <3>2
      <4>. QED BY <1>2, <2>1, <4>1 DEF SettingsInv, FilesInv
    <3>. QED BY <3>1, <3>2
  <2>. QED BY <2>1 DEF SettingsInv, FilesInv
<1>6. FinalInv'
  BY ApplyKeepsFinal DEF FinalInv
<1>7. OutcomeInv'
  <2>1. Wrong(doc)' = Wrong(doc)
    BY DEF Wrong
  <2>2. Wrong(given[Len(given)])' = Wrong(doc)'
    <3>1. given'[Len(given')] = doc
      BY <1>2
    <3>. QED BY <3>1 DEF Wrong
  <2>. QED BY <1>2, <1>3, <2>1, <2>2 DEF OutcomeInv
<1>. QED BY <1>4, <1>5, <1>6, <1>7 DEF SettingsInv

LEMMA FileKeeps == ASSUME SettingsAssumption, SettingsInv, ApplyFile PROVE SettingsInv'
<1>1. PICK layer : layer = Layers[next] /\ layer \in FileLayers
  BY DEF ApplyFile, Layers, FileLayers
<1>2. files[layer] \in stored[layer] /\ files[layer] \in Documents \cup {None, Broken}
  BY <1>1 DEF SettingsInv, FilesInv
<1>3. CASE files[layer] = Broken
  <2>1. /\ outcome' = "error" /\ next <= 2 /\ outcome = "resolving"
        /\ UNCHANGED <<next, values, origins, warnings, given, files, temporary, strict, stored>>
    BY <1>1, <1>3 DEF ApplyFile
  <2>2. Broken \in stored[Layers[next]]
    BY <1>1, <1>2, <1>3
  <2>3. LayerTypes'
    BY <2>1 DEF SettingsInv, LayerTypes
  <2>4. FilesInv'
    BY <2>1 DEF SettingsInv, FilesInv
  <2>. QED BY <2>1, <2>2, <2>3, <2>4 DEF SettingsInv, FinalInv, OutcomeInv
<1>4. CASE files[layer] # Broken
  <2>1. PICK doc : doc = IF files[layer] = None THEN Empty ELSE files[layer]
    OBVIOUS
  <2>2. doc \in Documents /\ (doc \in stored[layer] \/ (doc = Empty /\ None \in stored[layer]))
    BY <1>2, <1>4, <2>1 DEF SettingsAssumption
  <2>3. /\ Apply(layer, doc) /\ outcome = "resolving" /\ next \in 1 .. 5
        /\ UNCHANGED <<files, temporary, strict, stored>>
    BY <1>1, <1>4, <2>1 DEF ApplyFile
  <2>. QED BY <1>1, <2>2, <2>3, ApplyKeeps
<1>. QED BY <1>3, <1>4

LEMMA OverridesKeep ==
    ASSUME SettingsAssumption, SettingsInv, NEW doc \in Documents, ApplyOverrides(doc)
    PROVE  SettingsInv'
<1>1. /\ outcome = "resolving" /\ next \in 3 .. 5 /\ Apply(Layers[next], doc)
      /\ UNCHANGED <<files, temporary, strict, stored>>
  BY DEF ApplyOverrides
<1>2. next \in 1 .. 5 /\ ~ (next <= 2)
  BY <1>1
<1>. QED BY <1>1, <1>2, ApplyKeeps

LEMMA CheckKeeps == ASSUME SettingsInv, CrossCheck PROVE SettingsInv'
<1>1. /\ outcome = "resolving" /\ next = 6
      /\ outcome' = IF values["keep"] <= values["reserve"] THEN "error" ELSE "resolved"
      /\ UNCHANGED <<files, temporary, next, strict, values, origins, warnings, given, stored>>
  BY DEF CrossCheck
<1>2. LayerTypes'
  BY <1>1 DEF SettingsInv, LayerTypes
<1>3. FilesInv'
  BY <1>1 DEF SettingsInv, FilesInv
<1>4. \A k : Mentioning(k)' = Mentioning(k) /\ Final(k)' = Final(k) /\ Highest(Mentioning(k))' = Highest(Mentioning(k))
  BY <1>1 DEF Mentioning, Final, Highest
<1>5. FinalInv'
  BY <1>1, <1>4 DEF SettingsInv, FinalInv
<1>6. values["reserve"] \in Int /\ values["keep"] \in Int
      /\ values["keep"] = Final("keep") /\ values["reserve"] = Final("reserve")
  BY <1>1 DEF SettingsInv, FinalInv, Specs
<1>7. OutcomeInv'
  <2>1. CASE values["keep"] <= values["reserve"]
    BY <1>1, <1>4, <1>6, <2>1 DEF OutcomeInv
  <2>2. CASE ~ (values["keep"] <= values["reserve"])
    BY <1>1, <1>6, <2>2 DEF OutcomeInv
  <2>. QED BY <2>1, <2>2
<1>. QED BY <1>2, <1>3, <1>5, <1>7 DEF SettingsInv

(* What happens to the files meanwhile. *)
LEMMA SavesKeep ==
    ASSUME SettingsInv, UNCHANGED <<next, strict, values, origins, warnings, outcome, given>>, FilesInv',
           \A l \in FileLayers : stored[l] \subseteq stored'[l]
    PROVE  SettingsInv'
<1>1. \A k : Mentioning(k)' = Mentioning(k) /\ Final(k)' = Final(k) /\ Highest(Mentioning(k))' = Highest(Mentioning(k))
  BY DEF Mentioning, Final, Highest
<1>2. LayerTypes' /\ FinalInv'
  BY <1>1 DEF SettingsInv, LayerTypes, FinalInv
<1>3. next \in {1, 2} => Layers[next] \in FileLayers
  BY DEF Layers, FileLayers
<1>4. next <= 2 => next \in {1, 2}
  BY DEF SettingsInv, LayerTypes
<1>5. Wrong(given[Len(given)])' = Wrong(given[Len(given)])
  BY DEF Wrong
<1>6. OutcomeInv'
  BY <1>1, <1>3, <1>4, <1>5 DEF SettingsInv, OutcomeInv
<1>. QED BY <1>2, <1>6 DEF SettingsInv

LEMMA ReplaceKeeps == ASSUME SettingsInv, Replace PROVE SettingsInv'
<1>1. PICK l \in FileLayers, doc \in Documents : l = temporary.target /\ doc = temporary.doc
  BY DEF Replace, SettingsInv, FilesInv
<1>2. /\ files' = [files EXCEPT ![l] = doc] /\ stored' = [stored EXCEPT ![l] = @ \cup {doc}]
      /\ temporary' = None /\ UNCHANGED <<next, strict, values, origins, warnings, outcome, given>>
  BY <1>1 DEF Replace
<1>3. \A x \in FileLayers : /\ stored[x] \subseteq stored'[x] /\ files'[x] \in stored'[x]
                           /\ files'[x] \in Documents \cup {None, Broken}
  BY <1>1, <1>2 DEF SettingsInv, FilesInv
<1>4. \A i \in 1 .. Len(given) : i <= 2 => Layers[i] \in FileLayers
  BY DEF Layers, FileLayers
<1>5. FilesInv'
  BY <1>2, <1>3, <1>4 DEF SettingsInv, FilesInv
<1>. QED BY <1>2, <1>3, <1>5, SavesKeep

LEMMA StepKeepsSettings ==
    ASSUME SettingsAssumption, SettingsInv, [SettingsNext]_settingsVars
    PROVE  SettingsInv'
<1>1. CASE ApplyFile
  BY <1>1, FileKeeps
<1>2. CASE CrossCheck
  BY <1>2, CheckKeeps
<1>3. CASE Replace
  BY <1>3, ReplaceKeeps
<1>4. CASE SaveFails
  <2>1. FilesInv'
    BY <1>4 DEF SaveFails, SettingsInv, FilesInv
  <2>. QED BY <1>4, <2>1, SavesKeep DEF SaveFails
<1>5. ASSUME NEW doc \in Documents, ApplyOverrides(doc) PROVE SettingsInv'
  BY <1>5, OverridesKeep
<1>6. ASSUME NEW layer \in FileLayers, NEW doc \in Documents, Save(layer, doc) PROVE SettingsInv'
  <2>1. FilesInv'
    BY <1>6 DEF Save, SettingsInv, FilesInv
  <2>. QED BY <1>6, <2>1, SavesKeep DEF Save
<1>7. CASE UNCHANGED settingsVars
  <2>1. FilesInv'
    BY <1>7 DEF settingsVars, SettingsInv, FilesInv
  <2>. QED BY <1>7, <2>1, SavesKeep DEF settingsVars
<1>. QED BY <1>1, <1>2, <1>3, <1>4, <1>5, <1>6, <1>7 DEF SettingsNext

(* What is resolved is what was said: each setting has the value of the highest layer that
   mentions it and that layer as its origin, nothing wrong was passed over, each unknown key
   has left a warning, an error has a reason, and each file was read whole: for any documents
   and any saves between the reads (SettingsResolver.resolve and save_settings_file). *)
THEOREM SettingsAreThoseSaid == ASSUME SettingsAssumption PROVE SettingsSpec => []SettingsSound
<1>1. SettingsInv => SettingsSound
  BY DEF SettingsInv, FilesInv, FinalInv, OutcomeInv, SettingsSound
<1>2. SettingsInit => SettingsInv
  BY SettingsStart
<1>3. SettingsInv /\ [SettingsNext]_settingsVars => SettingsInv'
  BY StepKeepsSettings
<1>. QED BY <1>1, <1>2, <1>3, PTL DEF SettingsSpec
==============================================================================
