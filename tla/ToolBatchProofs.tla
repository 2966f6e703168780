--------------------------- MODULE ToolBatchProofs ---------------------------
(* Theorems about ToolBatch, ToolPolicies and OutputLimits, for any number of calls and of
   updates, any rules and answers, and any texts and limits. *)
EXTENDS ToolBatch, ToolPolicies, OutputLimits, SequenceTheorems, FiniteSetTheorems,
        WellFoundedInduction, TLAPS

(* The variables that the proofs need the shape of. *)
Shape ==
    /\ mode \in {"sequential", "parallel", "length"}
    /\ cancelled \in BOOLEAN
    /\ ctl \in Controls
    /\ cur \in 1 .. N + 1
    /\ stage \in [Calls -> Stages]
    /\ finished \in Seq(Calls)
    /\ killed \in SUBSET Calls
    /\ results \in Seq(Calls)

(* A call whose task has ended waits in finished, once, until it is collected, and only
   calls of a batch that unwinds are being cancelled. *)
TasksInv ==
    /\ \A k \in DOMAIN finished : stage[finished[k]] \in {"finished", "raised"}
    /\ \A j, k \in DOMAIN finished : finished[j] = finished[k] => j = k
    /\ \A i \in killed : stage[i] \in Live
    /\ ctl \notin {"unwinding", "raised"} => killed = {}

(* One call after the other: the controller is at the call that gets the next result. *)
InlineInv ==
    Inline =>
        /\ ctl # "unwinding" /\ killed = {}
        /\ ctl \in {"preflight", "running", "reporting"} =>
                cur \in Calls /\ Len(results) = cur - 1
        /\ ctl = "check" => cur \in Calls /\ Len(results) = cur
        /\ ctl = "reporting" => stage[cur] = "ended"
        /\ \A i \in Calls : stage[i] \in Live \cup {"finished", "raised"} =>
                i = cur /\ ctl \in {"running", "raised"}
        /\ \A k \in DOMAIN finished : finished[k] = cur

(* All together: no result before every call has ended. *)
ParallelInv ==
    ~ Inline =>
        /\ ctl \in {"preflight", "running", "unwinding", "raised"} => results = <<>>
        /\ ctl \in {"reporting", "check", "done"} => \A i \in Calls : stage[i] = "ended"
        /\ ctl = "reporting" => Len(results) < N

(* Who may raise: a truncated message executes no call, and only the hook raises. *)
RaiseInv ==
    \A i \in Calls :
        /\ mode = "length" => stage[i] \in {"new", "refused", "ended"}
        /\ stage[i] = "raised" => HooksMayFail

UnwindInv == ctl = "unwinding" => HooksMayFail

BatchInv ==
    /\ Shape /\ TasksInv /\ InlineInv /\ ParallelInv /\ RaiseInv /\ UnwindInv
    /\ ResultsInSourceOrder

LEMMA InitBatchInv == Init => BatchInv
<1> SUFFICES ASSUME Init PROVE BatchInv
  OBVIOUS
<1>1. N \in Nat \ {0} /\ 1 \in Calls
  BY CallsAssumption DEF Calls
<1>2. Shape
  BY <1>1, EmptySeq DEF Init, Shape, Stages, Preparing, Controls
<1>3. QED
  BY <1>1, <1>2, EmptySeq DEF Init, BatchInv, TasksInv, InlineInv, ParallelInv, RaiseInv, UnwindInv,
        ResultsInSourceOrder, Inline, Live

(* What the steps use of sequences. *)
LEMMA AppendFacts ==
  ASSUME NEW S, NEW s \in Seq(S), NEW x \in S
  PROVE  /\ Append(s, x) \in Seq(S)
         /\ Len(Append(s, x)) = Len(s) + 1
         /\ DOMAIN s = 1 .. Len(s) /\ Len(s) \in Nat
         /\ DOMAIN Append(s, x) = 1 .. Len(s) + 1
         /\ Append(s, x)[Len(s) + 1] = x
         /\ \A i \in 1 .. Len(s) : Append(s, x)[i] = s[i]
  BY AppendProperties, LenProperties

LEMMA HeadTailFacts ==
  ASSUME NEW S, NEW s \in Seq(S), s # <<>>
  PROVE  /\ Head(s) \in S /\ Head(s) = s[1] /\ 1 \in DOMAIN s
         /\ Tail(s) \in Seq(S)
         /\ \A k \in DOMAIN Tail(s) : k + 1 \in DOMAIN s /\ k + 1 # 1 /\ Tail(s)[k] = s[k + 1]
         /\ DOMAIN Tail(s) \subseteq Nat
  BY HeadTailProperties, LenProperties, EmptySeq

(* Results in source order are at most as many as the calls. *)
LEMMA AtMostN ==
  ASSUME Shape, ResultsInSourceOrder
  PROVE  Len(results) \in 0 .. N
<1>1. Len(results) \in Nat /\ DOMAIN results = 1 .. Len(results)
  BY LenProperties DEF Shape
<1>2. N \in Nat
  BY CallsAssumption
<1>3. CASE Len(results) = 0
  BY <1>2, <1>3
<1>4. CASE Len(results) # 0
  <2>1. Len(results) \in DOMAIN results
    BY <1>1, <1>4
  <2>2. results[Len(results)] = Len(results) /\ results[Len(results)] \in Calls
    BY <2>1, ElementOfSeq, <1>1 DEF Shape, ResultsInSourceOrder
  <2>3. QED
    BY <2>2, <1>2 DEF Calls
<1>5. QED
  BY <1>3, <1>4

LEMMA StepKeepsBatch == BatchInv /\ [Next]_vars => BatchInv'
<1> SUFFICES ASSUME BatchInv, [Next]_vars PROVE BatchInv'
  OBVIOUS
<1>a. N \in Nat \ {0} /\ Len(results) \in 0 .. N
  BY AtMostN, CallsAssumption DEF BatchInv
<1>b. /\ DOMAIN results = 1 .. Len(results) /\ \A k \in DOMAIN results : results[k] \in Calls
      /\ \A k \in DOMAIN finished : finished[k] \in Calls
  BY ElementOfSeq, LenProperties DEF BatchInv, Shape
<1> USE <1>a DEF BatchInv, Shape, Calls, Inline, Live, Stages, Preparing, Controls, To, Runs,
                 taskVars
<1>1. CASE Abort
  <2>1. Shape'
    BY <1>1 DEF Abort
  <2>2. TasksInv'
    BY <1>1 DEF Abort, TasksInv
  <2>3. InlineInv'
    BY <1>1 DEF Abort, TasksInv, InlineInv, RaiseInv
  <2>4. ParallelInv'
    BY <1>1 DEF Abort, InlineInv, ParallelInv, ResultsInSourceOrder
  <2>5. RaiseInv' /\ UnwindInv'
    BY <1>1 DEF Abort, RaiseInv, UnwindInv
  <2>6. ResultsInSourceOrder'
    BY <1>1 DEF Abort, InlineInv, ParallelInv, ResultsInSourceOrder, TasksInv
  <2>7. QED
    BY <2>1, <2>2, <2>3, <2>4, <2>5, <2>6
<1>2. CASE Announce
  <2>1. Shape'
    BY <1>2 DEF Announce
  <2>2. TasksInv'
    BY <1>2 DEF Announce, TasksInv
  <2>3. InlineInv'
    BY <1>2 DEF Announce, TasksInv, InlineInv, RaiseInv
  <2>4. ParallelInv'
    BY <1>2 DEF Announce, InlineInv, ParallelInv, ResultsInSourceOrder
  <2>5. RaiseInv' /\ UnwindInv'
    BY <1>2 DEF Announce, RaiseInv, UnwindInv
  <2>6. ResultsInSourceOrder'
    BY <1>2 DEF Announce, InlineInv, ParallelInv, ResultsInSourceOrder, TasksInv
  <2>7. QED
    BY <2>1, <2>2, <2>3, <2>4, <2>5, <2>6
<1>3. CASE CheckCall
  <2>1. Shape'
    BY <1>3 DEF CheckCall
  <2>2. TasksInv'
    BY <1>3 DEF CheckCall, TasksInv
  <2>3. InlineInv'
    BY <1>3 DEF CheckCall, TasksInv, InlineInv, RaiseInv
  <2>4. ParallelInv'
    BY <1>3 DEF CheckCall, InlineInv, ParallelInv, ResultsInSourceOrder
  <2>5. RaiseInv' /\ UnwindInv'
    BY <1>3 DEF CheckCall, RaiseInv, UnwindInv
  <2>6. ResultsInSourceOrder'
    BY <1>3 DEF CheckCall, InlineInv, ParallelInv, ResultsInSourceOrder, TasksInv
  <2>7. QED
    BY <2>1, <2>2, <2>3, <2>4, <2>5, <2>6
<1>4. CASE AllowCall
  <2>1. Shape'
    BY <1>4 DEF AllowCall
  <2>2. TasksInv'
    BY <1>4, <1>b DEF AllowCall, TasksInv
  <2>3. InlineInv'
    BY <1>4 DEF AllowCall, TasksInv, InlineInv, RaiseInv
  <2>4. ParallelInv'
    BY <1>4 DEF AllowCall, InlineInv, ParallelInv, ResultsInSourceOrder
  <2>5. RaiseInv' /\ UnwindInv'
    BY <1>4 DEF AllowCall, RaiseInv, UnwindInv
  <2>6. ResultsInSourceOrder'
    BY <1>4, <1>b DEF AllowCall, InlineInv, ParallelInv, ResultsInSourceOrder, TasksInv
  <2>7. QED
    BY <2>1, <2>2, <2>3, <2>4, <2>5, <2>6
<1>5. CASE RefuseCall
  <2>1. Shape'
    BY <1>5 DEF RefuseCall
  <2>2. TasksInv'
    BY <1>5 DEF RefuseCall, TasksInv
  <2>3. InlineInv'
    BY <1>5 DEF RefuseCall, TasksInv, InlineInv, RaiseInv
  <2>4. ParallelInv'
    BY <1>5 DEF RefuseCall, InlineInv, ParallelInv, ResultsInSourceOrder
  <2>5. RaiseInv' /\ UnwindInv'
    BY <1>5 DEF RefuseCall, RaiseInv, UnwindInv
  <2>6. ResultsInSourceOrder'
    BY <1>5 DEF RefuseCall, InlineInv, ParallelInv, ResultsInSourceOrder, TasksInv
  <2>7. QED
    BY <2>1, <2>2, <2>3, <2>4, <2>5, <2>6
<1>6. CASE EndRefused
  <2>1. Shape'
    BY <1>6 DEF EndRefused
  <2>2. TasksInv'
    BY <1>6 DEF EndRefused, TasksInv
  <2>3. InlineInv'
    BY <1>6 DEF EndRefused, TasksInv, InlineInv, RaiseInv
  <2>4. ParallelInv'
    BY <1>6 DEF EndRefused, InlineInv, ParallelInv, ResultsInSourceOrder
  <2>5. RaiseInv' /\ UnwindInv'
    BY <1>6 DEF EndRefused, RaiseInv, UnwindInv
  <2>6. ResultsInSourceOrder'
    BY <1>6 DEF EndRefused, InlineInv, ParallelInv, ResultsInSourceOrder, TasksInv
  <2>7. QED
    BY <2>1, <2>2, <2>3, <2>4, <2>5, <2>6
<1>7. CASE Spawn
  <2>1. Shape'
    BY <1>7 DEF Spawn
  <2>2. TasksInv'
    BY <1>7 DEF Spawn, TasksInv
  <2>3. InlineInv'
    BY <1>7 DEF Spawn, TasksInv, InlineInv, RaiseInv
  <2>4. ParallelInv'
    BY <1>7 DEF Spawn, InlineInv, ParallelInv, ResultsInSourceOrder
  <2>5. RaiseInv' /\ UnwindInv'
    BY <1>7 DEF Spawn, RaiseInv, UnwindInv
  <2>6. ResultsInSourceOrder'
    BY <1>7 DEF Spawn, InlineInv, ParallelInv, ResultsInSourceOrder, TasksInv
  <2>7. QED
    BY <2>1, <2>2, <2>3, <2>4, <2>5, <2>6
<1>8. ASSUME NEW i \in Calls, Begin(i) PROVE BatchInv'
  <2>1. Shape'
    BY <1>8 DEF Begin
  <2>2. TasksInv'
    BY <1>8 DEF Begin, TasksInv
  <2>3. InlineInv'
    BY <1>8 DEF Begin, TasksInv, InlineInv, RaiseInv
  <2>4. ParallelInv'
    BY <1>8 DEF Begin, InlineInv, ParallelInv, ResultsInSourceOrder
  <2>5. RaiseInv' /\ UnwindInv'
    BY <1>8 DEF Begin, RaiseInv, UnwindInv
  <2>6. ResultsInSourceOrder'
    BY <1>8 DEF Begin, InlineInv, ParallelInv, ResultsInSourceOrder, TasksInv
  <2>7. QED
    BY <2>1, <2>2, <2>3, <2>4, <2>5, <2>6
<1>9. ASSUME NEW i \in Calls, Progress(i) \/ EmitUpdate(i) PROVE BatchInv'
  <2>1. Shape'
    BY <1>9 DEF Progress, EmitUpdate
  <2>2. TasksInv'
    BY <1>9 DEF Progress, EmitUpdate, TasksInv
  <2>3. InlineInv'
    BY <1>9 DEF Progress, EmitUpdate, TasksInv, InlineInv, RaiseInv
  <2>4. ParallelInv'
    BY <1>9 DEF Progress, EmitUpdate, InlineInv, ParallelInv, ResultsInSourceOrder
  <2>5. RaiseInv' /\ UnwindInv'
    BY <1>9 DEF Progress, EmitUpdate, RaiseInv, UnwindInv
  <2>6. ResultsInSourceOrder'
    BY <1>9 DEF Progress, EmitUpdate, InlineInv, ParallelInv, ResultsInSourceOrder, TasksInv
  <2>7. QED
    BY <2>1, <2>2, <2>3, <2>4, <2>5, <2>6
<1>10. ASSUME NEW i \in Calls, Complete(i) PROVE BatchInv'
  <2>1. Shape'
    BY <1>10 DEF Complete
  <2>2. TasksInv'
    BY <1>10 DEF Complete, TasksInv
  <2>3. InlineInv'
    BY <1>10 DEF Complete, TasksInv, InlineInv, RaiseInv
  <2>4. ParallelInv'
    BY <1>10 DEF Complete, InlineInv, ParallelInv, ResultsInSourceOrder
  <2>5. RaiseInv' /\ UnwindInv'
    BY <1>10 DEF Complete, RaiseInv, UnwindInv
  <2>6. ResultsInSourceOrder'
    BY <1>10 DEF Complete, InlineInv, ParallelInv, ResultsInSourceOrder, TasksInv
  <2>7. QED
    BY <2>1, <2>2, <2>3, <2>4, <2>5, <2>6
<1>11. ASSUME NEW i \in Calls, Settle(i) PROVE BatchInv'
  <2>1. Shape'
    BY <1>11 DEF Settle
  <2>2. TasksInv'
    BY <1>11 DEF Settle, TasksInv
  <2>3. InlineInv'
    BY <1>11 DEF Settle, TasksInv, InlineInv, RaiseInv
  <2>4. ParallelInv'
    BY <1>11 DEF Settle, InlineInv, ParallelInv, ResultsInSourceOrder
  <2>5. RaiseInv' /\ UnwindInv'
    BY <1>11 DEF Settle, RaiseInv, UnwindInv
  <2>6. ResultsInSourceOrder'
    BY <1>11 DEF Settle, InlineInv, ParallelInv, ResultsInSourceOrder, TasksInv
  <2>7. QED
    BY <2>1, <2>2, <2>3, <2>4, <2>5, <2>6
<1>12. ASSUME NEW i \in Calls, AfterCall(i) PROVE BatchInv'
  <2>1. /\ DOMAIN finished = 1 .. Len(finished) /\ Len(finished) \in Nat
        /\ finished' \in Seq(Calls) /\ DOMAIN finished' = 1 .. Len(finished) + 1
        /\ finished'[Len(finished) + 1] = i
        /\ \A k \in 1 .. Len(finished) : finished'[k] = finished[k]
    BY <1>12, AppendFacts DEF AfterCall
  <2>2. /\ stage' \in [Calls -> Stages]
        /\ stage[i] = "after" /\ stage'[i] \in {"finished", "raised"} /\ i \notin killed
        /\ stage'[i] = "raised" => HooksMayFail
        /\ \A j \in Calls \ {i} : stage'[j] = stage[j]
    BY <1>12 DEF AfterCall
  <2>3. UNCHANGED <<mode, cancelled, ctl, cur, killed, results>>
    BY <1>12 DEF AfterCall
  <2>4. Shape'
    BY <2>1, <2>2, <2>3
  <2>5. TasksInv'
    <3>1. \A k \in 1 .. Len(finished) : finished[k] \in Calls \ {i}
      BY <1>b, <2>1, <2>2 DEF TasksInv
    <3>2. \A k \in DOMAIN finished' : stage'[finished'[k]] \in {"finished", "raised"}
      BY <2>1, <2>2, <3>1, SMTT(30) DEF TasksInv
    <3>3. \A j, k \in DOMAIN finished' : finished'[j] = finished'[k] => j = k
      <4>1. \A j, k \in 1 .. Len(finished) : finished'[j] = finished'[k] => j = k
        BY <2>1 DEF TasksInv
      <4>2. \A j \in 1 .. Len(finished) : finished'[j] # i
        BY <2>1, <3>1
      <4>3. \A j \in DOMAIN finished' : j \in 1 .. Len(finished) \/ j = Len(finished) + 1
        BY <2>1
      <4>4. QED
        BY <2>1, <4>1, <4>2, <4>3
    <3>4. QED
      BY <2>2, <2>3, <3>2, <3>3 DEF TasksInv
  <2>6. InlineInv'
    <3>1. Inline => i = cur
      BY <2>2 DEF InlineInv
    <3>2. Inline => \A k \in DOMAIN finished' : finished'[k] = cur
      <4>1. Inline => \A k \in DOMAIN finished : finished[k] = cur
        BY DEF InlineInv
      <4>2. \A k \in DOMAIN finished' : k \in 1 .. Len(finished) \/ k = Len(finished) + 1
        BY <2>1
      <4>3. \A k \in DOMAIN finished' :
               finished'[k] = i \/ (k \in DOMAIN finished /\ finished'[k] = finished[k])
        BY <2>1, <4>2
      <4>4. QED
        BY <3>1, <4>1, <4>3, SMTT(30)
    <3>3. QED
      BY <2>2, <2>3, <3>1, <3>2 DEF InlineInv
  <2>7. ParallelInv'
    BY <2>2, <2>3 DEF ParallelInv
  <2>8. RaiseInv' /\ UnwindInv'
    BY <2>2, <2>3 DEF RaiseInv, UnwindInv
  <2>9. ResultsInSourceOrder'
    BY <1>b, <2>2, <2>3 DEF ResultsInSourceOrder
  <2>10. QED
    BY <2>4, <2>5, <2>6, <2>7, <2>8, <2>9
<1>13. ASSUME NEW i \in Calls, Notice(i) PROVE BatchInv'
  <2>1. Shape'
    BY <1>13 DEF Notice
  <2>2. TasksInv'
    BY <1>13 DEF Notice, TasksInv
  <2>3. InlineInv'
    BY <1>13 DEF Notice, TasksInv, InlineInv, RaiseInv
  <2>4. ParallelInv'
    BY <1>13 DEF Notice, TasksInv, ParallelInv
  <2>5. RaiseInv' /\ UnwindInv'
    BY <1>13 DEF Notice, TasksInv, InlineInv, RaiseInv, UnwindInv
  <2>6. ResultsInSourceOrder'
    BY <1>13 DEF Notice, InlineInv, ParallelInv, ResultsInSourceOrder, TasksInv
  <2>7. QED
    BY <2>1, <2>2, <2>3, <2>4, <2>5, <2>6
<1>14. CASE Collect
  <2>1. Shape'
    BY <1>14, HeadTailFacts DEF Collect
  <2>2. TasksInv'
    BY <1>14, HeadTailFacts DEF Collect, TasksInv
  <2>3. InlineInv'
    BY <1>14, HeadTailFacts DEF Collect, TasksInv, InlineInv, RaiseInv
  <2>4. ParallelInv'
    BY <1>14, HeadTailFacts DEF Collect, InlineInv, ParallelInv, ResultsInSourceOrder
  <2>5. RaiseInv' /\ UnwindInv'
    BY <1>14, HeadTailFacts DEF Collect, RaiseInv, UnwindInv
  <2>6. ResultsInSourceOrder'
    BY <1>14, HeadTailFacts DEF Collect, InlineInv, ParallelInv, ResultsInSourceOrder, TasksInv
  <2>7. QED
    BY <2>1, <2>2, <2>3, <2>4, <2>5, <2>6
<1>15. CASE CollectRaised
  <2>1. /\ finished' = Tail(finished) /\ finished' \in Seq(Calls)
        /\ \A k \in DOMAIN finished' :
                k \in Nat /\ k + 1 \in DOMAIN finished /\ finished'[k] = finished[k + 1]
        /\ Head(finished) \in Calls /\ stage[Head(finished)] = "raised" /\ HooksMayFail
    BY <1>15, HeadTailFacts DEF CollectRaised, RaiseInv
  <2>2. UNCHANGED <<mode, cancelled, cur, results>> /\ ctl = "running"
    BY <1>15 DEF CollectRaised
  <2>3. CASE Inline
    <3>1. UNCHANGED <<stage, killed>> /\ ctl' = "raised"
      BY <1>15, <2>3 DEF CollectRaised
    <3>2. Shape' /\ TasksInv'
      BY <2>1, <2>2, <3>1, SMTT(30) DEF TasksInv
    <3>3. InlineInv' /\ ParallelInv'
      BY <2>1, <2>2, <2>3, <3>1 DEF InlineInv, ParallelInv
    <3>4. RaiseInv' /\ UnwindInv' /\ ResultsInSourceOrder'
      BY <2>2, <3>1 DEF RaiseInv, UnwindInv, ResultsInSourceOrder
    <3>5. QED
      BY <3>2, <3>3, <3>4
  <2>4. CASE ~ Inline
    <3>1. /\ ctl' = "unwinding"
          /\ stage' = [i \in Calls |-> IF stage[i] = "queued" THEN "cancelled" ELSE stage[i]]
          /\ killed' = {i \in Calls : stage[i] \in Live \ {"queued"}}
      BY <1>15, <2>4 DEF CollectRaised
    <3>2. Shape'
      BY <2>1, <2>2, <3>1
    <3>3. TasksInv'
      BY <1>b, <2>1, <3>1 DEF TasksInv
    <3>4. InlineInv' /\ ParallelInv'
      BY <2>2, <2>4, <3>1 DEF InlineInv, ParallelInv
    <3>5. RaiseInv' /\ UnwindInv'
      BY <2>1, <2>2, <2>4, <3>1 DEF RaiseInv, UnwindInv
    <3>6. results = <<>>
      BY <2>2, <2>4 DEF ParallelInv
    <3>7. ResultsInSourceOrder'
      BY <2>2, <3>6 DEF ResultsInSourceOrder
    <3>8. QED
      BY <3>2, <3>3, <3>4, <3>5, <3>7
  <2>5. QED
    BY <2>3, <2>4
<1>16. CASE Unwound
  <2>1. Shape'
    BY <1>16 DEF Unwound
  <2>2. TasksInv'
    BY <1>16 DEF Unwound, TasksInv
  <2>3. InlineInv'
    BY <1>16 DEF Unwound, TasksInv, InlineInv, RaiseInv
  <2>4. ParallelInv'
    BY <1>16 DEF Unwound, InlineInv, ParallelInv, ResultsInSourceOrder
  <2>5. RaiseInv' /\ UnwindInv'
    BY <1>16 DEF Unwound, RaiseInv, UnwindInv
  <2>6. ResultsInSourceOrder'
    BY <1>16 DEF Unwound, InlineInv, ParallelInv, ResultsInSourceOrder, TasksInv
  <2>7. QED
    BY <2>1, <2>2, <2>3, <2>4, <2>5, <2>6
<1>17. CASE AllCollected
  <2>1. Shape'
    BY <1>17 DEF AllCollected
  <2>2. TasksInv'
    BY <1>17 DEF AllCollected, TasksInv
  <2>3. InlineInv'
    BY <1>17 DEF AllCollected, TasksInv, InlineInv, RaiseInv
  <2>4. ParallelInv'
    BY <1>17 DEF AllCollected, InlineInv, ParallelInv, ResultsInSourceOrder
  <2>5. RaiseInv' /\ UnwindInv'
    BY <1>17 DEF AllCollected, RaiseInv, UnwindInv
  <2>6. ResultsInSourceOrder'
    BY <1>17 DEF AllCollected, InlineInv, ParallelInv, ResultsInSourceOrder, TasksInv
  <2>7. QED
    BY <2>1, <2>2, <2>3, <2>4, <2>5, <2>6
<1>18. CASE Report
  <2>1. Shape'
    BY <1>18, AppendFacts DEF Report, InlineInv, ParallelInv
  <2>2. TasksInv'
    BY <1>18, AppendFacts DEF Report, TasksInv
  <2>3. InlineInv'
    BY <1>18, AppendFacts DEF Report, TasksInv, InlineInv, RaiseInv
  <2>4. ParallelInv'
    BY <1>18, AppendFacts DEF Report, InlineInv, ParallelInv, ResultsInSourceOrder
  <2>5. RaiseInv' /\ UnwindInv'
    BY <1>18, AppendFacts DEF Report, RaiseInv, UnwindInv
  <2>6. ResultsInSourceOrder'
    BY <1>18, AppendFacts DEF Report, InlineInv, ParallelInv, ResultsInSourceOrder, TasksInv
  <2>7. QED
    BY <2>1, <2>2, <2>3, <2>4, <2>5, <2>6
<1>19. CASE NextCall
  <2>1. Shape'
    BY <1>19 DEF NextCall, InlineInv
  <2>2. TasksInv'
    BY <1>19 DEF NextCall, TasksInv
  <2>3. InlineInv'
    <3>1. CASE Len(results) = N \/ (mode = "sequential" /\ cancelled)
      BY <1>19, <3>1 DEF NextCall, InlineInv
    <3>2. CASE Inline /\ ~ (Len(results) = N \/ (mode = "sequential" /\ cancelled))
      <4>1. ctl' = "preflight" /\ cur' = cur + 1 /\ ctl = "check"
            /\ UNCHANGED <<mode, stage, finished, killed, results>>
        BY <1>19, <3>2 DEF NextCall
      <4>2. cur' \in Calls /\ Len(results) = cur
        BY <3>2, <4>1 DEF InlineInv
      <4>3. \A j \in Calls : stage[j] \notin Live \cup {"finished", "raised"}
        BY <3>2, <4>1 DEF InlineInv
      <4>4. DOMAIN finished = {}
        BY <1>b, <4>3 DEF TasksInv
      <4>5. QED
        BY <3>2, <4>1, <4>2, <4>3, <4>4 DEF InlineInv
    <3>3. CASE ~ Inline
      BY <1>19, <3>3 DEF NextCall, InlineInv
    <3>4. QED
      BY <3>1, <3>2, <3>3
  <2>4. ParallelInv'
    BY <1>19 DEF NextCall, InlineInv, ParallelInv, ResultsInSourceOrder
  <2>5. RaiseInv' /\ UnwindInv'
    BY <1>19 DEF NextCall, RaiseInv, UnwindInv
  <2>6. ResultsInSourceOrder'
    BY <1>19 DEF NextCall, InlineInv, ParallelInv, ResultsInSourceOrder, TasksInv
  <2>7. QED
    BY <2>1, <2>2, <2>3, <2>4, <2>5, <2>6
<1>20. CASE UNCHANGED vars
  <2>1. Shape'
    BY <1>20 DEF vars
  <2>2. TasksInv'
    BY <1>20 DEF vars, TasksInv
  <2>3. InlineInv'
    BY <1>20 DEF vars, TasksInv, InlineInv, RaiseInv
  <2>4. ParallelInv'
    BY <1>20 DEF vars, InlineInv, ParallelInv, ResultsInSourceOrder
  <2>5. RaiseInv' /\ UnwindInv'
    BY <1>20 DEF vars, RaiseInv, UnwindInv
  <2>6. ResultsInSourceOrder'
    BY <1>20 DEF vars, InlineInv, ParallelInv, ResultsInSourceOrder, TasksInv
  <2>7. QED
    BY <2>1, <2>2, <2>3, <2>4, <2>5, <2>6
<1>21. QED
  BY <1>1, <1>2, <1>3, <1>4, <1>5, <1>6, <1>7, <1>8, <1>9, <1>10, <1>11, <1>12, <1>13, <1>14, <1>15, <1>16, <1>17, <1>18, <1>19, <1>20 DEF Next, Control, Task

(* Updates belong to calls that execute or settle, and the UI shows as pending only calls
   that were announced and have not ended. *)
UpdatesInv ==
    /\ updates \in [Calls -> Nat]
    /\ \A i \in Calls : updates[i] # 0 => stage[i] \in {"executing", "settling"}

PendingInv ==
    /\ pending \in SUBSET Calls
    /\ \A i \in pending : stage[i] \notin {"new", "ended"}

(* Only the controller's call is in progress, and none once it has returned. *)
InlineTidy ==
    Inline =>
        /\ \A i \in Calls : i # cur => stage[i] \in {"new", "ended"}
        /\ ctl \in {"check", "done"} => \A i \in Calls : stage[i] \in {"new", "ended"}
        /\ ctl = "raised" => \A i \in Calls : stage[i] \notin Live

(* First every call is prepared, then the tasks are created, and none is left at the end. *)
ParallelTidy ==
    ~ Inline =>
        /\ ctl = "preflight" => \A i \in Calls :
                /\ i < cur => stage[i] \in {"prepared", "ended"}
                /\ i > cur => stage[i] = "new"
                /\ stage[i] \notin Live
        /\ ctl # "preflight" => \A i \in Calls : stage[i] \notin Preparing
        /\ ctl = "raised" => \A i \in Calls : stage[i] \notin Live

TidyInv == UpdatesInv /\ PendingInv /\ InlineTidy /\ ParallelTidy

LEMMA InitTidyInv == Init => TidyInv
<1> SUFFICES ASSUME Init PROVE TidyInv
  OBVIOUS
<1>1. N \in Nat \ {0}
  BY CallsAssumption
<1>2. QED
  BY <1>1 DEF Init, TidyInv, UpdatesInv, PendingInv, InlineTidy, ParallelTidy, Inline, Calls, Live,
              Preparing

LEMMA StepKeepsTidy == BatchInv /\ TidyInv /\ [Next]_vars => TidyInv'
<1> SUFFICES ASSUME BatchInv, TidyInv, [Next]_vars PROVE TidyInv'
  OBVIOUS
<1>a. N \in Nat \ {0}
  BY CallsAssumption
<1>b. finished # <<>> => Head(finished) \in Calls /\ Head(finished) = finished[1] /\ 1 \in DOMAIN finished
  BY HeadTailFacts DEF BatchInv, Shape
<1> USE <1>a DEF BatchInv, TidyInv, Shape, Calls, Inline, Live, Stages, Preparing, Controls, To,
                 Runs, taskVars
<1>1. CASE Abort
  <2>1. UpdatesInv'
    BY <1>1 DEF Abort, UpdatesInv
  <2>2. PendingInv'
    BY <1>1 DEF Abort, PendingInv
  <2>3. InlineTidy'
    BY <1>1 DEF Abort, InlineInv, InlineTidy, TasksInv
  <2>4. ParallelTidy'
    BY <1>1 DEF Abort, ParallelInv, ParallelTidy, TasksInv
  <2>5. QED
    BY <2>1, <2>2, <2>3, <2>4
<1>2. CASE Announce
  <2>1. UpdatesInv'
    BY <1>2 DEF Announce, UpdatesInv
  <2>2. PendingInv'
    BY <1>2 DEF Announce, PendingInv
  <2>3. InlineTidy'
    BY <1>2 DEF Announce, InlineInv, InlineTidy, TasksInv
  <2>4. ParallelTidy'
    BY <1>2 DEF Announce, ParallelInv, ParallelTidy, TasksInv
  <2>5. QED
    BY <2>1, <2>2, <2>3, <2>4
<1>3. CASE CheckCall
  <2>1. UpdatesInv'
    BY <1>3 DEF CheckCall, UpdatesInv
  <2>2. PendingInv'
    BY <1>3 DEF CheckCall, PendingInv
  <2>3. InlineTidy'
    BY <1>3 DEF CheckCall, InlineInv, InlineTidy, TasksInv
  <2>4. ParallelTidy'
    BY <1>3 DEF CheckCall, ParallelInv, ParallelTidy, TasksInv
  <2>5. QED
    BY <2>1, <2>2, <2>3, <2>4
<1>4. CASE AllowCall
  <2>1. UpdatesInv'
    BY <1>4 DEF AllowCall, UpdatesInv
  <2>2. PendingInv'
    BY <1>4 DEF AllowCall, PendingInv
  <2>3. InlineTidy'
    BY <1>4 DEF AllowCall, InlineInv, InlineTidy, TasksInv
  <2>4. ParallelTidy'
    BY <1>4 DEF AllowCall, ParallelInv, ParallelTidy, TasksInv
  <2>5. QED
    BY <2>1, <2>2, <2>3, <2>4
<1>5. CASE RefuseCall
  <2>1. UpdatesInv'
    BY <1>5 DEF RefuseCall, UpdatesInv
  <2>2. PendingInv'
    BY <1>5 DEF RefuseCall, PendingInv
  <2>3. InlineTidy'
    BY <1>5 DEF RefuseCall, InlineInv, InlineTidy, TasksInv
  <2>4. ParallelTidy'
    BY <1>5 DEF RefuseCall, ParallelInv, ParallelTidy, TasksInv
  <2>5. QED
    BY <2>1, <2>2, <2>3, <2>4
<1>6. CASE EndRefused
  <2>1. UpdatesInv'
    BY <1>6 DEF EndRefused, UpdatesInv
  <2>2. PendingInv'
    BY <1>6 DEF EndRefused, PendingInv
  <2>3. InlineTidy'
    BY <1>6 DEF EndRefused, InlineInv, InlineTidy, TasksInv
  <2>4. ParallelTidy'
    BY <1>6 DEF EndRefused, ParallelInv, ParallelTidy, TasksInv
  <2>5. QED
    BY <2>1, <2>2, <2>3, <2>4
<1>7. CASE Spawn
  <2>1. UpdatesInv'
    BY <1>7 DEF Spawn, UpdatesInv
  <2>2. PendingInv'
    BY <1>7 DEF Spawn, PendingInv
  <2>3. InlineTidy'
    BY <1>7 DEF Spawn, InlineInv, InlineTidy, TasksInv
  <2>4. ParallelTidy'
    BY <1>7 DEF Spawn, ParallelInv, ParallelTidy, TasksInv
  <2>5. QED
    BY <2>1, <2>2, <2>3, <2>4
<1>8. ASSUME NEW i \in Calls, Begin(i) PROVE TidyInv'
  <2>1. UpdatesInv'
    BY <1>8 DEF Begin, UpdatesInv
  <2>2. PendingInv'
    BY <1>8 DEF Begin, PendingInv
  <2>3. InlineTidy'
    BY <1>8 DEF Begin, InlineInv, InlineTidy, TasksInv
  <2>4. ParallelTidy'
    BY <1>8 DEF Begin, ParallelInv, ParallelTidy, TasksInv
  <2>5. QED
    BY <2>1, <2>2, <2>3, <2>4
<1>9. ASSUME NEW i \in Calls, Progress(i) PROVE TidyInv'
  <2>1. UpdatesInv'
    BY <1>9 DEF Progress, UpdatesInv
  <2>2. PendingInv'
    BY <1>9 DEF Progress, PendingInv
  <2>3. InlineTidy'
    BY <1>9 DEF Progress, InlineInv, InlineTidy, TasksInv
  <2>4. ParallelTidy'
    BY <1>9 DEF Progress, ParallelInv, ParallelTidy, TasksInv
  <2>5. QED
    BY <2>1, <2>2, <2>3, <2>4
<1>10. ASSUME NEW i \in Calls, EmitUpdate(i) PROVE TidyInv'
  <2>1. UpdatesInv'
    BY <1>10 DEF EmitUpdate, UpdatesInv
  <2>2. PendingInv'
    BY <1>10 DEF EmitUpdate, PendingInv
  <2>3. InlineTidy'
    BY <1>10 DEF EmitUpdate, InlineInv, InlineTidy, TasksInv
  <2>4. ParallelTidy'
    BY <1>10 DEF EmitUpdate, ParallelInv, ParallelTidy, TasksInv
  <2>5. QED
    BY <2>1, <2>2, <2>3, <2>4
<1>11. ASSUME NEW i \in Calls, Complete(i) PROVE TidyInv'
  <2>1. UpdatesInv'
    BY <1>11 DEF Complete, UpdatesInv
  <2>2. PendingInv'
    BY <1>11 DEF Complete, PendingInv
  <2>3. InlineTidy'
    BY <1>11 DEF Complete, InlineInv, InlineTidy, TasksInv
  <2>4. ParallelTidy'
    BY <1>11 DEF Complete, ParallelInv, ParallelTidy, TasksInv
  <2>5. QED
    BY <2>1, <2>2, <2>3, <2>4
<1>12. ASSUME NEW i \in Calls, Settle(i) PROVE TidyInv'
  <2>1. UpdatesInv'
    BY <1>12 DEF Settle, UpdatesInv
  <2>2. PendingInv'
    BY <1>12 DEF Settle, PendingInv
  <2>3. InlineTidy'
    BY <1>12 DEF Settle, InlineInv, InlineTidy, TasksInv
  <2>4. ParallelTidy'
    BY <1>12 DEF Settle, ParallelInv, ParallelTidy, TasksInv
  <2>5. QED
    BY <2>1, <2>2, <2>3, <2>4
<1>13. ASSUME NEW i \in Calls, AfterCall(i) PROVE TidyInv'
  <2>1. UpdatesInv'
    BY <1>13 DEF AfterCall, UpdatesInv
  <2>2. PendingInv'
    BY <1>13 DEF AfterCall, PendingInv
  <2>3. InlineTidy'
    BY <1>13 DEF AfterCall, InlineInv, InlineTidy, TasksInv
  <2>4. ParallelTidy'
    BY <1>13 DEF AfterCall, ParallelInv, ParallelTidy, TasksInv
  <2>5. QED
    BY <2>1, <2>2, <2>3, <2>4
<1>14. ASSUME NEW i \in Calls, Notice(i) PROVE TidyInv'
  <2>1. UpdatesInv'
    BY <1>14 DEF Notice, UpdatesInv
  <2>2. PendingInv'
    BY <1>14 DEF Notice, PendingInv
  <2>3. InlineTidy'
    BY <1>14 DEF Notice, InlineInv, InlineTidy, TasksInv
  <2>4. ParallelTidy'
    BY <1>14 DEF Notice, ParallelInv, ParallelTidy, TasksInv
  <2>5. QED
    BY <2>1, <2>2, <2>3, <2>4
<1>15. CASE Collect
  <2>1. UpdatesInv'
    BY <1>15, <1>b, SMTT(30) DEF Collect, UpdatesInv, TasksInv
  <2>2. PendingInv'
    <3>1. PICK h \in Calls : pending' = pending \ {h} /\ stage' = [stage EXCEPT ![h] = "ended"]
      BY <1>15, <1>b DEF Collect
    <3>2. \A i \in pending' : i \in pending /\ stage'[i] = stage[i]
      BY <3>1 DEF PendingInv
    <3>. QED BY <3>1, <3>2 DEF PendingInv
  <2>3. InlineTidy'
    BY <1>15, <1>b, SMTT(30) DEF Collect, InlineInv, InlineTidy, TasksInv
  <2>4. ParallelTidy'
    BY <1>15, <1>b, SMTT(30) DEF Collect, ParallelInv, ParallelTidy, TasksInv
  <2>5. QED
    BY <2>1, <2>2, <2>3, <2>4
<1>16. CASE CollectRaised
  <2>1. UpdatesInv'
    <3>1. updates' = updates
      BY <1>16 DEF CollectRaised
    <3>2. \A i \in Calls : stage[i] # "queued" => stage'[i] = stage[i]
      BY <1>16 DEF CollectRaised
    <3>. QED BY <3>1, <3>2 DEF UpdatesInv
  <2>2. PendingInv'
    BY <1>16, <1>b, SMTT(30) DEF CollectRaised, PendingInv, TasksInv
  <2>3. InlineTidy'
    BY <1>16, <1>b, SMTT(30) DEF CollectRaised, InlineInv, InlineTidy, TasksInv
  <2>4. ParallelTidy'
    BY <1>16, <1>b, SMTT(30) DEF CollectRaised, ParallelInv, ParallelTidy, TasksInv
  <2>5. QED
    BY <2>1, <2>2, <2>3, <2>4
<1>17. CASE Unwound
  <2>1. UpdatesInv'
    BY <1>17 DEF Unwound, UpdatesInv
  <2>2. PendingInv'
    BY <1>17 DEF Unwound, PendingInv
  <2>3. InlineTidy'
    BY <1>17 DEF Unwound, InlineInv, InlineTidy, TasksInv
  <2>4. ParallelTidy'
    BY <1>17 DEF Unwound, ParallelInv, ParallelTidy, TasksInv
  <2>5. QED
    BY <2>1, <2>2, <2>3, <2>4
<1>18. CASE AllCollected
  <2>1. UpdatesInv'
    BY <1>18 DEF AllCollected, UpdatesInv
  <2>2. PendingInv'
    BY <1>18 DEF AllCollected, PendingInv
  <2>3. InlineTidy'
    BY <1>18 DEF AllCollected, InlineInv, InlineTidy, TasksInv
  <2>4. ParallelTidy'
    BY <1>18 DEF AllCollected, ParallelInv, ParallelTidy, TasksInv
  <2>5. QED
    BY <2>1, <2>2, <2>3, <2>4
<1>19. CASE Report
  <2>1. UpdatesInv'
    BY <1>19 DEF Report, UpdatesInv
  <2>2. PendingInv'
    BY <1>19 DEF Report, PendingInv
  <2>3. InlineTidy'
    BY <1>19 DEF Report, InlineInv, InlineTidy, TasksInv
  <2>4. ParallelTidy'
    BY <1>19 DEF Report, ParallelInv, ParallelTidy, TasksInv
  <2>5. QED
    BY <2>1, <2>2, <2>3, <2>4
<1>20. CASE NextCall
  <2>1. UpdatesInv'
    BY <1>20 DEF NextCall, UpdatesInv
  <2>2. PendingInv'
    BY <1>20 DEF NextCall, PendingInv
  <2>3. InlineTidy'
    BY <1>20 DEF NextCall, InlineInv, InlineTidy, TasksInv
  <2>4. ParallelTidy'
    BY <1>20 DEF NextCall, ParallelInv, ParallelTidy, TasksInv
  <2>5. QED
    BY <2>1, <2>2, <2>3, <2>4
<1>21. CASE UNCHANGED vars
  <2>1. UpdatesInv'
    BY <1>21 DEF vars, UpdatesInv
  <2>2. PendingInv'
    BY <1>21 DEF vars, PendingInv
  <2>3. InlineTidy'
    BY <1>21 DEF vars, InlineInv, InlineTidy, TasksInv
  <2>4. ParallelTidy'
    BY <1>21 DEF vars, ParallelInv, ParallelTidy, TasksInv
  <2>5. QED
    BY <2>1, <2>2, <2>3, <2>4
<1>22. QED
  BY <1>1, <1>2, <1>3, <1>4, <1>5, <1>6, <1>7, <1>8, <1>9, <1>10, <1>11, <1>12, <1>13, <1>14, <1>15, <1>16, <1>17, <1>18, <1>19, <1>20, <1>21 DEF Next, Control, Task

(* The results of a batch enter the transcript in source order, for any number of calls. *)
THEOREM SourceOrder == Spec => []ResultsInSourceOrder
<1>1. BatchInv => ResultsInSourceOrder
  BY DEF BatchInv
<1>2. QED
  BY InitBatchInv, StepKeepsBatch, <1>1, PTL DEF Spec

(* No update is emitted after its call has settled; nothing executes while another call is
   being prepared; and whichever way a batch ends, nothing of it is left running. *)
THEOREM BatchIsTidy == Spec => []Tidy
<1>1. BatchInv /\ TidyInv => NoLateUpdate
  BY DEF TidyInv, UpdatesInv, NoLateUpdate
<1>2. BatchInv /\ TidyInv => PreflightFirst
  BY DEF TidyInv, ParallelTidy, PreflightFirst, Inline
<1>3. ASSUME BatchInv, TidyInv PROVE NothingLeftRunning
  <2>1. \A i \in Calls : ctl \in {"done", "raised"} => stage[i] \notin Live
    BY <1>3 DEF BatchInv, TidyInv, InlineTidy, ParallelInv, ParallelTidy, Live
  <2>2. \A i \in Calls : ctl \in {"done", "raised"} => updates[i] = 0
    BY <1>3, <2>1 DEF TidyInv, UpdatesInv, Live
  <2>3. ctl = "done" => \A i \in Calls : stage[i] \in {"new", "ended"}
    BY <1>3 DEF BatchInv, TidyInv, InlineTidy, ParallelInv
  <2>4. ctl = "done" => pending = {}
    BY <1>3, <2>3 DEF TidyInv, PendingInv
  <2>5. QED
    BY <2>1, <2>2, <2>4 DEF NothingLeftRunning
<1>4. BatchInv /\ TidyInv => Tidy
  BY <1>1, <1>2, <1>3 DEF Tidy
<1>5. QED
  BY InitBatchInv, StepKeepsBatch, InitTidyInv, StepKeepsTidy, <1>4, PTL DEF Spec

(* Once the run is aborted, no call of the batch begins to execute. *)
THEOREM AbortIsObeyed == Spec => AbortStartsNothing
<1>1. ASSUME BatchInv, [Next]_vars
      PROVE  \A i \in Calls : cancelled /\ stage[i] # "executing" => stage'[i] # "executing"
  <2> SUFFICES ASSUME NEW j \in Calls, cancelled, stage[j] # "executing"
               PROVE stage'[j] # "executing"
    OBVIOUS
  <2>a. stage \in [Calls -> Stages]
    BY <1>1 DEF BatchInv, Shape
  <2>1. ASSUME NEW i \in Calls, NEW s, To(i, s), s # "executing" PROVE stage'[j] # "executing"
    BY <2>1, <2>a DEF To
  <2>2. ASSUME NEW i \in Calls, Task(i) PROVE stage'[j] # "executing"
    <3>1. CASE Begin(i)
      <4>1. To(i, "settling")
        BY <3>1 DEF Begin
      <4>2. QED
        BY <2>1, <4>1
    <3>2. CASE Settle(i)
      BY <3>2, <2>1 DEF Settle
    <3>3. CASE AfterCall(i)
      BY <3>3, <2>1 DEF AfterCall
    <3>4. CASE Notice(i)
      <4>1. To(i, "settling") \/ To(i, "cancelled")
        BY <3>4 DEF Notice
      <4>2. QED
        BY <2>1, <4>1
    <3>5. QED
      BY <2>2, <3>1, <3>2, <3>3, <3>4 DEF Task
  <2>3. ASSUME NEW i \in Calls, Complete(i) \/ Progress(i) \/ EmitUpdate(i)
        PROVE stage'[j] # "executing"
    <3>1. CASE Complete(i)
      BY <3>1, <2>1 DEF Complete
    <3>2. CASE Progress(i) \/ EmitUpdate(i)
      BY <3>2 DEF Progress, EmitUpdate
    <3>3. QED
      BY <2>3, <3>1, <3>2
  <2>4. CASE Announce
    <3>1. cur \in Calls /\ (To(cur, "refused") \/ To(cur, "checking"))
      BY <2>4 DEF Announce
    <3>2. QED
      BY <2>1, <3>1
  <2>5. CASE CheckCall
    <3>1. cur \in Calls /\ (To(cur, "hooks") \/ To(cur, "refused"))
      BY <2>5 DEF CheckCall
    <3>2. QED
      BY <2>1, <3>1
  <2>6. CASE AllowCall
    <3>1. cur \in Calls /\ (To(cur, "queued") \/ To(cur, "prepared"))
      BY <2>6 DEF AllowCall
    <3>2. QED
      BY <2>1, <3>1
  <2>7. CASE RefuseCall
    BY <2>7, <2>1 DEF RefuseCall
  <2>8. CASE EndRefused
    BY <2>8, <2>1 DEF EndRefused
  <2>9. CASE Collect
    BY <1>1, <2>9, <2>a DEF Collect, To, BatchInv, Shape
  <2>10. CASE Spawn \/ CollectRaised
    BY <2>10 DEF Spawn, CollectRaised
  <2>11. CASE Abort \/ Unwound \/ AllCollected \/ Report \/ NextCall \/ UNCHANGED vars
    BY <2>11 DEF Abort, Unwound, AllCollected, Report, NextCall, vars
  <2>12. QED
    BY <1>1, <2>2, <2>3, <2>4, <2>5, <2>6, <2>7, <2>8, <2>9, <2>10, <2>11 DEF Next, Control
<1>2. QED
  BY InitBatchInv, StepKeepsBatch, <1>1, PTL DEF Spec, AbortStartsNothing

(* The batch as the loop sees it: a step appends one result, ends the batch the way the
   contract allows, aborts, or does nothing that shows. *)
LEMMA StepKeepsContract == BatchInv /\ [Next]_vars => [Contract!Next]_(Contract!vars)
<1> SUFFICES ASSUME BatchInv, [Next]_vars PROVE [Contract!Next]_(Contract!vars)
  OBVIOUS
<1> DEFINE verdict == IF ctl \in {"done", "raised"} THEN ctl ELSE "open"
<1>a. N \in Nat \ {0} /\ Len(results) \in 0 .. N
  BY AtMostN, CallsAssumption DEF BatchInv
<1>1. CASE Abort
  <2>1. Contract!Abort
    BY <1>1 DEF Abort, Contract!Abort, taskVars
  <2>2. QED
    BY <2>1 DEF Contract!Next
<1>2. CASE Report
  <2>1. /\ ctl = "reporting" /\ ctl' = "check" /\ UNCHANGED <<mode, cancelled, cur>>
        /\ results' = Append(results, IF Inline THEN cur ELSE Len(results) + 1)
    BY <1>2 DEF Report
  <2>2. Len(results) < N /\ (IF Inline THEN cur ELSE Len(results) + 1) \in Calls
    BY <1>a, <2>1 DEF BatchInv, InlineInv, ParallelInv, Calls
  <2>3. Len(results') = Len(results) + 1
    BY <2>1, <2>2, AppendFacts DEF BatchInv, Shape
  <2>4. Contract!AppendResult
    BY <2>1, <2>2, <2>3 DEF Contract!AppendResult
  <2>5. QED
    BY <2>4 DEF Contract!Next
<1>3. CASE NextCall
  <2>1. CASE ctl' = "done"
    <3>1. ctl = "check" /\ UNCHANGED <<mode, cancelled, results>>
      BY <1>3 DEF NextCall
    <3>2. Len(results) = N \/ (mode = "sequential" /\ cancelled)
      BY <1>3, <2>1 DEF NextCall
    <3>3. mode = "sequential" => Len(results) > 0
      BY <1>a, <3>1 DEF BatchInv, InlineInv, Inline, Calls
    <3>4. Contract!Return
      BY <2>1, <3>1, <3>2, <3>3 DEF Contract!Return
    <3>5. QED
      BY <3>4 DEF Contract!Next
  <2>2. CASE ctl' # "done"
    BY <1>3, <2>2 DEF NextCall, Contract!vars
  <2>3. QED
    BY <2>1, <2>2
<1>4. CASE CollectRaised
  <2>1. CASE Inline
    <3>1. ctl = "running" /\ ctl' = "raised" /\ UNCHANGED <<mode, cancelled, results>>
      BY <1>4, <2>1 DEF CollectRaised
    <3>2. Head(finished) \in Calls /\ stage[Head(finished)] = "raised"
      BY <1>4, HeadTailFacts DEF CollectRaised, BatchInv, Shape
    <3>3. HooksMayFail /\ mode = "sequential"
      BY <2>1, <3>2 DEF BatchInv, Shape, RaiseInv, Inline
    <3>4. Contract!Raise
      BY <3>1, <3>3 DEF Contract!Raise
    <3>5. QED
      BY <3>4 DEF Contract!Next
  <2>2. CASE ~ Inline
    BY <1>4, <2>2 DEF CollectRaised, Contract!vars
  <2>3. QED
    BY <2>1, <2>2
<1>5. CASE Unwound
  <2>1. ctl = "unwinding" /\ ctl' = "raised" /\ UNCHANGED <<mode, cancelled, results>>
    BY <1>5 DEF Unwound
  <2>2. HooksMayFail /\ mode = "parallel" /\ results = <<>>
    BY <2>1 DEF BatchInv, InlineInv, ParallelInv, UnwindInv, Inline
  <2>3. Contract!Raise
    BY <2>1, <2>2 DEF Contract!Raise
  <2>4. QED
    BY <2>3 DEF Contract!Next
<1>6. CASE Announce \/ CheckCall \/ AllowCall \/ RefuseCall \/ EndRefused \/ Spawn
  BY <1>6 DEF Announce, CheckCall, AllowCall, RefuseCall, EndRefused, Spawn, Contract!vars
<1>7. CASE Collect \/ AllCollected
  BY <1>7 DEF Collect, AllCollected, Contract!vars
<1>8. ASSUME NEW i \in Calls, Task(i) \/ Complete(i) \/ Progress(i) \/ EmitUpdate(i)
      PROVE  UNCHANGED Contract!vars
  BY <1>8 DEF Task, Begin, Settle, AfterCall, Notice, Complete, Progress, EmitUpdate,
              Contract!vars
<1>9. CASE UNCHANGED vars
  BY <1>9 DEF vars, Contract!vars
<1>10. QED
  BY <1>1, <1>2, <1>3, <1>4, <1>5, <1>6, <1>7, <1>8, <1>9 DEF Next, Control

(* ToolBatch implements the safety part of BatchContract, the rules by which AgentLoop runs
   its batches, for any number of calls. *)
THEOREM ImplementsContract == Spec => Contract!Init /\ [][Contract!Next]_(Contract!vars)
<1>1. Init => Contract!Init
  BY DEF Init, Contract!Init
<1>2. QED
  BY InitBatchInv, StepKeepsBatch, StepKeepsContract, <1>1, PTL DEF Spec

-----------------------------------------------------------------------------
(* ToolPolicies: every grant is that of an answer. *)
PolicyInv ==
    /\ rules \in Seq(Rules)
    /\ told \subseteq [request : ToolRequests, pattern : Texts \cup {NoText}]
    /\ \A g \in grants : \E t \in told : g = GrantOf(t.request, t.pattern)

LEMMA LeastIndex ==
    ASSUME NEW S, S \subseteq Nat, S # {}
    PROVE  \E n \in S : \A m \in S : n <= m
<1> DEFINE R == OpToRel(<, Nat)
<1>1. IsWellFoundedOn(R, Nat)
  BY NatLessThanWellFounded
<1> HIDE DEF R
<1>2. \E n \in S : \A m \in S : ~ (<<m, n>> \in R)
  BY <1>1, WFMin
<1>3. ASSUME NEW m \in Nat, NEW n \in Nat, ~ (<<m, n>> \in R) PROVE n <= m
  BY <1>3 DEF R, OpToRel
<1> QED
  BY <1>2, <1>3

(* The first rule that matches decides. *)
LEMMA FirstDecides ==
    ASSUME PolicyInv, NEW r, Hits(r) # {}
    PROVE  \E m \in Hits(r) : Evaluate(r) = rules[m].effect /\ \A k \in Hits(r) : m <= k
<1>1. Hits(r) \subseteq Nat
  BY DEF Hits, PolicyInv
<1>2. PICK n \in Hits(r) : \A k \in Hits(r) : n <= k
  BY <1>1, LeastIndex
<1> DEFINE m == CHOOSE i \in Hits(r) : \A j \in Hits(r) : i <= j
<1>3. m \in Hits(r) /\ \A k \in Hits(r) : m <= k
  BY <1>2
<1>4. Evaluate(r) = rules[m].effect
  BY DEF Evaluate
<1> QED
  BY <1>3, <1>4

LEMMA PoliciesStart == ASSUME PoliciesAssumption, PoliciesInit PROVE PolicyInv
<1>1. grants = {} /\ told = {}
  BY DEF PoliciesInit
<1>2. rules \in Seq(Rules)
  <2>1. CASE rules = <<>>
    BY <2>1
  <2>2. CASE rules \in UNION {[1 .. n -> Rules] : n \in 0 .. MaxSaid}
    <3>1. PICK n \in 0 .. MaxSaid : rules \in [1 .. n -> Rules]
      BY <2>2
    <3>2. n \in Nat
      BY DEF PoliciesAssumption
    <3> QED
      BY <3>1, <3>2, SeqDef
  <2> QED
    BY <2>1, <2>2 DEF PoliciesInit
<1> QED
  BY <1>1, <1>2 DEF PolicyInv

LEMMA StepKeepsPolicies == ASSUME PolicyInv, [PoliciesNext]_policyVars PROVE PolicyInv'
<1>1. CASE ClearGrants
  BY <1>1 DEF ClearGrants, PolicyInv
<1>2. ASSUME NEW rule \in Rules, AddRule(rule) PROVE PolicyInv'
  BY <1>2 DEF AddRule, PolicyInv, GrantOf
<1>3. ASSUME NEW r \in ToolRequests, NEW p \in Texts \cup {NoText}, Authorize(r, p) PROVE PolicyInv'
  <2> DEFINE new == [request |-> r, pattern |-> p]
  <2>1. rules' = rules /\ grants' = grants \cup {GrantOf(r, p)} /\ told' = told \cup {new}
    BY <1>3 DEF Authorize
  <2>2. new \in [request : ToolRequests, pattern : Texts \cup {NoText}] /\ new.request = r /\ new.pattern = p
    OBVIOUS
  <2>3. ASSUME NEW g \in grants' PROVE \E t \in told' : g = GrantOf(t.request, t.pattern)
    BY <2>1, <2>2 DEF PolicyInv
  <2> HIDE DEF new
  <2> QED
    BY <2>1, <2>2, <2>3 DEF PolicyInv, GrantOf
<1>4. CASE UNCHANGED policyVars
  BY <1>4 DEF policyVars, PolicyInv, GrantOf
<1> QED
  BY <1>1, <1>2, <1>3, <1>4 DEF PoliciesNext

(* What is covered has an answer of its own, or a pattern that was given with one. *)
LEMMA CoveredByAnswer ==
    ASSUME PolicyInv, NEW r \in ToolRequests, Covered(r)
    PROVE  \/ \E t \in told : t.pattern = NoText /\ t.request = r
           \/ \E t \in told : t.pattern # NoText /\ t.request.tool = r.tool /\ Glob(t.pattern, Shown(r.text))
<1>1. PICK g \in grants : /\ g.tool = r.tool
                          /\ IF g.exact THEN g.text = r.text ELSE Glob(g.text, Shown(r.text))
  BY DEF Covered
<1>2. PICK t \in told : g = GrantOf(t.request, t.pattern)
  BY DEF PolicyInv
<1>3. t.request \in ToolRequests
  BY DEF PolicyInv
<1>4. /\ g.tool = t.request.tool
      /\ g.text = (IF t.pattern = NoText THEN t.request.text ELSE t.pattern)
      /\ g.exact = (t.pattern = NoText)
  BY <1>2 DEF GrantOf
<1>5. CASE t.pattern = NoText
  <2>1. t.request.tool = r.tool /\ t.request.text = r.text
    BY <1>1, <1>4, <1>5
  <2>2. t.request = r
    BY <1>3, <2>1 DEF ToolRequests
  <2> QED
    BY <1>5, <2>2
<1>6. CASE t.pattern # NoText
  BY <1>1, <1>4, <1>6
<1> QED
  BY <1>5, <1>6

(* An answer covers the call it was given for, and others only by a pattern that came with it;
   an earlier rule stands against a later one; and without a rule nothing destructive and
   no path out of the roots runs: for any rules, answers and texts, whatever a pattern matches
   (ApprovalManager, ApprovalGate and their policies). *)
THEOREM AnswersCoverNoMore == ASSUME PoliciesAssumption PROVE PoliciesSpec => []PoliciesSound
<1>1. PolicyInv => PoliciesSound
  <2> SUFFICES ASSUME PolicyInv PROVE PoliciesSound
    OBVIOUS
  <2>1. ASSUME NEW r \in ToolRequests, NEW i \in DOMAIN rules, NEW j \in DOMAIN rules, i < j,
               Matches(rules[i], r), Evaluate(r) = rules[j].effect
        PROVE  \E k \in 1 .. i : Matches(rules[k], r) /\ rules[k].effect = rules[j].effect
    <3>1. i \in Hits(r)
      BY <2>1 DEF Hits
    <3>2. PICK m \in Hits(r) : Evaluate(r) = rules[m].effect /\ \A k \in Hits(r) : m <= k
      BY <3>1, FirstDecides
    <3>3. m \in 1 .. i /\ Matches(rules[m], r)
      BY <3>1, <3>2 DEF Hits, PolicyInv
    <3> QED
      BY <2>1, <3>2, <3>3
  <2>2. ASSUME NEW r \in ToolRequests, ~ manager, Evaluate(r) # "deny", Hits(r) = {}
        PROVE  IF r.tool = "bash" THEN r.text \notin Destructive
               ELSE "roots" \in switches => r.text \notin Outside
    <3>1. Builtin(r) # "deny"
      BY <2>2 DEF Evaluate
    <3> QED
      BY <3>1 DEF Builtin
  <2> QED
    BY <2>1, <2>2, CoveredByAnswer DEF PoliciesSound
<1>2. PoliciesInit => PolicyInv
  BY PoliciesStart
<1>3. PolicyInv /\ [PoliciesNext]_policyVars => PolicyInv'
  BY StepKeepsPolicies
<1> QED
  BY <1>1, <1>2, <1>3, PTL DEF PoliciesSpec

-----------------------------------------------------------------------------
(* Induction, for a set of numbers. *)
LEMMA AllNumbers ==
    ASSUME NEW S, 0 \in S, \A n \in Nat : n \in S => n + 1 \in S
    PROVE  \A n \in Nat : n \in S
<1> DEFINE T == Nat \ S
<1>1. SUFFICES ASSUME T # {} PROVE FALSE
  OBVIOUS
<1>2. PICK n \in T : \A m \in T : n <= m
  BY <1>1, LeastIndex
<1>3. n \in Nat /\ n # 0 /\ n \notin S
  BY <1>2
<1>4. n - 1 \in Nat /\ n - 1 < n /\ (n - 1) + 1 = n
  BY <1>3
<1>5. n - 1 \notin T
  BY <1>2, <1>4
<1> QED
  BY <1>3, <1>4, <1>5

(* How Total is computed. *)
TotalRule(s, n, g) == g = [k \in 0 .. n |-> IF k = 0 THEN 0 ELSE g[k - 1] + s[k]]

LEMMA TotalIs == ASSUME NEW s PROVE Total(s) = (CHOOSE g : TotalRule(s, Len(s), g))[Len(s)]
BY DEF Total, TotalRule

LEMMA TotalStep ==
    ASSUME NEW s, NEW n \in Nat, NEW g, TotalRule(s, n, g)
    PROVE  g[0] = 0 /\ \A k \in 1 .. n : g[k] = g[k - 1] + s[k]
<1> DEFINE E(k) == IF k = 0 THEN 0 ELSE g[k - 1] + s[k]
           f == [k \in 0 .. n |-> E(k)]
<1>1. g = f
  BY DEF TotalRule
<1> HIDE DEF E
<1>2. \A k \in 0 .. n : f[k] = E(k)
  OBVIOUS
<1> HIDE DEF f
<1>3. \A k \in 0 .. n : g[k] = E(k)
  BY <1>1, <1>2
<1>4. 0 \in 0 .. n /\ \A k \in 1 .. n : k \in 0 .. n /\ k # 0
  OBVIOUS
<1> QED
  BY <1>3, <1>4 DEF E

LEMMA TotalsExist == ASSUME NEW s, NEW n \in Nat PROVE \E g : TotalRule(s, n, g)
<1> DEFINE S == {k \in Nat : \E g : TotalRule(s, k, g)}
<1>1. 0 \in S
  <2> DEFINE g == [k \in 0 .. 0 |-> 0]
  <2>1. TotalRule(s, 0, g)
    BY DEF TotalRule
  <2> QED
    BY <2>1
<1>2. ASSUME NEW k \in Nat, k \in S PROVE k + 1 \in S
  <2>1. PICK g : TotalRule(s, k, g)
    BY <1>2
  <2>2. g[0] = 0 /\ \A j \in 1 .. k : g[j] = g[j - 1] + s[j]
    BY <2>1, TotalStep
  <2> DEFINE E(f, j) == IF j = 0 THEN 0 ELSE f[j - 1] + s[j]
             h == [j \in 0 .. k + 1 |-> IF j = k + 1 THEN g[k] + s[k + 1] ELSE g[j]]
  <2>3. \A j \in 0 .. k + 1 : h[j] = IF j = k + 1 THEN g[k] + s[k + 1] ELSE g[j]
    OBVIOUS
  <2>4. ASSUME NEW j \in 0 .. k + 1 PROVE h[j] = E(h, j)
    <3> HIDE DEF h
    <3>1. CASE j = 0
      BY <2>2, <2>3, <3>1
    <3>2. CASE j \in 1 .. k
      <4>1. h[j] = g[j] /\ h[j - 1] = g[j - 1] /\ j # 0
        BY <2>3, <3>2
      <4> QED
        BY <2>2, <3>2, <4>1
    <3>3. CASE j = k + 1
      <4>1. h[j] = g[k] + s[j] /\ h[j - 1] = g[k] /\ j # 0
        BY <2>3, <3>3
      <4> QED
        BY <4>1
    <3> QED
      BY <3>1, <3>2, <3>3
  <2>5. h = [j \in 0 .. k + 1 |-> E(h, j)]
    <3> DEFINE f == [j \in 0 .. k + 1 |-> E(h, j)]
    <3> HIDE DEF E
    <3>1. \A j \in 0 .. k + 1 : f[j] = h[j]
      BY <2>4
    <3>2. h = [j \in 0 .. k + 1 |-> h[j]] /\ f = [j \in 0 .. k + 1 |-> f[j]]
      OBVIOUS
    <3> HIDE DEF h, f
    <3>3. h = f
      BY <3>1, <3>2
    <3> QED
      BY <3>3 DEF f
  <2>6. TotalRule(s, k + 1, h)
    BY <2>5 DEF TotalRule
  <2> HIDE DEF h
  <2> QED
    BY <2>6
<1> HIDE DEF S
<1>3. n \in S
  BY <1>1, <1>2, AllNumbers
<1> QED
  BY <1>3 DEF S

(* Sums of what is the same are the same, and sums of numbers are numbers. *)
LEMMA TotalsAgree ==
    ASSUME NEW s, NEW u, NEW n \in Nat, NEW m \in Nat, NEW k \in Nat, k <= n, k <= m,
           NEW g, TotalRule(s, n, g), NEW h, TotalRule(u, m, h), \A i \in 1 .. k : s[i] = u[i]
    PROVE  g[k] = h[k]
<1>1. g[0] = 0 /\ \A i \in 1 .. n : g[i] = g[i - 1] + s[i]
  BY TotalStep
<1>2. h[0] = 0 /\ \A i \in 1 .. m : h[i] = h[i - 1] + u[i]
  BY TotalStep
<1> DEFINE S == {j \in Nat : j <= k => g[j] = h[j]}
<1>3. 0 \in S
  BY <1>1, <1>2
<1>4. ASSUME NEW j \in Nat, j \in S PROVE j + 1 \in S
  <2>1. SUFFICES ASSUME j + 1 <= k PROVE g[j + 1] = h[j + 1]
    OBVIOUS
  <2>2. g[j] = h[j] /\ s[j + 1] = u[j + 1]
    BY <1>4, <2>1
  <2>3. j + 1 \in 1 .. n /\ j + 1 \in 1 .. m /\ (j + 1) - 1 = j
    BY <2>1
  <2>4. g[j + 1] = g[j] + s[j + 1] /\ h[j + 1] = h[j] + u[j + 1]
    BY <1>1, <1>2, <2>3
  <2> QED
    BY <2>2, <2>4
<1> HIDE DEF S
<1>5. k \in S
  BY <1>3, <1>4, AllNumbers
<1> QED
  BY <1>5 DEF S

LEMMA TotalEmpty == Total(<<>>) = 0
<1> DEFINE g == CHOOSE f : TotalRule(<<>>, 0, f)
<1>1. TotalRule(<<>>, 0, g)
  BY TotalsExist
<1>2. g[0] = 0
  BY <1>1, TotalStep
<1>3. Len(<<>>) = 0
  OBVIOUS
<1> QED
  BY <1>2, <1>3, TotalIs

LEMMA TotalAppend ==
    ASSUME NEW s \in Seq(Nat), NEW x \in Nat
    PROVE  Total(Append(s, x)) = Total(s) + x
<1> DEFINE n == Len(s)
           u == Append(s, x)
           g == CHOOSE f : TotalRule(s, n, f)
           h == CHOOSE f : TotalRule(u, n + 1, f)
<1>1. n \in Nat /\ Len(u) = n + 1 /\ u[n + 1] = x /\ \A i \in 1 .. n : s[i] = u[i]
  OBVIOUS
<1>2. TotalRule(s, n, g) /\ TotalRule(u, n + 1, h)
  <2>1. n \in Nat /\ n + 1 \in Nat
    BY <1>1
  <2> HIDE DEF n, u
  <2>2. (\E f : TotalRule(s, n, f)) /\ \E f : TotalRule(u, n + 1, f)
    BY <2>1, TotalsExist
  <2> QED
    BY <2>2
<1>3. Total(s) = g[n] /\ Total(u) = h[n + 1]
  BY <1>1, TotalIs
<1> HIDE DEF n, u, g, h
<1>4. g[n] = h[n]
  BY <1>1, <1>2, TotalsAgree
<1>5. h[n + 1] = h[n] + x
  <2>1. h[n + 1] = h[(n + 1) - 1] + u[n + 1]
    BY <1>1, <1>2, TotalStep
  <2> QED
    BY <1>1, <2>1
<1> QED
  BY <1>3, <1>4, <1>5 DEF u

(* Induction, for the sequences of a set. *)
LEMMA AllSequences ==
    ASSUME NEW X, NEW P, <<>> \in P, \A s \in Seq(X), x \in X : s \in P => Append(s, x) \in P
    PROVE  \A s \in Seq(X) : s \in P
<1> DEFINE S == {n \in Nat : \A s \in Seq(X) : Len(s) = n => s \in P}
<1>1. 0 \in S
  <2>1. \A s \in Seq(X) : Len(s) = 0 => s = <<>>
    BY EmptySeq
  <2> QED
    BY <2>1
<1>2. ASSUME NEW n \in Nat, n \in S PROVE n + 1 \in S
  <2>1. SUFFICES ASSUME NEW s \in Seq(X), Len(s) = n + 1 PROVE s \in P
    OBVIOUS
  <2>2. PICK u \in Seq(X), x \in X : s = Append(u, x) /\ Len(u) = n
    <3>1. s # <<>>
      BY <2>1
    <3>2. PICK u \in Seq(X), x \in X : s = Append(u, x)
      BY <3>1, SequenceEmptyOrAppend
    <3>3. Len(s) = Len(u) + 1
      BY <3>2
    <3> QED
      BY <2>1, <3>2, <3>3
  <2>3. u \in P
    BY <1>2, <2>2
  <2> QED
    BY <2>2, <2>3
<1> HIDE DEF S
<1>3. \A n \in Nat : n \in S
  BY <1>1, <1>2, AllNumbers
<1>4. \A s \in Seq(X) : Len(s) \in Nat
  BY LenProperties
<1> QED
  BY <1>3, <1>4 DEF S

LEMMA TotalIsNumber == ASSUME NEW s \in Seq(Nat) PROVE Total(s) \in Nat
<1> DEFINE P == {u \in Seq(Nat) : Total(u) \in Nat}
<1>1. <<>> \in P
  BY TotalEmpty
<1>2. \A u \in Seq(Nat), x \in Nat : u \in P => Append(u, x) \in P
  <2>1. ASSUME NEW u \in Seq(Nat), NEW x \in Nat, Total(u) \in Nat PROVE Append(u, x) \in P
    <3>1. Append(u, x) \in Seq(Nat)
      OBVIOUS
    <3>2. Total(Append(u, x)) \in Nat
      BY <2>1, TotalAppend
    <3> QED
      BY <3>1, <3>2
  <2> QED
    BY <2>1
<1> HIDE DEF P
<1>3. s \in P
  BY <1>1, <1>2, AllSequences
<1> QED
  BY <1>3 DEF P

(* A sum does not depend on the order. *)
LEMMA TotalOfRest ==
    ASSUME NEW x \in Nat, NEW s \in Seq(Nat)
    PROVE  Total(<<x>> \o s) = x + Total(s)
<1> DEFINE P == {u \in Seq(Nat) : Total(<<x>> \o u) = x + Total(u)}
<1>1. <<>> \in P
  <2>1. <<x>> \o <<>> = Append(<<>>, x)
    OBVIOUS
  <2>2. <<>> \in Seq(Nat)
    OBVIOUS
  <2>3. Total(Append(<<>>, x)) = Total(<<>>) + x
    BY <2>2, TotalAppend
  <2>4. Total(<<x>> \o <<>>) = x + Total(<<>>)
    BY <2>1, <2>3, TotalEmpty
  <2> QED
    BY <2>2, <2>4
<1>2. \A u \in Seq(Nat), y \in Nat : u \in P => Append(u, y) \in P
  <2>1. ASSUME NEW u \in Seq(Nat), NEW y \in Nat, Total(<<x>> \o u) = x + Total(u)
        PROVE  Append(u, y) \in P
    <3>1. <<x>> \o Append(u, y) = Append(<<x>> \o u, y) /\ <<x>> \o u \in Seq(Nat) /\ Append(u, y) \in Seq(Nat)
      OBVIOUS
    <3>2. Total(Append(<<x>> \o u, y)) = Total(<<x>> \o u) + y
      BY <3>1, TotalAppend
    <3>3. Total(Append(u, y)) = Total(u) + y /\ Total(u) \in Nat
      BY TotalAppend, TotalIsNumber
    <3>4. Total(<<x>> \o Append(u, y)) = x + Total(Append(u, y))
      <4>1. PICK n \in Nat : n = Total(u)
        BY <3>3
      <4>2. Total(<<x>> \o Append(u, y)) = (x + n) + y
        BY <2>1, <3>1, <3>2, <4>1
      <4>3. Total(Append(u, y)) = n + y
        BY <3>3, <4>1
      <4>4. (x + n) + y = x + (n + y)
        OBVIOUS
      <4> QED
        BY <4>2, <4>3, <4>4
    <3> QED
      BY <3>1, <3>4
  <2> QED
    BY <2>1
<1> HIDE DEF P
<1>3. s \in P
  BY <1>1, <1>2, AllSequences
<1> QED
  BY <1>3 DEF P

LEMMA ReverseFacts ==
    ASSUME NEW X, NEW s \in Seq(X)
    PROVE  /\ Reverse(s) \in Seq(X) /\ Len(Reverse(s)) = Len(s)
           /\ \A i \in 1 .. Len(s) : Reverse(s)[i] = s[(Len(s) - i) + 1]
           /\ \A x \in X : Reverse(Append(s, x)) = <<x>> \o Reverse(s)
<1>1. Len(s) \in Nat
  BY LenProperties
<1>2. Reverse(s) \in Seq(X) /\ Len(Reverse(s)) = Len(s)
  BY <1>1 DEF Reverse
<1>3. \A i \in 1 .. Len(s) : Reverse(s)[i] = s[(Len(s) - i) + 1]
  BY <1>1 DEF Reverse
<1>4. ASSUME NEW x \in X PROVE Reverse(Append(s, x)) = <<x>> \o Reverse(s)
  <2> DEFINE a == Reverse(Append(s, x))
             b == <<x>> \o Reverse(s)
  <2>1. Append(s, x) \in Seq(X) /\ Len(Append(s, x)) = Len(s) + 1
    OBVIOUS
  <2>2. a \in Seq(X) /\ Len(a) = Len(s) + 1
    BY <1>1, <2>1 DEF Reverse
  <2>3. b \in Seq(X) /\ Len(b) = Len(s) + 1
    BY <1>1, <1>2
  <2>4. ASSUME NEW i \in 1 .. Len(s) + 1 PROVE a[i] = b[i]
    <3>1. a[i] = Append(s, x)[(Len(s) + 1 - i) + 1]
      BY <1>1, <2>1 DEF Reverse
    <3>2. CASE i = 1
      BY <1>1, <1>2, <3>1, <3>2
    <3>3. CASE i # 1
      <4>1. (Len(s) + 1 - i) + 1 \in 1 .. Len(s) /\ i - 1 \in 1 .. Len(s)
            /\ (Len(s) + 1 - i) + 1 = (Len(s) - (i - 1)) + 1
        BY <1>1, <3>3
      <4>2. a[i] = s[(Len(s) - (i - 1)) + 1]
        BY <3>1, <4>1
      <4>3. b[i] = Reverse(s)[i - 1]
        BY <1>1, <1>2, <3>3
      <4> QED
        BY <1>3, <4>1, <4>2, <4>3
    <3> QED
      BY <3>2, <3>3
  <2> HIDE DEF a, b
  <2>5. a = b
    BY <2>2, <2>3, <2>4, SeqEqual
  <2> QED
    BY <2>5 DEF a, b
<1> QED
  BY <1>2, <1>3, <1>4

LEMMA TotalOfReverse == ASSUME NEW s \in Seq(Nat) PROVE Total(Reverse(s)) = Total(s)
<1> DEFINE P == {u \in Seq(Nat) : Total(Reverse(u)) = Total(u)}
<1>1. <<>> \in P
  <2>1. Reverse(<<>>) = <<>>
    BY DEF Reverse
  <2> QED
    BY <2>1
<1>2. \A u \in Seq(Nat), x \in Nat : u \in P => Append(u, x) \in P
  <2>1. ASSUME NEW u \in Seq(Nat), NEW x \in Nat, Total(Reverse(u)) = Total(u)
        PROVE  Append(u, x) \in P
    <3>1. Reverse(Append(u, x)) = <<x>> \o Reverse(u) /\ Reverse(u) \in Seq(Nat)
      BY ReverseFacts
    <3>2. Total(<<x>> \o Reverse(u)) = x + Total(Reverse(u))
      BY <3>1, TotalOfRest
    <3>3. Total(Append(u, x)) = Total(u) + x /\ Total(u) \in Nat
      BY TotalAppend, TotalIsNumber
    <3>4. Append(u, x) \in Seq(Nat) /\ Total(Reverse(Append(u, x))) = Total(Append(u, x))
      BY <2>1, <3>1, <3>2, <3>3
    <3> QED
      BY <3>4
  <2> QED
    BY <2>1
<1> HIDE DEF P
<1>3. s \in P
  BY <1>1, <1>2, AllSequences
<1> QED
  BY <1>3 DEF P

-----------------------------------------------------------------------------
(* The bytes of lines with a newline between, and how they grow by one line. *)
Lengths(lines) == [i \in DOMAIN lines |-> LengthOf(lines[i])]
Spread(lines) == Total(Lengths(lines)) + (IF lines = <<>> THEN 0 ELSE Len(lines) - 1)

LEMMA LengthsAre ==
    ASSUME NEW lines \in Seq(Seq(Nat))
    PROVE  /\ Lengths(lines) \in Seq(Nat) /\ Len(Lengths(lines)) = Len(lines)
           /\ \A i \in 1 .. Len(lines) : Lengths(lines)[i] = Total(lines[i])
<1>1. Len(lines) \in Nat /\ DOMAIN lines = 1 .. Len(lines) /\ \A i \in 1 .. Len(lines) : lines[i] \in Seq(Nat)
  BY LenProperties, ElementOfSeq
<1>2. \A i \in 1 .. Len(lines) : LengthOf(lines[i]) \in Nat /\ LengthOf(lines[i]) = Total(lines[i])
  BY <1>1, TotalIsNumber DEF LengthOf
<1>3. Lengths(lines) = [i \in 1 .. Len(lines) |-> LengthOf(lines[i])]
  BY <1>1 DEF Lengths
<1>4. Lengths(lines) \in [1 .. Len(lines) -> Nat]
  BY <1>2, <1>3, SMTT(30)
<1>5. Lengths(lines) \in Seq(Nat)
  <2>1. PICK n \in Nat : n = Len(lines)
    BY <1>1
  <2>2. Lengths(lines) \in [1 .. n -> Nat]
    BY <1>4, <2>1
  <2> QED
    BY <2>2, SeqDef
<1>6. Len(Lengths(lines)) = Len(lines)
  BY <1>1, <1>3, <1>5, LenProperties
<1> QED
  BY <1>2, <1>3, <1>5, <1>6

LEMMA SpreadIsNumber == ASSUME NEW lines \in Seq(Seq(Nat)) PROVE Spread(lines) \in Nat
<1>1. Total(Lengths(lines)) \in Nat
  BY LengthsAre, TotalIsNumber
<1>2. Len(lines) \in Nat /\ (lines # <<>> => Len(lines) # 0)
  BY LenProperties, EmptySeq
<1>3. (IF lines = <<>> THEN 0 ELSE Len(lines) - 1) \in Nat
  BY <1>2
<1> QED
  BY <1>1, <1>3 DEF Spread

LEMMA BytesAre ==
    ASSUME NEW lines, NEW ended \in BOOLEAN
    PROVE  Bytes(Text(lines, ended)) = Spread(lines) + (IF ended THEN 1 ELSE 0)
<1>1. Text(lines, ended).lines = lines /\ Text(lines, ended).ended = ended
  BY DEF Text
<1> QED
  BY <1>1 DEF Bytes, Spread, Lengths

LEMMA BytesAlone == ASSUME NEW lines \in Seq(Seq(Nat)) PROVE Bytes(Text(lines, FALSE)) = Spread(lines)
<1>1. PICK n \in Nat : n = Spread(lines)
  BY SpreadIsNumber
<1>2. Bytes(Text(lines, FALSE)) = n + 0
  BY <1>1, BytesAre
<1>3. n + 0 = n
  OBVIOUS
<1> QED
  BY <1>1, <1>2, <1>3

LEMMA SpreadOfMore ==
    ASSUME NEW lines \in Seq(Seq(Nat)), NEW l \in Seq(Nat)
    PROVE  Spread(Append(lines, l)) = Spread(lines) + (LengthOf(l) + (IF lines # <<>> THEN 1 ELSE 0))
<1> DEFINE more == Append(lines, l)
<1>1. more \in Seq(Seq(Nat)) /\ Len(more) = Len(lines) + 1 /\ more # <<>> /\ Len(lines) \in Nat
  <2>1. Len(lines) \in Nat
    BY LenProperties
  <2>2. more \in Seq(Seq(Nat)) /\ Len(more) = Len(lines) + 1
    BY AppendProperties
  <2> QED
    BY <2>1, <2>2, EmptySeq
<1>2. Lengths(more) = Append(Lengths(lines), Total(l))
  <2>1. Total(l) \in Nat
    BY TotalIsNumber
  <2>2. /\ Lengths(lines) \in Seq(Nat) /\ Len(Lengths(lines)) = Len(lines)
        /\ \A i \in 1 .. Len(lines) : Lengths(lines)[i] = Total(lines[i])
    BY LengthsAre
  <2>3. /\ Lengths(more) \in Seq(Nat) /\ Len(Lengths(more)) = Len(more)
        /\ \A i \in 1 .. Len(more) : Lengths(more)[i] = Total(more[i])
    BY <1>1, LengthsAre
  <2> DEFINE b == Append(Lengths(lines), Total(l))
  <2>4. b \in Seq(Nat) /\ Len(b) = Len(more)
    BY <1>1, <2>1, <2>2
  <2>5. ASSUME NEW i \in 1 .. Len(more) PROVE Lengths(more)[i] = b[i]
    <3>1. CASE i = Len(lines) + 1
      <4>1. more[i] = l /\ b[i] = Total(l)
        BY <2>1, <2>2, <3>1
      <4> QED
        BY <2>3, <4>1
    <3>2. CASE i \in 1 .. Len(lines)
      <4>1. more[i] = lines[i] /\ b[i] = Lengths(lines)[i]
        BY <2>1, <2>2, <3>2
      <4> QED
        BY <2>2, <2>3, <3>2, <4>1
    <3>3. i = Len(lines) + 1 \/ i \in 1 .. Len(lines)
      BY <1>1
    <3> QED
      BY <3>1, <3>2, <3>3
  <2> HIDE DEF more, b
  <2>6. Lengths(more) = b
    BY <2>3, <2>4, <2>5, SeqEqual
  <2> QED
    BY <2>6 DEF b
<1>3. PICK n \in Nat, k \in Nat : n = Total(Lengths(lines)) /\ k = Total(l)
  BY LengthsAre, TotalIsNumber
<1>4. Total(Lengths(more)) = n + k
  BY <1>2, <1>3, LengthsAre, TotalAppend
<1>5. Spread(more) = (n + k) + Len(lines)
  <2>1. Len(more) - 1 = Len(lines)
    BY <1>1
  <2> HIDE DEF more
  <2> QED
    BY <1>1, <1>4, <2>1 DEF Spread
<1>6. Spread(lines) = n + (IF lines = <<>> THEN 0 ELSE Len(lines) - 1)
  BY <1>3 DEF Spread
<1>7. lines = <<>> <=> Len(lines) = 0
  BY EmptySeq
<1> HIDE DEF more
<1>8. LengthOf(l) = k
  BY <1>3 DEF LengthOf
<1>9. PICK m \in Nat : m = Len(lines)
  BY <1>1
<1>10. (n + k) + m = (n + (IF lines = <<>> THEN 0 ELSE m - 1)) + (k + (IF lines # <<>> THEN 1 ELSE 0))
  <2>1. CASE lines = <<>>
    BY <1>7, <1>9, <2>1
  <2>2. CASE lines # <<>>
    <3>1. m # 0 /\ (n + k) + m = (n + (m - 1)) + (k + 1)
      BY <1>7, <1>9, <2>2
    <3> QED
      BY <2>2, <3>1
  <2> QED
    BY <2>1, <2>2
<1> QED
  BY <1>5, <1>6, <1>8, <1>9, <1>10 DEF more

LEMMA SpreadOfReverse ==
    ASSUME NEW lines \in Seq(Seq(Nat))
    PROVE  Spread(Reverse(lines)) = Spread(lines)
<1> DEFINE r == Reverse(lines)
<1>1. /\ r \in Seq(Seq(Nat)) /\ Len(r) = Len(lines) /\ Len(lines) \in Nat
      /\ \A i \in 1 .. Len(lines) : r[i] = lines[(Len(lines) - i) + 1]
  BY ReverseFacts, LenProperties
<1> HIDE DEF r
<1>2. /\ Lengths(lines) \in Seq(Nat) /\ Len(Lengths(lines)) = Len(lines)
      /\ \A i \in 1 .. Len(lines) : Lengths(lines)[i] = Total(lines[i])
  BY LengthsAre
<1>3. /\ Lengths(r) \in Seq(Nat) /\ Len(Lengths(r)) = Len(r)
      /\ \A i \in 1 .. Len(r) : Lengths(r)[i] = Total(r[i])
  BY <1>1, LengthsAre
<1>4. /\ Reverse(Lengths(lines)) \in Seq(Nat) /\ Len(Reverse(Lengths(lines))) = Len(lines)
      /\ \A i \in 1 .. Len(lines) : Reverse(Lengths(lines))[i] = Lengths(lines)[(Len(lines) - i) + 1]
  BY <1>2, ReverseFacts
<1>5. ASSUME NEW i \in 1 .. Len(lines) PROVE Lengths(r)[i] = Reverse(Lengths(lines))[i]
  <2>1. (Len(lines) - i) + 1 \in 1 .. Len(lines)
    BY <1>1
  <2> QED
    BY <1>1, <1>2, <1>3, <1>4, <2>1
<1>6. Lengths(r) = Reverse(Lengths(lines))
  BY <1>1, <1>3, <1>4, <1>5, SeqEqual
<1>7. Total(Lengths(r)) = Total(Lengths(lines))
  BY <1>2, <1>6, TotalOfReverse
<1>8. r = <<>> <=> lines = <<>>
  BY <1>1, EmptySeq
<1> QED
  BY <1>1, <1>7, <1>8 DEF Spread, r

-----------------------------------------------------------------------------
(* How Greedy is computed, and what it has taken of the first lines. *)
Taken(kept, bytes, full) == [kept |-> kept, bytes |-> bytes, full |-> full]
GreedyRule(lines, n, g) ==
    g = [k \in 0 .. n |-> IF k = 0 THEN Taken(<<>>, 0, FALSE) ELSE Take(g[k - 1], lines[k])]

Fitting(lines, n, k, full) ==
    /\ k \in 0 .. n /\ k <= maxLines /\ Spread(SubSeq(lines, 1, k)) <= maxBytes
    /\ full \in BOOLEAN
    /\ full => k < n /\ k < maxLines /\ Spread(SubSeq(lines, 1, k + 1)) > maxBytes
    /\ ~ full => k = n \/ k = maxLines

LEMMA GreedyIs ==
    ASSUME NEW lines
    PROVE  Greedy(lines) = (CHOOSE g : GreedyRule(lines, Len(lines), g))[Len(lines)]
BY DEF Greedy, GreedyRule, Taken

LEMMA GreedyStep ==
    ASSUME NEW lines, NEW n \in Nat, NEW g, GreedyRule(lines, n, g)
    PROVE  g[0] = Taken(<<>>, 0, FALSE) /\ \A k \in 1 .. n : g[k] = Take(g[k - 1], lines[k])
<1> DEFINE E(k) == IF k = 0 THEN Taken(<<>>, 0, FALSE) ELSE Take(g[k - 1], lines[k])
           f == [k \in 0 .. n |-> E(k)]
<1>1. g = f
  BY DEF GreedyRule
<1> HIDE DEF E
<1>2. \A k \in 0 .. n : f[k] = E(k)
  OBVIOUS
<1> HIDE DEF f
<1>3. \A k \in 0 .. n : g[k] = E(k)
  BY <1>1, <1>2
<1>4. 0 \in 0 .. n /\ \A k \in 1 .. n : k \in 0 .. n /\ k # 0
  OBVIOUS
<1> QED
  BY <1>3, <1>4 DEF E

LEMMA GreediesExist == ASSUME NEW lines, NEW n \in Nat PROVE \E g : GreedyRule(lines, n, g)
<1> DEFINE S == {k \in Nat : \E g : GreedyRule(lines, k, g)}
<1>1. 0 \in S
  <2> DEFINE g == [k \in 0 .. 0 |-> Taken(<<>>, 0, FALSE)]
  <2>1. GreedyRule(lines, 0, g)
    BY DEF GreedyRule
  <2> QED
    BY <2>1
<1>2. ASSUME NEW k \in Nat, k \in S PROVE k + 1 \in S
  <2>1. PICK g : GreedyRule(lines, k, g)
    BY <1>2
  <2>2. g[0] = Taken(<<>>, 0, FALSE) /\ \A j \in 1 .. k : g[j] = Take(g[j - 1], lines[j])
    BY <2>1, GreedyStep
  <2> DEFINE E(f, j) == IF j = 0 THEN Taken(<<>>, 0, FALSE) ELSE Take(f[j - 1], lines[j])
             new == Take(g[k], lines[k + 1])
             h == [j \in 0 .. k + 1 |-> IF j = k + 1 THEN new ELSE g[j]]
  <2>3. new = Take(g[k], lines[k + 1])
    OBVIOUS
  <2> HIDE DEF new
  <2>4. \A j \in 0 .. k + 1 : h[j] = IF j = k + 1 THEN new ELSE g[j]
    OBVIOUS
  <2>5. ASSUME NEW j \in 0 .. k + 1 PROVE h[j] = E(h, j)
    <3> HIDE DEF h
    <3>1. CASE j = 0
      <4>1. h[j] = g[0]
        BY <2>4, <3>1
      <4>2. E(h, j) = Taken(<<>>, 0, FALSE)
        BY <3>1
      <4> HIDE DEF E
      <4> QED
        BY <2>2, <4>1, <4>2
    <3>2. CASE j \in 1 .. k
      <4>1. h[j] = g[j] /\ h[j - 1] = g[j - 1] /\ j # 0
        BY <2>4, <3>2
      <4> QED
        BY <2>2, <3>2, <4>1
    <3>3. CASE j = k + 1
      <4>1. h[j] = new /\ h[j - 1] = g[k] /\ j # 0
        BY <2>4, <3>3
      <4> QED
        BY <2>3, <3>3, <4>1
    <3>4. j = 0 \/ j \in 1 .. k \/ j = k + 1
      OBVIOUS
    <3> HIDE DEF E
    <3> QED
      BY <3>1, <3>2, <3>3, <3>4
  <2>6. h = [j \in 0 .. k + 1 |-> E(h, j)]
    <3> DEFINE f == [j \in 0 .. k + 1 |-> E(h, j)]
    <3> HIDE DEF E
    <3>1. \A j \in 0 .. k + 1 : f[j] = h[j]
      BY <2>5
    <3>2. h = [j \in 0 .. k + 1 |-> h[j]] /\ f = [j \in 0 .. k + 1 |-> f[j]]
      OBVIOUS
    <3> HIDE DEF h, f
    <3>3. h = f
      BY <3>1, <3>2
    <3> QED
      BY <3>3 DEF f
  <2>7. GreedyRule(lines, k + 1, h)
    BY <2>6 DEF GreedyRule
  <2> HIDE DEF h
  <2> QED
    BY <2>7
<1> HIDE DEF S
<1>3. n \in S
  BY <1>1, <1>2, AllNumbers
<1> QED
  BY <1>3 DEF S

LEMMA TakeIs ==
    ASSUME NEW kept, NEW bytes, NEW full, NEW l
    PROVE  Take(Taken(kept, bytes, full), l) =
            IF full \/ Len(kept) >= maxLines THEN Taken(kept, bytes, full)
            ELSE IF bytes + (LengthOf(l) + (IF kept # <<>> THEN 1 ELSE 0)) > maxBytes THEN Taken(kept, bytes, TRUE)
            ELSE Taken(Append(kept, l), bytes + (LengthOf(l) + (IF kept # <<>> THEN 1 ELSE 0)), FALSE)
<1> DEFINE acc == Taken(kept, bytes, full)
           size == LengthOf(l) + (IF kept # <<>> THEN 1 ELSE 0)
<1>1. acc.kept = kept /\ acc.bytes = bytes /\ acc.full = full
  BY DEF Taken
<1>2. Take(acc, l) =
        IF acc.full \/ Len(acc.kept) >= maxLines THEN acc
        ELSE IF acc.bytes + size > maxBytes THEN [acc EXCEPT !.full = TRUE]
        ELSE [kept |-> Append(acc.kept, l), bytes |-> acc.bytes + size, full |-> FALSE]
  BY <1>1 DEF Take
<1>3. [acc EXCEPT !.full = TRUE] = Taken(kept, bytes, TRUE)
  <2>1. PICK yes : yes = TRUE
    OBVIOUS
  <2>2. [acc EXCEPT !.full = yes] = Taken(kept, bytes, yes)
    BY DEF Taken
  <2> HIDE DEF acc
  <2> QED
    BY <2>1, <2>2
<1> HIDE DEF acc, size
<1>4. [kept |-> Append(kept, l), bytes |-> bytes + size, full |-> FALSE] = Taken(Append(kept, l), bytes + size, FALSE)
  BY DEF Taken
<1>5. Take(acc, l) = IF full \/ Len(kept) >= maxLines THEN acc
                     ELSE IF bytes + size > maxBytes THEN Taken(kept, bytes, TRUE)
                     ELSE Taken(Append(kept, l), bytes + size, FALSE)
  BY <1>1, <1>2, <1>3, <1>4
<1> QED
  BY <1>5 DEF acc, size

(* One line more. *)
LEMMA TakeOne ==
    ASSUME maxLines \in Nat, maxBytes \in Nat, NEW lines \in Seq(Seq(Nat)),
           NEW n \in Nat, n < Len(lines), NEW k, NEW full, Fitting(lines, n, k, full)
    PROVE  \E j, f : /\ Fitting(lines, n + 1, j, f)
                     /\ Take(Taken(SubSeq(lines, 1, k), Spread(SubSeq(lines, 1, k)), full), lines[n + 1])
                          = Taken(SubSeq(lines, 1, j), Spread(SubSeq(lines, 1, j)), f)
<1>1. k \in Nat /\ k <= n /\ k <= maxLines /\ Len(lines) \in Nat /\ n + 1 \in 1 .. Len(lines) /\ full \in BOOLEAN
  BY LenProperties DEF Fitting
<1>2. PICK s \in Seq(Seq(Nat)) : s = SubSeq(lines, 1, k) /\ Len(s) = k
  <2>1. SubSeq(lines, 1, k) \in Seq(Seq(Nat)) /\ Len(SubSeq(lines, 1, k)) = k
    BY <1>1
  <2> QED
    BY <2>1
<1>3. PICK l \in Seq(Nat) : l = lines[n + 1]
  BY <1>1
<1>4. PICK size : size = LengthOf(l) + (IF s # <<>> THEN 1 ELSE 0)
  OBVIOUS
<1>5. Append(s, l) \in Seq(Seq(Nat)) /\ Spread(Append(s, l)) = Spread(s) + size
  BY <1>4, SpreadOfMore
<1>6. PICK a \in Nat, b \in Nat : a = Spread(s) /\ b = Spread(Append(s, l)) /\ b = a + size
  <2>1. Spread(s) \in Nat /\ Spread(Append(s, l)) \in Nat
    BY <1>5, SpreadIsNumber
  <2> QED
    BY <1>5, <2>1
<1>7. PICK old : old = Taken(s, a, full)
  OBVIOUS
<1>8. Take(old, l) = IF full \/ k >= maxLines THEN old
                     ELSE IF b > maxBytes THEN Taken(s, a, TRUE)
                     ELSE Taken(Append(s, l), b, FALSE)
  <2>1. Take(Taken(s, a, full), l) =
            IF full \/ Len(s) >= maxLines THEN Taken(s, a, full)
            ELSE IF a + (LengthOf(l) + (IF s # <<>> THEN 1 ELSE 0)) > maxBytes THEN Taken(s, a, TRUE)
            ELSE Taken(Append(s, l), a + (LengthOf(l) + (IF s # <<>> THEN 1 ELSE 0)), FALSE)
    BY ZenonT(60), TakeIs
  <2>2. b = a + (LengthOf(l) + (IF s # <<>> THEN 1 ELSE 0))
    BY <1>4, <1>6
  <2> QED
    BY <1>2, <1>7, <2>1, <2>2
<1>9. k = n => SubSeq(lines, 1, k + 1) = Append(s, l)
  <2>1. SUFFICES ASSUME k = n PROVE SubSeq(lines, 1, k + 1) = Append(s, l)
    OBVIOUS
  <2> QED
    BY <1>1, <1>2, <1>3, <2>1
<1>10. a <= maxBytes /\ (full => k < n /\ k < maxLines /\ Spread(SubSeq(lines, 1, k + 1)) > maxBytes)
  BY <1>2, <1>6 DEF Fitting
<1>11. CASE full \/ k >= maxLines
  <2>1. Take(old, l) = Taken(s, a, full)
    BY <1>7, <1>8, <1>11
  <2>2. ~ full => k = maxLines
    BY <1>1, <1>11
  <2>3. k \in 0 .. n + 1 /\ (full => k < n + 1)
    BY <1>1
  <2>4. Fitting(lines, n + 1, k, full)
    BY <1>1, <1>2, <1>6, <1>10, <2>2, <2>3 DEF Fitting
  <2> QED
    BY <1>2, <1>3, <1>6, <1>7, <2>1, <2>4
<1>12. CASE ~ (full \/ k >= maxLines)
  <2>1. k = n /\ k < maxLines
    BY <1>1, <1>12 DEF Fitting
  <2>2. SubSeq(lines, 1, k + 1) = Append(s, l)
    BY <1>9, <2>1
  <2>3. k \in 0 .. n + 1 /\ k < n + 1 /\ k + 1 \in 0 .. n + 1 /\ k + 1 = n + 1 /\ k + 1 <= maxLines
    BY <1>1, <2>1
  <2>4. CASE b > maxBytes
    <3>1. Take(old, l) = Taken(s, a, TRUE)
      BY <1>8, <1>12, <2>4
    <3>2. Fitting(lines, n + 1, k, TRUE)
      BY <1>1, <1>2, <1>6, <1>10, <2>1, <2>2, <2>3, <2>4 DEF Fitting
    <3> QED
      BY <1>2, <1>3, <1>6, <1>7, <3>1, <3>2
  <2>5. CASE ~ (b > maxBytes)
    <3>1. full = FALSE
      BY <1>1, <1>12
    <3>2. Take(old, l) = Taken(Append(s, l), b, FALSE)
      BY <1>8, <1>12, <2>5, <3>1
    <3>3. b <= maxBytes
      BY <2>5
    <3>4. Fitting(lines, n + 1, k + 1, FALSE)
      BY <1>6, <2>2, <2>3, <3>3 DEF Fitting
    <3> QED
      BY <1>2, <1>3, <1>6, <1>7, <2>2, <3>2, <3>4
  <2> QED
    BY <2>4, <2>5
<1> QED
  BY <1>11, <1>12

LEMMA GreedyTakes ==
    ASSUME maxLines \in Nat, maxBytes \in Nat, NEW lines \in Seq(Seq(Nat))
    PROVE  \E k, full :
            /\ Fitting(lines, Len(lines), k, full)
            /\ Greedy(lines) = Taken(SubSeq(lines, 1, k), Spread(SubSeq(lines, 1, k)), full)
<1> DEFINE m == Len(lines)
           g == CHOOSE f : GreedyRule(lines, m, f)
           Is(n) == \E k, full : /\ Fitting(lines, n, k, full)
                                 /\ g[n] = Taken(SubSeq(lines, 1, k), Spread(SubSeq(lines, 1, k)), full)
           S == {n \in Nat : n <= m => Is(n)}
<1>1. m \in Nat
  BY LenProperties
<1>2. Greedy(lines) = g[m]
  BY GreedyIs
<1> HIDE DEF m
<1>3. GreedyRule(lines, m, g)
  BY <1>1, GreediesExist
<1> HIDE DEF g
<1>4. g[0] = Taken(<<>>, 0, FALSE) /\ \A k \in 1 .. m : g[k] = Take(g[k - 1], lines[k])
  BY <1>1, <1>3, GreedyStep
<1>5. 0 \in S
  <2>1. SubSeq(lines, 1, 0) = <<>>
    OBVIOUS
  <2>2. Spread(<<>>) = 0
    <3>1. Lengths(<<>>) = <<>>
      BY DEF Lengths
    <3> QED
      BY <3>1, TotalEmpty DEF Spread
  <2>3. Fitting(lines, 0, 0, FALSE)
    <3>1. 0 \in 0 .. 0 /\ 0 <= maxLines /\ 0 <= maxBytes
      OBVIOUS
    <3> QED
      BY <2>1, <2>2, <3>1 DEF Fitting
  <2> QED
    BY <1>4, <2>1, <2>2, <2>3
<1>6. ASSUME NEW n \in Nat, n \in S PROVE n + 1 \in S
  <2>1. SUFFICES ASSUME n + 1 <= m PROVE Is(n + 1)
    OBVIOUS
  <2>2. n < Len(lines) /\ n <= m /\ n + 1 \in 1 .. m /\ (n + 1) - 1 = n
    BY <1>1, <2>1 DEF m
  <2>3. PICK k, full : /\ Fitting(lines, n, k, full)
                       /\ g[n] = Taken(SubSeq(lines, 1, k), Spread(SubSeq(lines, 1, k)), full)
    BY <1>6, <2>2
  <2>4. g[n + 1] = Take(g[n], lines[n + 1])
    BY <1>4, <2>2
  <2> QED
    BY <2>2, <2>3, <2>4, TakeOne
<1> HIDE DEF S
<1>7. m \in S
  BY <1>1, <1>5, <1>6, AllNumbers
<1>8. Is(m)
  BY <1>1, <1>7 DEF S
<1> QED
  BY <1>2, <1>8 DEF m

-----------------------------------------------------------------------------
(* What LimitsHeld says of an answer. *)
Answered(a) ==
    LET kept == a.cut.body.lines
        asked == a.of.lines
        n == Len(kept)
        m == Len(asked)
    IN
    /\ n <= maxLines \/ a.cut.partial
    /\ Bytes(a.cut.body) <= maxBytes
    /\ a.cut.by = None => a.cut.body = a.of
    /\ a.cut.by # None /\ a.tool = "read" =>
        /\ kept = SubSeq(asked, 1, n)
        /\ n = m \/ n = maxLines \/ Bytes(Joined(a.of, 1, n + 1)) > maxBytes
    /\ a.cut.by # None /\ a.tool = "bash" /\ ~a.cut.partial =>
        /\ kept = SubSeq(asked, m - n + 1, m)
        /\ n = m \/ n = maxLines \/ Bytes(Joined(a.of, m - n, m)) > maxBytes
    /\ a.cut.partial =>
        LET last == asked[m]
            k == Len(kept[1])
        IN
        /\ kept[1] = SubSeq(last, Len(last) - k + 1, Len(last))
        /\ k < Len(last) /\ LengthOf(SubSeq(last, Len(last) - k, Len(last))) > maxBytes

Answer(tool, of, cut) == [tool |-> tool, of |-> of, cut |-> cut]

LEMMA AnswersAre ==
    ASSUME NEW tool, NEW lines, NEW ended, NEW kept, NEW end, NEW by, NEW partial
    PROVE  LET a == Answer(tool, Text(lines, ended), Cut(Text(kept, end), by, partial)) IN
           /\ a.tool = tool /\ a.of = Text(lines, ended) /\ a.of.lines = lines
           /\ a.cut.body = Text(kept, end) /\ a.cut.body.lines = kept /\ a.cut.by = by
           /\ a.cut.partial = partial
BY DEF Answer, Text, Cut

(* A text that fits is answered as it is. *)
LEMMA WholeAnswers ==
    ASSUME NEW tool, NEW lines, NEW ended, Fits(Text(lines, ended))
    PROVE  Answered(Answer(tool, Text(lines, ended), Cut(Text(lines, ended), None, FALSE)))
<1> DEFINE t == Text(lines, ended)
           a == Answer(tool, t, Cut(t, None, FALSE))
<1>1. /\ a.of = t /\ a.of.lines = lines /\ a.cut.body = t /\ a.cut.body.lines = lines /\ a.cut.by = None
      /\ a.cut.partial = FALSE /\ t.lines = lines
  BY DEF Answer, Text, Cut
<1> HIDE DEF a, t
<1>2. Len(lines) <= maxLines /\ Bytes(t) <= maxBytes
  BY <1>1 DEF Fits, t
<1>3. Answered(a)
  BY <1>1, <1>2 DEF Answered
<1> QED
  BY <1>3 DEF a, t

LEMMA HeadAnswers ==
    ASSUME maxLines \in Nat, maxBytes \in Nat, LimitsAssumption,
           NEW lines \in Seq(Seq(Nat)), NEW ended \in BOOLEAN
    PROVE  /\ Answered(Answer("read", Text(lines, ended), HeadOf(Text(lines, ended))))
           /\ HeadOf(Text(lines, ended)).by = None => HeadOf(Text(lines, ended)).body = Text(lines, ended)
<1> DEFINE t == Text(lines, ended)
           m == Len(lines)
<1>1. t.lines = lines /\ m \in Nat
  BY LenProperties DEF Text
<1>2. CASE Fits(t)
  <2>1. HeadOf(t) = Cut(t, None, FALSE)
    BY <1>2 DEF HeadOf
  <2>2. Cut(t, None, FALSE).by = None /\ Cut(t, None, FALSE).body = t
    BY DEF Cut
  <2> QED
    BY <1>2, <2>1, <2>2, WholeAnswers
<1>3. CASE ~ Fits(t)
  <2>1. PICK k, full : /\ Fitting(lines, m, k, full)
                       /\ Greedy(lines) = Taken(SubSeq(lines, 1, k), Spread(SubSeq(lines, 1, k)), full)
    BY GreedyTakes
  <2>2. PICK kept : kept = SubSeq(lines, 1, k)
    OBVIOUS
  <2>3. PICK by : by = IF full THEN "bytes" ELSE "lines"
    OBVIOUS
  <2>4. by # None
    BY <2>3 DEF LimitsAssumption
  <2>5. HeadOf(t) = Cut(Text(kept, FALSE), by, FALSE)
    <3>1. Greedy(t.lines).kept = kept /\ Greedy(t.lines).full = full
      <4>1. Greedy(t.lines) = Taken(kept, Spread(kept), full)
        BY <1>1, <2>1, <2>2
      <4>2. \A b : Taken(kept, b, full).kept = kept /\ Taken(kept, b, full).full = full
        BY DEF Taken
      <4> QED
        BY <4>1, <4>2
    <3> HIDE DEF t
    <3> QED
      BY <1>3, <2>3, <3>1 DEF HeadOf
  <2>6. /\ k \in 0 .. m /\ k <= maxLines /\ Spread(kept) <= maxBytes
        /\ k = m \/ k = maxLines \/ Spread(SubSeq(lines, 1, k + 1)) > maxBytes
    BY <2>1, <2>2 DEF Fitting
  <2>7. Len(kept) = k
    BY <1>1, <2>2, <2>6
  <2>8. Bytes(Text(kept, FALSE)) <= maxBytes
    <3>1. kept \in Seq(Seq(Nat))
      BY <1>1, <2>2, <2>6
    <3> QED
      BY <2>6, <3>1, BytesAlone
  <2>9. k = m \/ k = maxLines \/ Bytes(Joined(t, 1, k + 1)) > maxBytes
    <3>1. SUFFICES ASSUME k # m, k # maxLines PROVE Bytes(Joined(t, 1, k + 1)) > maxBytes
      OBVIOUS
    <3>2. Joined(t, 1, k + 1) = Text(SubSeq(lines, 1, k + 1), FALSE)
      BY <1>1 DEF Joined
    <3>3. SubSeq(lines, 1, k + 1) \in Seq(Seq(Nat))
      BY <1>1, <2>6, <3>1
    <3>4. Spread(SubSeq(lines, 1, k + 1)) > maxBytes
      BY <2>6, <3>1
    <3> QED
      BY <3>2, <3>3, <3>4, BytesAlone
  <2> DEFINE h == Cut(Text(kept, FALSE), by, FALSE)
             a == Answer("read", t, h)
  <2>10. /\ a.tool = "read" /\ a.of = t /\ a.of.lines = lines /\ a.cut.body = Text(kept, FALSE)
         /\ a.cut.body.lines = kept /\ a.cut.by = by /\ a.cut.partial = FALSE /\ h.by = by
    BY <1>1 DEF Answer, Text, Cut
  <2> HIDE DEF a, t, h, m
  <2>11. Answered(a)
    <3>1. Len(lines) = m
      BY DEF m
    <3> QED
      BY <2>2, <2>4, <2>6, <2>7, <2>8, <2>9, <2>10, <3>1 DEF Answered
  <2>12. HeadOf(t) = h
    BY <2>5 DEF h
  <2>13. Answered(Answer("read", t, HeadOf(t)))
    BY <2>11, <2>12 DEF a
  <2>14. HeadOf(t).by # None
    BY <2>4, <2>10, <2>12
  <2> QED
    BY <2>13, <2>14 DEF t
<1> QED
  BY <1>2, <1>3

LEMMA LargestIs ==
    ASSUME NEW n \in Nat, NEW S, S \subseteq 0 .. n, S # {}
    PROVE  Max(S) \in S /\ \A k \in S : Max(S) >= k
<1> DEFINE T == {n - k : k \in S}
<1>1. T \subseteq Nat /\ T # {}
  <2>1. \A k \in S : n - k \in Nat
    OBVIOUS
  <2>2. PICK k : k \in S
    OBVIOUS
  <2>3. n - k \in T
    BY <2>2
  <2> QED
    BY <2>1, <2>3
<1>2. PICK j \in T : \A i \in T : j <= i
  BY <1>1, LeastIndex
<1>3. PICK x \in S : j = n - x
  BY <1>2
<1>4. \A k \in S : x >= k
  <2>1. TAKE k \in S
  <2>2. j <= n - k
    BY <1>2
  <2> QED
    BY <1>3, <2>2
<1> QED
  BY <1>4 DEF Max

(* Of two numbers. *)
LEMMA SmallerIs ==
    ASSUME NEW a \in Int, NEW b \in Int
    PROVE  Min({a, b}) = IF a <= b THEN a ELSE b
<1>1. \E x \in {a, b} : \A y \in {a, b} : x <= y
  OBVIOUS
<1>2. Min({a, b}) \in {a, b} /\ \A y \in {a, b} : Min({a, b}) <= y
  BY <1>1 DEF Min
<1> QED
  BY <1>2

(* The end of a line that is too long. *)
LEMMA SuffixIs ==
    ASSUME maxBytes \in Nat, NEW line \in Seq(Nat), LengthOf(line) > maxBytes
    PROVE  \E k \in Nat :
            /\ k < Len(line) /\ Suffix(line) = SubSeq(line, Len(line) - k + 1, Len(line))
            /\ Suffix(line) \in Seq(Nat) /\ Len(Suffix(line)) = k /\ LengthOf(Suffix(line)) <= maxBytes
            /\ LengthOf(SubSeq(line, Len(line) - k, Len(line))) > maxBytes
<1> DEFINE n == Len(line)
           S == {k \in 0 .. n : LengthOf(SubSeq(line, n - k + 1, n)) <= maxBytes}
           k == Max(S)
<1>1. n \in Nat
  BY LenProperties
<1>2. 0 \in S
  <2>1. SubSeq(line, n - 0 + 1, n) = <<>>
    BY <1>1
  <2>2. LengthOf(SubSeq(line, n - 0 + 1, n)) = 0
    BY <2>1, TotalEmpty DEF LengthOf
  <2>3. 0 \in 0 .. n /\ 0 <= maxBytes
    BY <1>1
  <2> HIDE DEF n
  <2> QED
    BY <2>2, <2>3
<1>3. k \in S /\ \A j \in S : k >= j
  <2>1. S \subseteq 0 .. n /\ S # {}
    BY <1>2
  <2> HIDE DEF S, n
  <2> QED
    BY <1>1, <2>1, LargestIs
<1>4. Suffix(line) = SubSeq(line, n - k + 1, n)
  BY DEF Suffix
<1> HIDE DEF k
<1>5. k \in 0 .. n /\ LengthOf(SubSeq(line, n - k + 1, n)) <= maxBytes
  BY <1>3
<1>6. k # n
  <2>1. SUFFICES ASSUME k = n PROVE FALSE
    OBVIOUS
  <2>2. n - k + 1 = 1
    BY <1>1, <2>1
  <2>3. SubSeq(line, 1, n) = line
    OBVIOUS
  <2>4. LengthOf(line) <= maxBytes
    BY <1>5, <2>2, <2>3
  <2>5. LengthOf(line) \in Nat
    BY TotalIsNumber DEF LengthOf
  <2> QED
    BY <2>4, <2>5
<1>7. k < n /\ k + 1 \in 0 .. n /\ n - (k + 1) + 1 = n - k
  BY <1>1, <1>5, <1>6
<1>8. LengthOf(SubSeq(line, n - k, n)) > maxBytes
  <2>1. k + 1 \notin S
    BY <1>1, <1>3, <1>7
  <2>2. ~ (LengthOf(SubSeq(line, n - k, n)) <= maxBytes)
    BY <1>7, <2>1
  <2>3. SubSeq(line, n - k, n) \in Seq(Nat)
    BY <1>1, <1>7
  <2>4. LengthOf(SubSeq(line, n - k, n)) \in Nat
    BY <2>3, TotalIsNumber DEF LengthOf
  <2> QED
    BY <2>2, <2>4
<1>9. SubSeq(line, n - k + 1, n) \in Seq(Nat) /\ Len(SubSeq(line, n - k + 1, n)) = k
  BY <1>1, <1>5
<1>10. k \in Nat
  BY <1>1, <1>5
<1> QED
  BY <1>4, <1>5, <1>7, <1>8, <1>9, <1>10

(* What is first in the reverse is last. *)
LEMMA FirstOfReverse ==
    ASSUME NEW X, NEW s \in Seq(X), NEW k \in 0 .. Len(s)
    PROVE  /\ SubSeq(s, Len(s) - k + 1, Len(s)) \in Seq(X) /\ Len(SubSeq(s, Len(s) - k + 1, Len(s))) = k
           /\ SubSeq(Reverse(s), 1, k) \in Seq(X)
           /\ Reverse(SubSeq(Reverse(s), 1, k)) = SubSeq(s, Len(s) - k + 1, Len(s))
<1> DEFINE r == Reverse(s)
           u == SubSeq(r, 1, k)
           b == SubSeq(s, Len(s) - k + 1, Len(s))
<1>1. PICK n \in Nat : n = Len(s)
  BY LenProperties
<1>2. r \in Seq(X) /\ Len(r) = n /\ \A i \in 1 .. n : r[i] = s[(n - i) + 1]
  BY <1>1, ReverseFacts
<1> HIDE DEF r
<1>3. u \in Seq(X) /\ Len(u) = k /\ \A i \in 1 .. k : u[i] = r[i]
  BY <1>1, <1>2
<1>4. b \in Seq(X) /\ Len(b) = k /\ \A i \in 1 .. k : b[i] = s[(n - k) + i]
  <2>1. \A i \in n - k + 1 .. n : s[i] \in X
    BY <1>1
  <2>2. n - k + 1 \in Int /\ n \in Int
    BY <1>1
  <2>3. /\ b \in Seq(X) /\ Len(b) = IF n - k + 1 <= n THEN n - (n - k + 1) + 1 ELSE 0
        /\ \A i \in 1 .. n - (n - k + 1) + 1 : b[i] = s[(n - k + 1) + i - 1]
    BY <1>1, <2>1, <2>2, SubSeqProperties
  <2> HIDE DEF b
  <2>4. n - (n - k + 1) + 1 = k /\ \A i \in 1 .. k : (n - k + 1) + i - 1 = (n - k) + i
    BY <1>1
  <2>5. Len(b) = k
    <3>1. k = 0 => ~ (n - k + 1 <= n)
      BY <1>1
    <3> QED
      BY <2>3, <2>4, <3>1
  <2> QED
    BY <2>3, <2>4, <2>5
<1> HIDE DEF u, b
<1>5. Reverse(u) \in Seq(X) /\ Len(Reverse(u)) = k /\ \A i \in 1 .. k : Reverse(u)[i] = u[(k - i) + 1]
  BY <1>3, ReverseFacts
<1>6. ASSUME NEW i \in 1 .. k PROVE Reverse(u)[i] = b[i]
  <2>1. (k - i) + 1 \in 1 .. k /\ (k - i) + 1 \in 1 .. n
    BY <1>1
  <2>2. Reverse(u)[i] = r[(k - i) + 1]
    BY <1>3, <1>5, <2>1
  <2>3. (n - ((k - i) + 1)) + 1 = (n - k) + i
    BY <1>1
  <2> QED
    BY ZenonT(60), <1>2, <1>4, <2>1, <2>2, <2>3
<1>7. Reverse(u) = b
  BY <1>4, <1>5, <1>6, SeqEqual
<1> QED
  BY <1>3, <1>4, <1>7 DEF b, r, u

LEMMA ReverseOfFirst ==
    ASSUME NEW lines \in Seq(Seq(Nat)), NEW k \in 0 .. Len(lines)
    PROVE  /\ SubSeq(lines, Len(lines) - k + 1, Len(lines)) \in Seq(Seq(Nat))
           /\ Len(SubSeq(lines, Len(lines) - k + 1, Len(lines))) = k
           /\ Reverse(SubSeq(Reverse(lines), 1, k)) = SubSeq(lines, Len(lines) - k + 1, Len(lines))
           /\ Spread(SubSeq(Reverse(lines), 1, k)) = Spread(SubSeq(lines, Len(lines) - k + 1, Len(lines)))
<1>1. /\ SubSeq(lines, Len(lines) - k + 1, Len(lines)) \in Seq(Seq(Nat))
      /\ Len(SubSeq(lines, Len(lines) - k + 1, Len(lines))) = k
      /\ SubSeq(Reverse(lines), 1, k) \in Seq(Seq(Nat))
      /\ Reverse(SubSeq(Reverse(lines), 1, k)) = SubSeq(lines, Len(lines) - k + 1, Len(lines))
  BY FirstOfReverse
<1>2. Spread(Reverse(SubSeq(Reverse(lines), 1, k))) = Spread(SubSeq(Reverse(lines), 1, k))
  BY <1>1, SpreadOfReverse
<1> QED
  BY <1>1, <1>2

(* One line alone. *)
LEMMA SpreadOfOne ==
    ASSUME NEW line \in Seq(Nat)
    PROVE  <<line>> \in Seq(Seq(Nat)) /\ Spread(<<line>>) = LengthOf(line)
<1>1. <<>> \in Seq(Seq(Nat)) /\ Append(<<>>, line) = <<line>> /\ <<line>> \in Seq(Seq(Nat))
  OBVIOUS
<1>2. Spread(<<>>) = 0
  <2>1. Lengths(<<>>) = <<>>
    BY DEF Lengths
  <2> QED
    BY <2>1, TotalEmpty DEF Spread
<1>3. Spread(<<line>>) = 0 + (LengthOf(line) + 0)
  BY <1>1, <1>2, SpreadOfMore
<1>4. PICK n \in Nat : n = LengthOf(line)
  BY TotalIsNumber DEF LengthOf
<1>5. 0 + (n + 0) = n
  OBVIOUS
<1> QED
  BY <1>1, <1>3, <1>4, <1>5

LEMMA TailAnswers ==
    ASSUME maxLines \in Nat, maxBytes \in Nat, LimitsAssumption,
           NEW lines \in Seq(Seq(Nat)), NEW ended \in BOOLEAN
    PROVE  Answered(Answer("bash", Text(lines, ended), TailOf(Text(lines, ended))))
<1> DEFINE t == Text(lines, ended)
           m == Len(lines)
           r == Reverse(lines)
<1>1. t.lines = lines /\ m \in Nat /\ r \in Seq(Seq(Nat)) /\ Len(r) = m
  BY LenProperties, ReverseFacts DEF Text
<1>2. CASE Fits(t)
  <2>1. TailOf(t) = Cut(t, None, FALSE)
    BY <1>2 DEF TailOf
  <2> QED
    BY <1>2, <2>1, WholeAnswers
<1>3. CASE ~ Fits(t)
  <2>1. PICK k, full : /\ Fitting(r, m, k, full)
                       /\ Greedy(r) = Taken(SubSeq(r, 1, k), Spread(SubSeq(r, 1, k)), full)
    BY <1>1, GreedyTakes
  <2>2. k \in 0 .. m /\ full \in BOOLEAN
    BY <2>1 DEF Fitting
  <2>3. PICK first : first = SubSeq(r, 1, k)
    OBVIOUS
  <2>4. Greedy(Reverse(t.lines)).kept = first /\ Greedy(Reverse(t.lines)).full = full
    <3>1. Greedy(Reverse(t.lines)) = Taken(first, Spread(first), full)
      BY <1>1, <2>1, <2>3
    <3>2. \A b : Taken(first, b, full).kept = first /\ Taken(first, b, full).full = full
      BY DEF Taken
    <3> QED
      BY <3>1, <3>2
  <2>5. CASE full /\ first = <<>>
    <3>1. k = 0
      <4>1. Len(first) = k
        BY <1>1, <2>2, <2>3
      <4> QED
        BY <2>5, <4>1
    <3>2. 1 \in 0 .. m /\ m \in 1 .. m /\ Spread(SubSeq(r, 1, 1)) > maxBytes
      BY <1>1, <2>1, <2>2, <2>5, <3>1 DEF Fitting
    <3>3. PICK last \in Seq(Nat) : last = lines[m]
      BY <3>2
    <3>4. SubSeq(lines, m - 1 + 1, m) = <<last>>
      <4>1. m - 1 + 1 = m /\ m \in Int /\ m - m + 1 = 1 /\ m + 1 - 1 = m /\ m <= m
        BY <1>1
      <4>2. \A i \in m .. m : lines[i] \in Seq(Nat)
        BY <3>2, ElementOfSeq
      <4>3. /\ SubSeq(lines, m, m) \in Seq(Seq(Nat)) /\ Len(SubSeq(lines, m, m)) = 1
            /\ SubSeq(lines, m, m)[1] = lines[m]
        BY <4>1, <4>2, SubSeqProperties
      <4>4. <<last>> \in Seq(Seq(Nat)) /\ Len(<<last>>) = 1 /\ <<last>>[1] = last
        OBVIOUS
      <4>5. \A i \in 1 .. 1 : SubSeq(lines, m, m)[i] = <<last>>[i]
        BY <3>3, <4>3, <4>4
      <4>6. SubSeq(lines, m, m) = <<last>>
        BY <4>3, <4>4, <4>5, SeqEqual
      <4> QED
        BY <4>1, <4>6
    <3>5. LengthOf(last) > maxBytes
      BY <3>2, <3>4, ReverseOfFirst, SpreadOfOne
    <3>6. PICK j \in Nat :
            /\ j < Len(last) /\ Suffix(last) = SubSeq(last, Len(last) - j + 1, Len(last))
            /\ Suffix(last) \in Seq(Nat) /\ Len(Suffix(last)) = j /\ LengthOf(Suffix(last)) <= maxBytes
            /\ LengthOf(SubSeq(last, Len(last) - j, Len(last))) > maxBytes
      BY <3>5, SuffixIs
    <3>7. PICK u \in Seq(Nat) : u = Suffix(last)
      BY <3>6
    <3>8. PICK by : by = IF maxLines = 1 THEN "lines" ELSE "bytes"
      OBVIOUS
    <3> DEFINE h == Cut(Text(<<u>>, FALSE), by, TRUE)
               a == Answer("bash", t, h)
    <3>9. TailOf(t) = h
      <4>1. Last(t.lines) = last
        BY <1>1, <3>3 DEF Last
      <4> HIDE DEF t, r, m
      <4> QED
        BY <1>3, <2>4, <2>5, <3>7, <3>8, <4>1 DEF TailOf
    <3>10. by # None
      BY <3>8 DEF LimitsAssumption
    <3>11. /\ a.tool = "bash" /\ a.of = t /\ a.of.lines = lines /\ a.cut.body = Text(<<u>>, FALSE)
           /\ a.cut.body.lines = <<u>> /\ a.cut.by = by /\ a.cut.partial = TRUE
      BY <1>1 DEF Answer, Text, Cut
    <3>12. Bytes(Text(<<u>>, FALSE)) <= maxBytes
      BY <3>6, <3>7, SpreadOfOne, BytesAlone
    <3> HIDE DEF a, h, t
    <3>13. Answered(a)
      <4>1. <<u>>[1] = u
        OBVIOUS
      <4> QED
        BY <3>3, <3>6, <3>7, <3>10, <3>11, <3>12, <4>1 DEF Answered
    <3> QED
      BY <3>9, <3>13 DEF a, t
  <2>6. CASE ~ (full /\ first = <<>>)
    <3>1. PICK kept : kept = SubSeq(lines, m - k + 1, m)
      OBVIOUS
    <3>2. kept \in Seq(Seq(Nat)) /\ Len(kept) = k /\ Reverse(first) = kept /\ Spread(first) = Spread(kept)
      BY <2>2, <2>3, <3>1, ReverseOfFirst
    <3>3. PICK by : by = IF full THEN "bytes" ELSE "lines"
      OBVIOUS
    <3> DEFINE h == Cut(Text(kept, FALSE), by, FALSE)
               a == Answer("bash", t, h)
    <3>4. TailOf(t) = h
      <4> HIDE DEF t, r, m
      <4> QED
        BY <1>3, <2>4, <2>6, <3>2, <3>3 DEF TailOf
    <3>5. by # None
      BY <3>3 DEF LimitsAssumption
    <3>6. /\ a.tool = "bash" /\ a.of = t /\ a.of.lines = lines /\ a.cut.body = Text(kept, FALSE)
          /\ a.cut.body.lines = kept /\ a.cut.by = by /\ a.cut.partial = FALSE
      BY <1>1 DEF Answer, Text, Cut
    <3>7. k <= maxLines /\ Bytes(Text(kept, FALSE)) <= maxBytes
      <4>1. k <= maxLines /\ Spread(first) <= maxBytes
        BY <2>1, <2>3 DEF Fitting
      <4> QED
        BY <3>2, <4>1, BytesAlone
    <3>8. k = m \/ k = maxLines \/ Bytes(Joined(t, m - k, m)) > maxBytes
      <4>1. SUFFICES ASSUME k # m, k # maxLines PROVE Bytes(Joined(t, m - k, m)) > maxBytes
        OBVIOUS
      <4>2. k + 1 \in 0 .. m /\ m - (k + 1) + 1 = m - k
        BY <1>1, <2>2, <4>1
      <4>3. Spread(SubSeq(r, 1, k + 1)) > maxBytes
        BY <2>1, <4>1 DEF Fitting
      <4>4. /\ SubSeq(lines, m - k, m) \in Seq(Seq(Nat))
            /\ Spread(SubSeq(r, 1, k + 1)) = Spread(SubSeq(lines, m - k, m))
        BY <4>2, ReverseOfFirst
      <4>5. Joined(t, m - k, m) = Text(SubSeq(lines, m - k, m), FALSE)
        BY <1>1 DEF Joined
      <4> QED
        BY <4>3, <4>4, <4>5, BytesAlone
    <3> HIDE DEF a, h, t
    <3>9. Answered(a)
      BY <3>1, <3>2, <3>5, <3>6, <3>7, <3>8 DEF Answered
    <3> QED
      BY <3>4, <3>9 DEF a, t
  <2> QED
    BY <2>5, <2>6
<1> QED
  BY <1>2, <1>3

-----------------------------------------------------------------------------
LEMMA PartsOfFirst ==
    ASSUME NEW lines \in Seq(Seq(Nat)), NEW i \in Nat, NEW j \in Nat, i <= j, j <= Len(lines)
    PROVE  SubSeq(lines, 1, i) \o SubSeq(lines, i + 1, j) = SubSeq(lines, 1, j)
OBVIOUS

(* What holds throughout: the text is one, the last answer is as it should be, and one who
   follows the hints has seen the lines before the next hint. *)
LimitsInv ==
    /\ maxLines \in Nat /\ maxBytes \in Nat /\ page \in Nat
    /\ \E lines \in Seq(Seq(Nat)), ended \in BOOLEAN : file = Text(lines, ended)
    /\ answer # None => Answered(answer)
    /\ following =>
        /\ Len(seen) \in Nat /\ Len(seen) <= Len(file.lines)
        /\ seen = SubSeq(file.lines, 1, Len(seen))
        /\ hint # None => hint \in Nat /\ Len(seen) = hint - 1

LEMMA LinesAreSequences ==
    ASSUME LimitsAssumption
    PROVE  Lines \subseteq Seq(Nat) /\ <<1, 1, 1>> \in Seq(Nat)
<1>1. ASSUME NEW l \in Lines PROVE l \in Seq(Nat)
  <2>1. l \in Seq(1 .. 4)
    BY DEF LimitsAssumption
  <2> QED
    BY <2>1
<1> QED
  BY <1>1

LEMMA LimitsInitInv == ASSUME LimitsAssumption, LimitsInit PROVE LimitsInv
<1>1. maxLines \in Nat /\ maxBytes \in Nat /\ page \in Nat
  BY DEF LimitsInit, LimitsAssumption
<1>2. \E lines \in Seq(Seq(Nat)), ended \in BOOLEAN : file = Text(lines, ended)
  <2>1. file \in [lines : UNION {[1 .. n -> Lines] : n \in 0 .. MaxLength}, ended : BOOLEAN]
    BY DEF LimitsInit, Contents
  <2>2. file = [lines |-> file.lines, ended |-> file.ended] /\ file.ended \in BOOLEAN
    BY <2>1
  <2>3. PICK n \in 0 .. MaxLength : file.lines \in [1 .. n -> Lines]
    BY <2>1
  <2>4. n \in Nat
    BY DEF LimitsAssumption
  <2>5. file.lines \in [1 .. n -> Seq(Nat)]
    BY <2>3, LinesAreSequences
  <2>6. file.lines \in Seq(Seq(Nat))
    BY <2>4, <2>5, SeqDef
  <2> QED
    BY <2>2, <2>6 DEF Text
<1>3. answer = None /\ following = FALSE
  BY DEF LimitsInit
<1> QED
  BY <1>1, <1>2, <1>3 DEF LimitsInv

(* What Read cuts is lines of the file. *)
LEMMA SelectedIs ==
    ASSUME NEW lines \in Seq(Seq(Nat)), NEW ended \in BOOLEAN, file = Text(lines, ended),
           NEW offset \in Nat, offset # 0, NEW limit \in Nat
    PROVE  \E start \in Nat, stop \in Nat, part \in Seq(Seq(Nat)), end \in BOOLEAN :
            /\ Selected(offset, limit) = [start |-> start, stop |-> stop, text |-> Text(part, end)]
            /\ part = SubSeq(lines, start + 1, stop)
            /\ start <= stop /\ stop <= Len(lines)
            /\ offset - 1 <= Len(lines) => start = offset - 1
<1> DEFINE n == Len(lines)
           start == Min({offset - 1, n})
           stop == Min({start + limit, n})
           part == SubSeq(lines, start + 1, stop)
           end == start < stop /\ (stop < n \/ ended)
<1>1. n \in Nat /\ file.lines = lines /\ file.ended = ended
  BY LenProperties DEF Text
<1>2. offset - 1 \in Nat
  OBVIOUS
<1>3. start = IF offset - 1 <= n THEN offset - 1 ELSE n
  <2> HIDE DEF n
  <2> QED
    BY <1>1, <1>2, SmallerIs
<1> HIDE DEF start
<1>4. start \in Nat /\ start <= n /\ start + limit \in Nat
  BY <1>1, <1>2, <1>3
<1>5. stop = IF start + limit <= n THEN start + limit ELSE n
  <2> HIDE DEF n
  <2> QED
    BY <1>1, <1>4, SmallerIs
<1> HIDE DEF stop
<1>6. stop \in Nat /\ start <= stop /\ stop <= n
  BY <1>1, <1>4, <1>5
<1>7. part \in Seq(Seq(Nat))
  BY <1>1, <1>4, <1>6
<1>8. end \in BOOLEAN
  OBVIOUS
<1>9. Selected(offset, limit) = [start |-> start, stop |-> stop, text |-> Text(part, end)]
  BY <1>1 DEF Selected, start, stop
<1> HIDE DEF end
<1> QED
  BY <1>3, <1>4, <1>6, <1>7, <1>8, <1>9

LEMMA ReadKeeps ==
    ASSUME LimitsAssumption, LimitsInv, NEW offset \in Nat, offset # 0, NEW limit \in Nat, Read(offset, limit)
    PROVE  LimitsInv'
<1>1. /\ maxLines \in Nat /\ maxBytes \in Nat /\ page \in Nat
      /\ maxLines' = maxLines /\ maxBytes' = maxBytes /\ page' = page /\ file' = file
  BY DEF LimitsInv, Read
<1>2. PICK lines \in Seq(Seq(Nat)), ended \in BOOLEAN : file = Text(lines, ended)
  BY DEF LimitsInv
<1>3. file.lines = lines /\ Len(lines) \in Nat
  BY <1>2, LenProperties DEF Text
<1>4. PICK start \in Nat, stop \in Nat, part \in Seq(Seq(Nat)), end \in BOOLEAN :
            /\ Selected(offset, limit) = [start |-> start, stop |-> stop, text |-> Text(part, end)]
            /\ part = SubSeq(lines, start + 1, stop)
            /\ start <= stop /\ stop <= Len(lines)
            /\ offset - 1 <= Len(lines) => start = offset - 1
  BY <1>2, SelectedIs
<1> DEFINE cut == HeadOf(Text(part, end))
           goesOn == hint # None /\ following /\ offset = hint
<1>5. /\ answer' = Answer("read", Text(part, end), cut)
      /\ hint' = IF stop < Len(lines) THEN stop + 1 ELSE None
      /\ following' = ((offset = 1 \/ goesOn) /\ cut.by = None)
      /\ seen' = IF offset = 1 THEN cut.body.lines ELSE IF goesOn THEN seen \o cut.body.lines ELSE <<>>
  <2>1. /\ Selected(offset, limit).text = Text(part, end) /\ Selected(offset, limit).stop = stop
    BY <1>4
  <2> QED
    BY <1>3, <2>1 DEF Read, Answer
<1>6. Answered(Answer("read", Text(part, end), cut)) /\ (cut.by = None => cut.body = Text(part, end))
  BY <1>1, HeadAnswers
<1> HIDE DEF cut
<1>7. Answered(answer)'
  <2>1. Answered(answer') /\ maxLines' = maxLines /\ maxBytes' = maxBytes
    BY <1>1, <1>5, <1>6
  <2> QED
    BY <2>1 DEF Answered
<1>8. ASSUME following'
      PROVE  /\ Len(seen') \in Nat /\ Len(seen') <= Len(lines) /\ seen' = SubSeq(lines, 1, Len(seen'))
             /\ hint' # None => hint' \in Nat /\ Len(seen') = hint' - 1
  <2>1. cut.body.lines = part /\ (offset = 1 \/ goesOn)
    <3>1. (offset = 1 \/ goesOn) /\ cut.by = None
      <4>1. following' = ((offset = 1 \/ goesOn) /\ cut.by = None)
        BY <1>5
      <4> HIDE DEF goesOn
      <4> QED
        BY <1>8, <4>1
    <3>2. cut.body = Text(part, end)
      BY <1>6, <3>1
    <3> QED
      BY <3>1, <3>2 DEF Text
  <2>2. seen' = SubSeq(lines, 1, stop)
    <3>1. CASE offset = 1
      <4>1. start = 0
        BY <1>3, <1>4, <3>1
      <4> QED
        BY <1>4, <1>5, <2>1, <3>1, <4>1
    <3>2. CASE offset # 1 /\ goesOn
      <4>1. /\ Len(seen) \in Nat /\ Len(seen) <= Len(lines) /\ Len(seen) = offset - 1
            /\ seen = SubSeq(lines, 1, Len(seen))
        BY <1>3, <3>2 DEF LimitsInv
      <4>2. start = Len(seen)
        BY <1>4, <4>1
      <4>3. seen' = SubSeq(lines, 1, start) \o SubSeq(lines, start + 1, stop)
        BY <1>4, <1>5, <2>1, <3>2, <4>1, <4>2
      <4>4. SubSeq(lines, 1, start) \o SubSeq(lines, start + 1, stop) = SubSeq(lines, 1, stop)
        BY <1>3, <1>4, PartsOfFirst
      <4> QED
        BY <4>3, <4>4
    <3> QED
      BY <2>1, <3>1, <3>2
  <2>3. Len(seen') = stop
    BY <1>3, <1>4, <2>2
  <2>4. hint' # None => hint' = stop + 1
    BY <1>5
  <2> QED
    BY <1>4, <2>2, <2>3, <2>4
<1>9. file'.lines = lines
  BY <1>1, <1>3
<1> QED
  BY <1>1, <1>2, <1>7, <1>8, <1>9 DEF LimitsInv

LEMMA ReadNumberedKeeps ==
    ASSUME LimitsAssumption, LimitsInv, NEW limit \in Nat, ReadNumbered(1, limit)
    PROVE  LimitsInv'
<1>1. /\ maxLines \in Nat /\ maxBytes \in Nat /\ page \in Nat
      /\ maxLines' = maxLines /\ maxBytes' = maxBytes /\ page' = page /\ file' = file /\ following' = FALSE
  BY DEF LimitsInv, ReadNumbered
<1>2. PICK lines \in Seq(Seq(Nat)), ended \in BOOLEAN : file = Text(lines, ended)
  BY DEF LimitsInv
<1>3. PICK start \in Nat, stop \in Nat, part \in Seq(Seq(Nat)), end \in BOOLEAN :
        Selected(1, limit) = [start |-> start, stop |-> stop, text |-> Text(part, end)]
  <2>1. PICK offset \in Nat : offset = 1 /\ offset # 0
    OBVIOUS
  <2>2. \E start \in Nat, stop \in Nat, part \in Seq(Seq(Nat)), end \in BOOLEAN :
            /\ Selected(offset, limit) = [start |-> start, stop |-> stop, text |-> Text(part, end)]
            /\ part = SubSeq(lines, start + 1, stop)
            /\ start <= stop /\ stop <= Len(lines)
            /\ offset - 1 <= Len(lines) => start = offset - 1
    BY <1>2, <2>1, ZenonT(60), SelectedIs
  <2> QED
    BY <2>1, <2>2
<1>4. Selected(1, limit).text.lines = part
  BY <1>3 DEF Text
<1> DEFINE numbered == [i \in DOMAIN part |-> <<1, 1, 1>> \o part[i]]
<1>5. numbered \in Seq(Seq(Nat))
  <2>1. PICK n \in Nat : n = Len(part) /\ DOMAIN part = 1 .. n
    BY LenProperties
  <2>2. ASSUME NEW i \in 1 .. n PROVE <<1, 1, 1>> \o part[i] \in Seq(Nat)
    <3>1. part[i] \in Seq(Nat) /\ <<1, 1, 1>> \in Seq(Nat)
      BY <2>1, ElementOfSeq
    <3> QED
      BY <3>1, ConcatProperties
  <2>3. numbered \in [1 .. n -> Seq(Nat)]
    BY <2>1, <2>2
  <2> HIDE DEF numbered
  <2>4. Seq(Seq(Nat)) = UNION {[1 .. k -> Seq(Nat)] : k \in Nat}
    BY SeqDef
  <2> QED
    BY <2>1, <2>3, <2>4
<1>6. answer' = Answer("read", Text(numbered, FALSE), HeadOf(Text(numbered, FALSE)))
  BY <1>4 DEF ReadNumbered, Answer
<1> HIDE DEF numbered
<1>7. Answered(answer') /\ maxLines' = maxLines /\ maxBytes' = maxBytes
  BY <1>1, <1>5, <1>6, HeadAnswers
<1>8. Answered(answer)'
  BY <1>7 DEF Answered
<1> QED
  BY <1>1, <1>2, <1>8 DEF LimitsInv

LEMMA BashKeeps == ASSUME LimitsAssumption, LimitsInv, Bash PROVE LimitsInv'
<1>1. /\ maxLines \in Nat /\ maxBytes \in Nat /\ page \in Nat
      /\ maxLines' = maxLines /\ maxBytes' = maxBytes /\ page' = page /\ file' = file
      /\ hint' = hint /\ seen' = seen /\ following' = following
  BY DEF LimitsInv, Bash
<1>2. PICK lines \in Seq(Seq(Nat)), ended \in BOOLEAN : file = Text(lines, ended)
  BY DEF LimitsInv
<1>3. answer' = Answer("bash", Text(lines, ended), TailOf(Text(lines, ended)))
  BY <1>2 DEF Bash, Answer
<1>4. Answered(answer') /\ maxLines' = maxLines /\ maxBytes' = maxBytes
  BY <1>1, <1>3, TailAnswers
<1>5. Answered(answer)'
  BY <1>4 DEF Answered
<1> QED
  BY <1>1, <1>5 DEF LimitsInv

LEMMA GrowKeeps == ASSUME LimitsAssumption, LimitsInv, NEW line \in Lines, Grow(line) PROVE LimitsInv'
<1>1. /\ maxLines \in Nat /\ maxBytes \in Nat /\ page \in Nat
      /\ maxLines' = maxLines /\ maxBytes' = maxBytes /\ page' = page /\ answer' = answer
      /\ hint' = hint /\ seen' = seen /\ following' = following
      /\ file' = Text(Append(file.lines, line), TRUE)
  BY DEF LimitsInv, Grow
<1>2. PICK lines \in Seq(Seq(Nat)), ended \in BOOLEAN : file = Text(lines, ended)
  BY DEF LimitsInv
<1>3. file.lines = lines /\ Len(lines) \in Nat /\ line \in Seq(Nat)
  BY <1>2, LenProperties, LinesAreSequences DEF Text
<1>4. PICK more \in Seq(Seq(Nat)) : more = Append(lines, line)
  BY <1>3, AppendProperties
<1>5. file'.lines = more /\ \E l \in Seq(Seq(Nat)), e \in BOOLEAN : file' = Text(l, e)
  BY <1>1, <1>3, <1>4 DEF Text
<1>6. Len(lines) <= Len(more) /\ \A k \in Nat : k <= Len(lines) => SubSeq(more, 1, k) = SubSeq(lines, 1, k)
  BY <1>3, <1>4
<1>7. (answer # None => Answered(answer))'
  BY <1>1 DEF LimitsInv, Answered
<1>8. following => /\ Len(seen) \in Nat /\ Len(seen) <= Len(more) /\ seen = SubSeq(more, 1, Len(seen))
                   /\ hint # None => hint \in Nat /\ Len(seen) = hint - 1
  BY <1>3, <1>4, <1>6, LenProperties DEF LimitsInv
<1> QED
  BY <1>1, <1>5, <1>7, <1>8 DEF LimitsInv

LEMMA LimitsNextInv == ASSUME LimitsAssumption, LimitsInv, [LimitsNext]_limitVars PROVE LimitsInv'
<1>1. MaxLength \in Nat /\ page \in Nat /\ 1 \in Nat
  BY DEF LimitsAssumption, LimitsInv
<1>2. CASE \E offset \in 1 .. MaxLength + 1, limit \in {1, page} : Read(offset, limit)
  BY <1>1, <1>2, ReadKeeps
<1>3. CASE \E limit \in {1, MaxLength} : ReadNumbered(1, limit)
  BY <1>1, <1>3, ReadNumberedKeeps
<1>4. CASE Bash
  BY <1>4, BashKeeps
<1>5. CASE \E line \in Lines : Grow(line)
  BY <1>5, GrowKeeps
<1>6. CASE UNCHANGED limitVars
  <2>1. (answer # None => Answered(answer))'
    BY <1>6 DEF LimitsInv, Answered, limitVars
  <2> QED
    BY <1>6, <2>1 DEF LimitsInv, limitVars
<1> QED
  BY <1>2, <1>3, <1>4, <1>5, <1>6 DEF LimitsNext

(* An answer is never larger than the limits, says what it leaves out, and leaves out no more
   than it must, whatever the text and the limits are; and one who follows the hints of read
   sees every line once. *)
THEOREM LimitsAreHeld == ASSUME LimitsAssumption PROVE LimitsSpec => []LimitsHeld
<1>1. LimitsInit => LimitsInv
  BY LimitsInitInv
<1>2. LimitsInv /\ [LimitsNext]_limitVars => LimitsInv'
  BY LimitsNextInv
<1>3. LimitsInv => LimitsHeld
  BY DEF LimitsInv, LimitsHeld, Answered, Kept, Asked
<1> QED
  BY <1>1, <1>2, <1>3, PTL DEF LimitsSpec
=============================================================================
