--------------------------- MODULE ObserversProofs ---------------------------
(* Theorems about EventStream, Telemetry and InteractiveTui, for any number of consumers, events,
   spans and runs. *)
EXTENDS EventStream, Telemetry, InteractiveTui, SequenceTheorems, FiniteSetTheorems, WellFoundedInduction, TLAPS

Increasing(s) == \A i, j \in DOMAIN s : i < j => s[i] < s[j]

(* The events that consumer c has been given: those it has seen, and that in its future. *)
Held(c) == Elems(received[c]) \cup ({item[c]} \ {0})

Shape ==
    /\ pushed \in Nat
    /\ queue \in Seq(1 .. pushed)
    /\ waiting \in Seq(Consumers \cup {NoOne})
    /\ pc \in [Consumers -> {"ready", "waiting", "woken", "stopped", "cancelled"}]
    /\ item \in [Consumers -> 0 .. pushed]
    /\ received \in [Consumers -> Seq(1 .. pushed)]
    /\ lost \in SUBSET (1 .. pushed)

(* The deque of futures and the consumers that wait agree, and a future is given an event
   only while its consumer waits for it. *)
WaitersInv ==
    /\ \A i \in DOMAIN waiting : waiting[i] # NoOne => pc[waiting[i]] = "waiting"
    /\ \A i, j \in DOMAIN waiting : waiting[i] # NoOne /\ waiting[i] = waiting[j] => i = j
    /\ \A c \in Consumers : pc[c] = "waiting" => queue = <<>> /\ c \in Pending
    /\ \A c \in Consumers : item[c] # 0 => pc[c] = "woken"

OrderInv ==
    /\ Increasing(queue)
    /\ \A c \in Consumers : Increasing(received[c])
    /\ \A c \in Consumers : item[c] # 0 => \A x \in Elems(received[c]) : x < item[c]
    /\ \A x \in Elems(queue) : lost \subseteq 0 .. x - 1
    /\ \A x \in Elems(queue) : \A c \in Consumers : Held(c) \subseteq 0 .. x - 1

(* No event is in two places, and every event is in one. *)
ApartInv ==
    /\ \A c, d \in Consumers : c # d => Held(c) \cap Held(d) = {}
    /\ \A c \in Consumers : Held(c) \cap lost = {}

PlacedInv ==
    \A e \in 1 .. pushed : e \in Elems(queue) \/ e \in lost \/ \E c \in Consumers : e \in Held(c)

EventsInv == Shape /\ WaitersInv /\ OrderInv /\ ApartInv /\ PlacedInv

-----------------------------------------------------------------------------
(* Sequences. *)

LEMMA LeastNatural ==
    ASSUME NEW S, S \subseteq Nat, S # {}
    PROVE  \E n \in S : \A m \in S : n <= m
<1> DEFINE R == OpToRel(<, Nat)
<1>1. IsWellFoundedOn(R, Nat)
  BY NatLessThanWellFounded
<1> HIDE DEF R
<1>2. \E n \in S : \A m \in S : ~ (<<m, n>> \in R)
  BY <1>1, WFMin
<1>3. ASSUME NEW m \in Nat, NEW n \in Nat, ~ (<<m, n>> \in R) PROVE n <= m
  BY <1>3 DEF R, OpToRel
<1> QED
  BY <1>2, <1>3

LEMMA AppendElems ==
    ASSUME NEW S, NEW s \in Seq(S), NEW e \in S
    PROVE  Elems(Append(s, e)) = Elems(s) \cup {e}
<1>1. /\ DOMAIN Append(s, e) = DOMAIN s \cup {Len(s) + 1}
      /\ \A i \in DOMAIN s : Append(s, e)[i] = s[i]
      /\ Append(s, e)[Len(s) + 1] = e
  BY AppendProperties, LenProperties
<1> QED
  BY <1>1 DEF Elems

LEMMA AppendIncreasing ==
    ASSUME NEW s \in Seq(Nat), NEW e \in Nat, Increasing(s), \A x \in Elems(s) : x < e
    PROVE  Increasing(Append(s, e))
<1>1. /\ DOMAIN Append(s, e) = 1 .. Len(s) + 1 /\ DOMAIN s = 1 .. Len(s) /\ Len(s) \in Nat
      /\ \A i \in DOMAIN s : Append(s, e)[i] = s[i]
      /\ Append(s, e)[Len(s) + 1] = e
  BY AppendProperties, LenProperties
<1>2. ASSUME NEW i \in 1 .. Len(s) + 1, NEW j \in 1 .. Len(s) + 1, i < j
      PROVE  Append(s, e)[i] < Append(s, e)[j]
  <2>1. i \in DOMAIN s
    BY <1>1, <1>2
  <2>2. CASE j = Len(s) + 1
    BY <1>1, <2>1, <2>2 DEF Elems
  <2>3. CASE j \in DOMAIN s
    BY <1>1, <1>2, <2>1, <2>3 DEF Increasing
  <2> QED
    BY <1>1, <2>2, <2>3
<1> QED
  BY <1>1, <1>2 DEF Increasing

LEMMA TailElems ==
    ASSUME NEW S, NEW s \in Seq(S), s # <<>>
    PROVE  /\ Head(s) \in S /\ Tail(s) \in Seq(S)
           /\ Elems(s) = {Head(s)} \cup Elems(Tail(s))
<1>1. /\ Head(s) \in S /\ Tail(s) \in Seq(S) /\ Head(s) = s[1]
      /\ DOMAIN s = 1 .. Len(s) /\ DOMAIN Tail(s) = 1 .. Len(s) - 1 /\ Len(s) \in Nat \ {0}
      /\ \A i \in 1 .. Len(s) - 1 : Tail(s)[i] = s[i + 1]
  BY HeadTailProperties, LenProperties, EmptySeq
<1>2. \A i \in DOMAIN s : i = 1 \/ (i - 1 \in DOMAIN Tail(s) /\ s[i] = Tail(s)[i - 1])
  BY <1>1
<1>3. 1 \in DOMAIN s /\ \A i \in DOMAIN Tail(s) : i + 1 \in DOMAIN s /\ Tail(s)[i] = s[i + 1]
  BY <1>1
<1>4. Elems(s) \subseteq {Head(s)} \cup Elems(Tail(s))
  <2>1. ASSUME NEW i \in DOMAIN s PROVE s[i] \in {Head(s)} \cup Elems(Tail(s))
    <3>1. CASE i = 1
      BY <1>1, <3>1
    <3>2. CASE i - 1 \in DOMAIN Tail(s) /\ s[i] = Tail(s)[i - 1]
      BY <3>2 DEF Elems
    <3> QED
      BY <1>2, <3>1, <3>2
  <2> QED
    BY <2>1 DEF Elems
<1>5. {Head(s)} \cup Elems(Tail(s)) \subseteq Elems(s)
  BY <1>1, <1>3 DEF Elems
<1> QED
  BY <1>1, <1>4, <1>5

LEMMA TailIncreasing ==
    ASSUME NEW s \in Seq(Nat), s # <<>>, Increasing(s)
    PROVE  Increasing(Tail(s)) /\ \A x \in Elems(Tail(s)) : Head(s) < x
<1>1. /\ Head(s) = s[1]
      /\ DOMAIN s = 1 .. Len(s) /\ DOMAIN Tail(s) = 1 .. Len(s) - 1 /\ Len(s) \in Nat \ {0}
      /\ \A i \in 1 .. Len(s) - 1 : Tail(s)[i] = s[i + 1]
  BY HeadTailProperties, LenProperties, EmptySeq
<1>2. 1 \in DOMAIN s /\ \A i \in DOMAIN Tail(s) : i + 1 \in DOMAIN s /\ 1 < i + 1
  BY <1>1
<1>3. \A i \in DOMAIN Tail(s) : Head(s) < Tail(s)[i]
  BY <1>1, <1>2 DEF Increasing
<1>4. \A i, j \in DOMAIN Tail(s) : i < j => i + 1 < j + 1
  BY <1>1
<1>5. Increasing(Tail(s))
  BY <1>1, <1>2, <1>4 DEF Increasing
<1> QED
  BY <1>3, <1>5 DEF Elems

-----------------------------------------------------------------------------
(* As long as somebody waits push() finds the first pending future, and the deque that it
   leaves holds the other ones. *)
LEMMA FirstIsPending ==
    ASSUME Shape, Pending # {}
    PROVE  /\ First \in DOMAIN waiting /\ waiting[First] \in Consumers
           /\ waiting[First] # NoOne
           /\ \A j \in 1 .. First - 1 : waiting[j] = NoOne
<1> DEFINE P == {i \in DOMAIN waiting : waiting[i] # NoOne}
<1>1. DOMAIN waiting = 1 .. Len(waiting) /\ Len(waiting) \in Nat
  BY LenProperties DEF Shape
<1>2. P \subseteq Nat /\ P # {}
  BY <1>1 DEF Pending, Elems
<1>3. PICK n \in P : \A m \in P : n <= m
  BY <1>2, LeastNatural
<1>4. \A j \in 1 .. n - 1 : waiting[j] = NoOne
  BY <1>1, <1>3
<1>5. \E i \in DOMAIN waiting : waiting[i] # NoOne /\ \A j \in 1 .. i - 1 : waiting[j] = NoOne
  BY <1>3, <1>4
<1>6. /\ First \in DOMAIN waiting /\ waiting[First] # NoOne
      /\ \A j \in 1 .. First - 1 : waiting[j] = NoOne
  BY <1>5 DEF First
<1>7. waiting[First] \in Consumers \cup {NoOne}
  BY <1>6, ElementOfSeq DEF Shape
<1> QED
  BY <1>6, <1>7

LEMMA BehindFirstShape ==
    ASSUME Shape, Pending # {}
    PROVE  /\ BehindFirst \in Seq(Consumers \cup {NoOne})
           /\ \A i \in DOMAIN BehindFirst :
                First + i \in DOMAIN waiting /\ BehindFirst[i] = waiting[First + i]
           /\ \A i \in DOMAIN waiting : i > First =>
                i - First \in DOMAIN BehindFirst /\ BehindFirst[i - First] = waiting[i]
<1> DEFINE n == Len(waiting)
           behind == BehindFirst
<1>1. n \in Nat /\ First \in 1 .. n /\ DOMAIN waiting = 1 .. n
  BY FirstIsPending, LenProperties DEF Shape
<1>2. \A i \in First + 1 .. n : waiting[i] \in Consumers \cup {NoOne}
  BY <1>1, ElementOfSeq DEF Shape
<1>3. First + 1 \in Int /\ n \in Int
  BY <1>1
<1>4. /\ behind \in Seq(Consumers \cup {NoOne})
      /\ Len(behind) = IF First + 1 <= n THEN n - (First + 1) + 1 ELSE 0
      /\ \A i \in 1 .. n - (First + 1) + 1 : behind[i] = waiting[First + 1 + i - 1]
  BY <1>2, <1>3, SubSeqProperties DEF BehindFirst
<1> HIDE DEF n, behind
<1>5. (IF First + 1 <= n THEN n - (First + 1) + 1 ELSE 0) = n - First
  BY <1>1
<1>6. DOMAIN behind = 1 .. n - First
  BY <1>4, <1>5, LenProperties
<1>7. \A i \in 1 .. n - First : First + i \in 1 .. n /\ behind[i] = waiting[First + i]
  <2>1. \A i \in 1 .. n - First :
            First + i \in 1 .. n /\ i \in 1 .. n - (First + 1) + 1 /\ First + 1 + i - 1 = First + i
    BY <1>1
  <2> QED
    BY <1>4, <2>1
<1>8. \A i \in 1 .. n : i > First => i - First \in 1 .. n - First /\ First + (i - First) = i
  BY <1>1
<1> QED
  BY <1>1, <1>4, <1>6, <1>7, <1>8 DEF behind

LEMMA InitEventsInv == EventsInit => EventsInv
<1> SUFFICES ASSUME EventsInit PROVE EventsInv
  OBVIOUS
<1>1. DOMAIN <<>> = {} /\ Elems(<<>>) = {} /\ Increasing(<<>>)
  BY DEF Elems, Increasing
<1>2. \A c \in Consumers : Held(c) = {}
  BY <1>1 DEF EventsInit, Held
<1>3. Shape
  BY DEF EventsInit, Shape
<1>4. 1 .. pushed = {}
  BY DEF EventsInit
<1> QED
  BY <1>1, <1>2, <1>3, <1>4 DEF EventsInit, EventsInv, WaitersInv, OrderInv, ApartInv, PlacedInv

LEMMA HeldRange ==
    ASSUME Shape
    PROVE  /\ \A c \in Consumers : Held(c) \subseteq 1 .. pushed
           /\ Elems(queue) \subseteq 1 .. pushed
  BY ElementOfSeq DEF Shape, Held, Elems

(* push() when somebody waits. *)
LEMMA HandKeepsInv ==
    ASSUME EventsInv, NEW last \in BOOLEAN, Push(last), Hand(pushed + 1)
    PROVE  EventsInv'
<1> DEFINE w == waiting[First]
           e == pushed + 1
<1>1. /\ w \in Consumers /\ w # NoOne /\ First \in DOMAIN waiting
      /\ \A j \in 1 .. First - 1 : waiting[j] = NoOne
  BY FirstIsPending DEF EventsInv, Hand
<1>2. pc[w] = "waiting" /\ item[w] = 0 /\ queue = <<>> /\ Elems(queue) = {}
  BY <1>1 DEF EventsInv, WaitersInv, Shape, Elems
<1>3. /\ waiting' = BehindFirst /\ pc' = [pc EXCEPT ![w] = "woken"]
      /\ item' = [item EXCEPT ![w] = e] /\ pushed' = e
      /\ UNCHANGED <<queue, received, lost>>
  BY DEF Hand, Push
<1> HIDE DEF w
<1>4. \A c \in Consumers : Held(c)' = IF c = w THEN Held(c) \cup {e} ELSE Held(c)
  BY <1>1, <1>2, <1>3 DEF EventsInv, Shape, Held
<1>5. pushed \in Nat /\ e \in Nat /\ pushed < e /\ 1 .. e = 1 .. pushed \cup {e}
  BY DEF EventsInv, Shape
<1>6. Shape'
  <2>1. received \in [Consumers -> Seq(1 .. e)]
    BY <1>5, SeqMonotonic DEF EventsInv, Shape
  <2>2. queue' \in Seq(1 .. e)
    BY <1>2, <1>3
  <2> QED
    BY <1>1, <1>3, <1>5, <2>1, <2>2, BehindFirstShape DEF EventsInv, Shape, Hand
<1>7. WaitersInv'
  <2>1. \A i \in DOMAIN BehindFirst : First + i \in DOMAIN waiting /\ BehindFirst[i] = waiting[First + i]
    BY BehindFirstShape DEF EventsInv, Hand
  <2>2. \A i \in DOMAIN waiting : i > First =>
            i - First \in DOMAIN BehindFirst /\ BehindFirst[i - First] = waiting[i]
    BY BehindFirstShape DEF EventsInv, Hand
  <2>3. DOMAIN waiting = 1 .. Len(waiting) /\ DOMAIN BehindFirst = 1 .. Len(BehindFirst)
    BY BehindFirstShape, LenProperties DEF EventsInv, Hand, Shape
  <2>4. ASSUME NEW i \in DOMAIN BehindFirst, BehindFirst[i] # NoOne
        PROVE  BehindFirst[i] # w /\ pc[BehindFirst[i]] = "waiting"
    <3>1. First + i # First /\ First + i \in DOMAIN waiting
      BY <1>1, <2>1, <2>3
    <3> QED
      BY <1>1, <2>1, <2>4, <3>1 DEF EventsInv, WaitersInv, w
  <2>5. ASSUME NEW i \in DOMAIN BehindFirst, NEW j \in DOMAIN BehindFirst, BehindFirst[i] # NoOne, BehindFirst[i] = BehindFirst[j]
        PROVE  i = j
    <3>1. First + i = First + j
      BY <2>1, <2>5 DEF EventsInv, WaitersInv
    <3> QED
      BY <1>1, <2>3, <3>1
  <2>6. ASSUME NEW c \in Consumers, c # w, pc[c] = "waiting"
        PROVE  \E i \in DOMAIN BehindFirst : BehindFirst[i] = c
    <3>1. PICK i \in DOMAIN waiting : waiting[i] = c /\ c # NoOne
      BY <2>6 DEF EventsInv, WaitersInv, Pending, Elems
    <3>2. i > First
      BY <1>1, <2>3, <2>6, <3>1 DEF w
    <3> QED
      BY <2>2, <3>1, <3>2
  <2>7. \A c \in Consumers : pc'[c] = (IF c = w THEN "woken" ELSE pc[c]) /\ item'[c] = IF c = w THEN e ELSE item[c]
    BY <1>3 DEF EventsInv, Shape
  <2>8. \A i \in DOMAIN BehindFirst : BehindFirst[i] # NoOne => BehindFirst[i] \in Consumers
    BY BehindFirstShape, ElementOfSeq DEF EventsInv, Hand
  <2>9. \A c \in Consumers : c # NoOne
    BY NoOneAssumption
  <2> QED
    BY <1>2, <1>3, <2>4, <2>5, <2>6, <2>7, <2>8, <2>9 DEF EventsInv, WaitersInv, Pending, Elems
<1>8. OrderInv'
  <2>1. \A c \in Consumers : Elems(received[c]) \subseteq 1 .. pushed
    BY HeldRange DEF EventsInv, Held
  <2> QED
    BY <1>1, <1>2, <1>3, <1>5, <2>1 DEF EventsInv, OrderInv, Shape, Elems
<1>9. ApartInv'
  <2>1. \A c \in Consumers : e \notin Held(c)
    BY <1>5, HeldRange DEF EventsInv
  <2>2. e \notin lost
    BY <1>5 DEF EventsInv, Shape
  <2> QED
    BY <1>3, <1>4, <2>1, <2>2 DEF EventsInv, ApartInv
<1>10. PlacedInv'
  BY <1>1, <1>2, <1>3, <1>4, <1>5 DEF EventsInv, PlacedInv
<1> QED
  BY <1>6, <1>7, <1>8, <1>9, <1>10 DEF EventsInv

LEMMA EnqueueKeepsInv ==
    ASSUME EventsInv, NEW last \in BOOLEAN, Push(last), Enqueue(pushed + 1)
    PROVE  EventsInv'
<1> DEFINE e == pushed + 1
<1>1. /\ waiting' = <<>> /\ queue' = Append(queue, e) /\ pushed' = e
      /\ UNCHANGED <<pc, item, received, lost>>
  BY DEF Enqueue, Push
<1>2. \A c \in Consumers : Held(c)' = Held(c)
  BY <1>1 DEF Held
<1>3. pushed \in Nat /\ e \in Nat /\ pushed < e /\ 1 .. e = 1 .. pushed \cup {e} /\ 0 .. pushed \subseteq 0 .. e
  BY DEF EventsInv, Shape
<1>4. queue \in Seq(1 .. e) /\ received \in [Consumers -> Seq(1 .. e)] /\ queue \in Seq(Nat)
  BY <1>3, SeqMonotonic DEF EventsInv, Shape
<1>5. Elems(queue') = Elems(queue) \cup {e} /\ queue' \in Seq(1 .. e)
  BY <1>1, <1>3, <1>4, AppendElems, AppendProperties
<1>6. Shape'
  BY <1>1, <1>3, <1>4, <1>5 DEF EventsInv, Shape
<1>7. WaitersInv'
  BY <1>1 DEF EventsInv, WaitersInv, Enqueue, Shape
<1>8. OrderInv'
  <2>1. \A x \in Elems(queue) : x < e
    BY <1>3, HeldRange DEF EventsInv
  <2>2. Increasing(queue')
    BY <1>1, <1>3, <1>4, <2>1, AppendIncreasing DEF EventsInv, OrderInv
  <2>3. \A c \in Consumers : Held(c) \subseteq 0 .. e - 1
    BY <1>3, HeldRange DEF EventsInv
  <2>4. lost \subseteq 0 .. e - 1
    BY <1>3 DEF EventsInv, Shape
  <2> QED
    BY <1>1, <1>2, <1>5, <2>2, <2>3, <2>4 DEF EventsInv, OrderInv
<1>9. ApartInv'
  BY <1>1, <1>2 DEF EventsInv, ApartInv
<1>10. PlacedInv'
  BY <1>1, <1>2, <1>3, <1>5 DEF EventsInv, PlacedInv
<1> QED
  BY <1>6, <1>7, <1>8, <1>9, <1>10 DEF EventsInv

(* end(), the last one or not: everybody who waits is woken, and given nothing. *)
LEMMA EndKeepsInv ==
    ASSUME EventsInv, waiting' = <<>>,
           pc' = [c \in Consumers |-> IF c \in Pending THEN "woken" ELSE pc[c]],
           UNCHANGED <<queue, item, historyVars>>
    PROVE  EventsInv'
<1>1. UNCHANGED <<queue, item, pushed, received, lost>> /\ \A c \in Consumers : Held(c)' = Held(c)
  BY DEF historyVars, Held
<1>2. Shape'
  BY <1>1 DEF EventsInv, Shape
<1>3. WaitersInv'
  <2>1. \A c \in Consumers : pc'[c] # "waiting"
    BY DEF EventsInv, WaitersInv, Shape
  <2>2. \A c \in Consumers : item[c] # 0 => pc'[c] = "woken"
    BY DEF EventsInv, WaitersInv
  <2> QED
    BY <1>1, <2>1, <2>2 DEF WaitersInv
<1> QED
  BY <1>1, <1>2, <1>3 DEF EventsInv, OrderInv, ApartInv, PlacedInv

(* A consumer that neither waits nor holds an event goes elsewhere. *)
LEMMA ReadyLeaves ==
    ASSUME EventsInv, NEW c \in Consumers, pc[c] \in {"ready", "cancelled"},
           NEW p \in {"ready", "stopped"}, pc' = [pc EXCEPT ![c] = p],
           UNCHANGED <<queue, waiting, item, historyVars>>
    PROVE  EventsInv'
<1>1. UNCHANGED <<pushed, received, lost>> /\ \A d \in Consumers : Held(d)' = Held(d)
  BY DEF historyVars, Held
<1>2. /\ pc' \in [Consumers -> {"ready", "waiting", "woken", "stopped", "cancelled"}]
      /\ pc'[c] = p /\ \A d \in Consumers : d # c => pc'[d] = pc[d]
  BY DEF EventsInv, Shape
<1>3. Shape'
  BY <1>1, <1>2 DEF EventsInv, Shape
<1>4. WaitersInv'
  <2>1. \A i \in DOMAIN waiting : waiting[i] # NoOne => waiting[i] \in Consumers
    BY ElementOfSeq DEF EventsInv, Shape
  <2>2. \A d \in Consumers : pc'[d] = "waiting" <=> pc[d] = "waiting"
    BY <1>2
  <2>3. \A d \in Consumers : item[d] # 0 => pc'[d] = "woken"
    BY <1>2 DEF EventsInv, WaitersInv
  <2> QED
    BY <1>1, <2>1, <2>2, <2>3 DEF EventsInv, WaitersInv, Pending
<1> QED
  BY <1>1, <1>3, <1>4 DEF EventsInv, OrderInv, ApartInv, PlacedInv

LEMMA WaitKeepsInv ==
    ASSUME EventsInv, NEW c \in Consumers, Wait(c)
    PROVE  EventsInv'
<1>1. /\ queue = <<>> /\ waiting' = Append(waiting, c) /\ pc' = [pc EXCEPT ![c] = "waiting"]
      /\ pc[c] = "ready" /\ c # NoOne
      /\ UNCHANGED <<queue, item, pushed, received, lost>>
  BY NoOneAssumption DEF Wait, historyVars
<1>2. \A d \in Consumers : Held(d)' = Held(d)
  BY <1>1 DEF Held
<1>3. /\ pc' \in [Consumers -> {"ready", "waiting", "woken", "stopped", "cancelled"}]
      /\ pc'[c] = "waiting" /\ \A d \in Consumers : d # c => pc'[d] = pc[d]
  BY <1>1 DEF EventsInv, Shape
<1>4. /\ waiting' \in Seq(Consumers \cup {NoOne})
      /\ Elems(waiting') = Elems(waiting) \cup {c}
      /\ DOMAIN waiting = 1 .. Len(waiting) /\ Len(waiting) \in Nat
      /\ DOMAIN waiting' = 1 .. Len(waiting) + 1
      /\ \A i \in DOMAIN waiting : waiting'[i] = waiting[i] /\ waiting[i] \in Consumers \cup {NoOne}
      /\ waiting'[Len(waiting) + 1] = c
  <2>1. waiting \in Seq(Consumers \cup {NoOne}) /\ c \in Consumers \cup {NoOne}
    BY DEF EventsInv, Shape
  <2>2. Elems(waiting') = Elems(waiting) \cup {c}
    BY <1>1, <2>1, AppendElems
  <2> QED
    BY <1>1, <2>1, <2>2, AppendProperties, LenProperties, ElementOfSeq
<1>5. Shape'
  BY <1>1, <1>3, <1>4 DEF EventsInv, Shape
<1>6. WaitersInv'
  <2>1. \A i \in DOMAIN waiting' : i \in DOMAIN waiting \/ i = Len(waiting) + 1
    BY <1>4
  <2>2. \A i \in DOMAIN waiting : waiting[i] # NoOne => waiting[i] # c /\ pc[waiting[i]] = "waiting"
    BY <1>1 DEF EventsInv, WaitersInv
  <2>3. \A i \in DOMAIN waiting' : waiting'[i] # NoOne => pc'[waiting'[i]] = "waiting"
    BY <1>3, <1>4, <2>1, <2>2
  <2>4. \A i, j \in DOMAIN waiting' : waiting'[i] # NoOne /\ waiting'[i] = waiting'[j] => i = j
    BY <1>4, <2>1, <2>2 DEF EventsInv, WaitersInv
  <2>5. \A d \in Consumers : pc'[d] = "waiting" => d \in Pending'
    BY <1>1, <1>3, <1>4 DEF EventsInv, WaitersInv, Pending
  <2>6. \A d \in Consumers : item[d] # 0 => pc'[d] = "woken"
    BY <1>1, <1>3 DEF EventsInv, WaitersInv
  <2> QED
    BY <1>1, <2>3, <2>4, <2>5, <2>6 DEF WaitersInv
<1> QED
  BY <1>1, <1>2, <1>5, <1>6 DEF EventsInv, OrderInv, ApartInv, PlacedInv

LEMMA TakeKeepsInv ==
    ASSUME EventsInv, NEW c \in Consumers, TakeQueued(c)
    PROVE  EventsInv'
<1> DEFINE e == Head(queue)
<1>1. /\ received' = [received EXCEPT ![c] = Append(received[c], e)]
      /\ queue' = Tail(queue) /\ queue # <<>>
      /\ UNCHANGED <<waiting, pc, item, pushed, lost>>
  BY DEF TakeQueued
<1>2. /\ e \in 1 .. pushed /\ Tail(queue) \in Seq(1 .. pushed)
      /\ Elems(queue) = {e} \cup Elems(Tail(queue))
  BY <1>1, TailElems DEF EventsInv, Shape
<1>3. pushed \in Nat /\ queue \in Seq(Nat)
  BY SeqMonotonic DEF EventsInv, Shape
<1>4. Increasing(Tail(queue)) /\ \A x \in Elems(Tail(queue)) : e < x
  BY <1>1, <1>3, TailIncreasing DEF EventsInv, OrderInv
<1>5. item[c] = 0 /\ \A d \in Consumers : pc[d] # "waiting"
  BY <1>1 DEF EventsInv, WaitersInv, TakeQueued
<1>6. received[c] \in Seq(1 .. pushed) /\ received[c] \in Seq(Nat)
  BY SeqMonotonic DEF EventsInv, Shape
<1> HIDE DEF e
<1>7. Elems(received'[c]) = Elems(received[c]) \cup {e} /\ received'[c] \in Seq(1 .. pushed)
  <2>1. received'[c] = Append(received[c], e)
    BY <1>1 DEF EventsInv, Shape
  <2> QED
    BY <1>2, <1>6, <2>1, AppendElems, AppendProperties
<1>8. \A d \in Consumers : d # c => received'[d] = received[d]
  BY <1>1 DEF EventsInv, Shape
<1>9. \A d \in Consumers : Held(d)' = IF d = c THEN Held(d) \cup {e} ELSE Held(d)
  BY <1>1, <1>7, <1>8 DEF Held
<1>10. Shape'
  BY <1>1, <1>2, <1>7 DEF EventsInv, Shape
<1>11. WaitersInv'
  BY <1>1, <1>5 DEF EventsInv, WaitersInv, Pending
<1>12. OrderInv'
  <2>1. \A x \in Elems(received[c]) : x < e
    <3>1. Held(c) \subseteq 0 .. e - 1
      BY <1>2 DEF EventsInv, OrderInv
    <3> QED
      BY <1>2, <3>1 DEF Held
  <2>2. Increasing(received'[c])
    BY <1>1, <1>2, <1>6, <2>1, AppendIncreasing DEF EventsInv, OrderInv, Shape
  <2>3. ASSUME NEW x \in Elems(Tail(queue)), NEW d \in Consumers
        PROVE  Held(d)' \subseteq 0 .. x - 1
    <3>1. Held(d) \subseteq 0 .. x - 1
      BY <1>2 DEF EventsInv, OrderInv
    <3>2. x \in 1 .. pushed /\ e < x
      BY <1>2, <1>4, HeldRange DEF EventsInv
    <3>3. e \in 0 .. x - 1
      BY <1>2, <1>3, <3>2
    <3> QED
      BY <1>9, <3>1, <3>3
  <2>4. \A x \in Elems(Tail(queue)) : lost \subseteq 0 .. x - 1
    BY <1>2 DEF EventsInv, OrderInv
  <2>5. \A d \in Consumers : item[d] # 0 => \A x \in Elems(received'[d]) : x < item[d]
    BY <1>5, <1>8 DEF EventsInv, OrderInv
  <2>6. \A d \in Consumers : Increasing(received'[d])
    BY <1>8, <2>2 DEF EventsInv, OrderInv
  <2> QED
    BY <1>1, <1>4, <2>3, <2>4, <2>5, <2>6 DEF OrderInv
<1>13. ApartInv'
  <2>1. e \notin 0 .. e - 1
    BY <1>2
  <2>2. (\A d \in Consumers : e \notin Held(d)) /\ e \notin lost
    BY <1>2, <2>1 DEF EventsInv, OrderInv
  <2> QED
    BY <1>1, <1>9, <2>1, <2>2 DEF EventsInv, ApartInv
<1>14. PlacedInv'
  BY <1>1, <1>2, <1>9 DEF EventsInv, PlacedInv
<1> QED
  BY <1>10, <1>11, <1>12, <1>13, <1>14 DEF EventsInv

LEMMA ResumeKeepsInv ==
    ASSUME EventsInv, NEW c \in Consumers, Resume(c)
    PROVE  EventsInv'
<1>1. item' = [item EXCEPT ![c] = 0] /\ UNCHANGED <<queue, waiting, pushed, lost>>
  BY DEF Resume, streamVars
<1>2. /\ pc[c] = "woken" /\ pc'[c] \in {"stopped", "ready"}
      /\ \A d \in Consumers : d # c => pc'[d] = pc[d]
      /\ pc' \in [Consumers -> {"ready", "waiting", "woken", "stopped", "cancelled"}]
  BY DEF Resume, EventsInv, Shape
<1>3. /\ Elems(received'[c]) = Held(c) /\ received'[c] \in Seq(1 .. pushed)
      /\ Increasing(received'[c])
      /\ received' \in [Consumers -> Seq(1 .. pushed)]
      /\ \A d \in Consumers : d # c => received'[d] = received[d]
  <2>1. /\ pushed \in Nat /\ received[c] \in Seq(1 .. pushed) /\ received[c] \in Seq(Nat)
        /\ item[c] \in 0 .. pushed
    BY SeqMonotonic DEF EventsInv, Shape
  <2>2. CASE item[c] = 0
    BY <2>1, <2>2 DEF Resume, EventsInv, Shape, OrderInv, Held
  <2>3. CASE item[c] # 0
    <3>1. received' = [received EXCEPT ![c] = Append(received[c], item[c])]
      BY <2>3 DEF Resume
    <3>2. received'[c] = Append(received[c], item[c]) /\ item[c] \in 1 .. pushed /\ item[c] \in Nat
      BY <2>1, <2>3, <3>1 DEF EventsInv, Shape
    <3>3. Elems(received'[c]) = Elems(received[c]) \cup {item[c]} /\ received'[c] \in Seq(1 .. pushed)
      BY <2>1, <3>2, AppendElems, AppendProperties
    <3>4. Increasing(received'[c])
      BY <2>1, <2>3, <3>2, AppendIncreasing DEF EventsInv, OrderInv
    <3> QED
      BY <2>3, <3>1, <3>3, <3>4 DEF EventsInv, Shape, Held
  <2> QED
    BY <2>2, <2>3
<1>4. item'[c] = 0 /\ \A d \in Consumers : d # c => item'[d] = item[d]
  BY <1>1 DEF EventsInv, Shape
<1>5. \A d \in Consumers : Held(d)' = Held(d)
  BY <1>3, <1>4 DEF Held
<1>6. Shape'
  <2>1. item' \in [Consumers -> 0 .. pushed]
    BY <1>1 DEF EventsInv, Shape
  <2> QED
    BY <1>1, <1>2, <1>3, <2>1 DEF EventsInv, Shape
<1>7. WaitersInv'
  <2>1. \A i \in DOMAIN waiting : waiting[i] # NoOne => waiting[i] \in Consumers
    BY ElementOfSeq DEF EventsInv, Shape
  <2>2. \A d \in Consumers : pc'[d] = "waiting" <=> pc[d] = "waiting"
    BY <1>2
  <2>3. \A d \in Consumers : item'[d] # 0 => pc'[d] = "woken"
    BY <1>2, <1>4 DEF EventsInv, WaitersInv
  <2> QED
    BY <1>1, <2>1, <2>2, <2>3 DEF EventsInv, WaitersInv, Pending
<1>8. OrderInv'
  BY <1>1, <1>3, <1>4, <1>5 DEF EventsInv, OrderInv
<1> QED
  BY <1>1, <1>5, <1>6, <1>7, <1>8 DEF EventsInv, ApartInv, PlacedInv

(* A cancelled consumer takes with it what its future had been given. *)
LEMMA CancelKeepsInv ==
    ASSUME EventsInv, NEW c \in Consumers, CancelConsumer(c)
    PROVE  EventsInv'
<1>1. /\ pc' = [pc EXCEPT ![c] = "cancelled"]
      /\ item' = [item EXCEPT ![c] = 0]
      /\ lost' = lost \cup ({item[c]} \ {0})
      /\ UNCHANGED <<queue, pushed, received>>
  BY DEF CancelConsumer
<1>2. /\ DOMAIN waiting' = DOMAIN waiting
      /\ \A i \in DOMAIN waiting : waiting'[i] = IF waiting[i] = c THEN NoOne ELSE waiting[i]
  BY DEF CancelConsumer
<1>3. \A d \in Consumers : /\ pc'[d] = IF d = c THEN "cancelled" ELSE pc[d]
                           /\ item'[d] = IF d = c THEN 0 ELSE item[d]
  BY <1>1 DEF EventsInv, Shape
<1>4. \A d \in Consumers : Held(d)' = IF d = c THEN Elems(received[c]) ELSE Held(d)
  BY <1>1, <1>3 DEF Held
<1>5. Held(c) = Elems(received[c]) \cup ({item[c]} \ {0})
  BY DEF Held
<1>6. Shape'
  <2>1. waiting' \in Seq(Consumers \cup {NoOne})
    <3>1. DOMAIN waiting = 1 .. Len(waiting) /\ Len(waiting) \in Nat
      BY LenProperties DEF EventsInv, Shape
    <3>2. \A i \in DOMAIN waiting : waiting[i] \in Consumers \cup {NoOne}
      BY ElementOfSeq DEF EventsInv, Shape
    <3>3. waiting' \in [1 .. Len(waiting) -> Consumers \cup {NoOne}]
      BY <3>1, <3>2 DEF CancelConsumer
    <3> QED
      BY <3>1, <3>3
  <2>2. pushed \in Nat /\ item[c] \in 0 .. pushed /\ {item[c]} \ {0} \subseteq 1 .. pushed
    BY DEF EventsInv, Shape
  <2>3. item' \in [Consumers -> 0 .. pushed]
    BY <1>1, <2>2 DEF EventsInv, Shape
  <2>4. lost \subseteq 1 .. pushed
    BY DEF EventsInv, Shape
  <2>5. lost' \in SUBSET (1 .. pushed)
    BY ONLY <1>1, <2>2, <2>4
  <2> QED
    BY <1>1, <2>1, <2>3, <2>5 DEF EventsInv, Shape
<1>7. WaitersInv'
  <2>1. \A d \in Consumers : d # NoOne
    BY NoOneAssumption
  <2>2. \A i \in DOMAIN waiting : waiting[i] \in Consumers \cup {NoOne}
    BY ElementOfSeq DEF EventsInv, Shape
  <2> QED
    BY <1>1, <1>2, <1>3, <2>1, <2>2 DEF EventsInv, WaitersInv, Pending, Elems
<1>8. OrderInv'
  <2>1. \A x \in Elems(queue) : lost' \subseteq 0 .. x - 1
    BY <1>1, <1>5 DEF EventsInv, OrderInv
  <2>2. \A x \in Elems(queue) : \A d \in Consumers : Held(d)' \subseteq 0 .. x - 1
    BY <1>4, <1>5 DEF EventsInv, OrderInv
  <2> QED
    BY <1>1, <1>3, <2>1, <2>2 DEF EventsInv, OrderInv
<1>9. ApartInv'
  <2>1. item[c] # 0 => item[c] \notin Elems(received[c])
    BY DEF EventsInv, OrderInv, Shape
  <2> QED
    BY <1>1, <1>4, <1>5, <2>1 DEF EventsInv, ApartInv
<1>10. PlacedInv'
  BY <1>1, <1>4, <1>5 DEF EventsInv, PlacedInv
<1> QED
  BY <1>6, <1>7, <1>8, <1>9, <1>10 DEF EventsInv

LEMMA StepEventsInv == EventsInv /\ [EventsNext]_eventsVars => EventsInv'
<1> SUFFICES ASSUME EventsInv, [EventsNext]_eventsVars PROVE EventsInv'
  OBVIOUS
<1>1. CASE UNCHANGED eventsVars
  BY <1>1 DEF eventsVars, streamVars, historyVars, EventsInv, Shape, WaitersInv, OrderInv, ApartInv,
     PlacedInv, Held, Pending
<1>2. ASSUME NEW last \in BOOLEAN, Push(last) PROVE EventsInv'
  BY <1>2, HandKeepsInv, EnqueueKeepsInv DEF Push
<1>3. CASE LastEnd \/ \E v \in {0} \cup Explicit : End(v)
  BY <1>3, EndKeepsInv DEF LastEnd, End, historyVars
<1>4. ASSUME NEW c \in Consumers, Stop(c) PROVE EventsInv'
  <2>1. pc' = [pc EXCEPT ![c] = "stopped"] /\ pc[c] = "ready" /\ UNCHANGED <<queue, waiting, item, historyVars>>
    BY <1>4 DEF Stop, streamVars
  <2> QED
    BY <2>1, ReadyLeaves
<1>5. ASSUME NEW c \in Consumers, Another(c) PROVE EventsInv'
  <2>1. pc' = [pc EXCEPT ![c] = "ready"] /\ pc[c] = "cancelled" /\ UNCHANGED <<queue, waiting, item, historyVars>>
    BY <1>5 DEF Another, streamVars
  <2> QED
    BY <2>1, ReadyLeaves
<1>6. ASSUME NEW c \in Consumers, Wait(c) PROVE EventsInv'
  BY <1>6, WaitKeepsInv
<1>7. ASSUME NEW c \in Consumers, TakeQueued(c) PROVE EventsInv'
  BY <1>7, TakeKeepsInv
<1>8. ASSUME NEW c \in Consumers, Resume(c) PROVE EventsInv'
  BY <1>8, ResumeKeepsInv
<1>9. ASSUME NEW c \in Consumers, CancelConsumer(c) PROVE EventsInv'
  BY <1>9, CancelKeepsInv
<1> QED
  BY <1>1, <1>2, <1>3, <1>4, <1>5, <1>6, <1>7, <1>8, <1>9 DEF EventsNext, Step

-----------------------------------------------------------------------------
(* An event is in one place. *)
LEMMA PlaceOfEvent ==
    ASSUME EventsInv, NEW e \in 1 .. pushed
    PROVE  Cardinality(Copies(e)) = 1
<1> SUFFICES \E x : Copies(e) = {x}
  BY FS_Singleton
<1>1. e \in Nat \ {0} /\ e \notin 0 .. e - 1 /\ pushed \in Nat
  BY DEF EventsInv, Shape
<1>2. \A s : Increasing(s) /\ (\A i \in DOMAIN s : s[i] \in Nat) /\ DOMAIN s \subseteq Nat =>
        \A i, j \in DOMAIN s : s[i] = s[j] => i = j
  <2> SUFFICES ASSUME NEW s, Increasing(s), \A i \in DOMAIN s : s[i] \in Nat, DOMAIN s \subseteq Nat,
                      NEW i \in DOMAIN s, NEW j \in DOMAIN s, s[i] = s[j]
               PROVE  i = j
    OBVIOUS
  <2>1. ~ i < j /\ ~ j < i
    BY DEF Increasing
  <2> QED
    BY <2>1
<1>3. \A i, j \in DOMAIN queue : queue[i] = queue[j] => i = j
  <2>1. DOMAIN queue \subseteq Nat /\ \A i \in DOMAIN queue : queue[i] \in Nat
    BY ElementOfSeq, LenProperties DEF EventsInv, Shape
  <2> QED
    BY <1>2, <2>1 DEF EventsInv, OrderInv
<1>4. \A c \in Consumers : \A i, j \in DOMAIN received[c] : received[c][i] = received[c][j] => i = j
  <2>1. \A c \in Consumers : DOMAIN received[c] \subseteq Nat /\ \A i \in DOMAIN received[c] : received[c][i] \in Nat
    BY ElementOfSeq, LenProperties DEF EventsInv, Shape
  <2> QED
    BY <1>2, <2>1 DEF EventsInv, OrderInv
<1> DEFINE InQueue == {<<"queue", i>> : i \in {j \in DOMAIN queue : queue[j] = e}}
           InItems == {<<"item", c>> : c \in {d \in Consumers : item[d] = e}}
           Own(c) == {<<c, i>> : i \in {j \in DOMAIN received[c] : received[c][j] = e}}
           InReceived == UNION {Own(c) : c \in Consumers}
           InLost == {<<"lost", x>> : x \in lost} \cap {<<"lost", e>>}
<1>0. Copies(e) = InQueue \cup InItems \cup InReceived \cup InLost
  BY DEF Copies
<1>5. \A c \in Consumers : item[c] = e => e \in Held(c) /\ e \notin Elems(received[c])
  BY <1>1 DEF Held, EventsInv, OrderInv
<1>6. \A c \in Consumers : \A i \in DOMAIN received[c] : received[c][i] = e => e \in Held(c)
  BY DEF Held, Elems
<1>7. e \notin Elems(queue) => InQueue = {}
  BY DEF Elems
<1>8. e \notin lost => InLost = {}
  OBVIOUS
<1>9. ASSUME NEW c \in Consumers, e \notin Held(c) PROVE item[c] # e /\ Own(c) = {}
  BY <1>5, <1>6, <1>9
<1>10. CASE e \in Elems(queue)
  <2>1. e \notin lost /\ \A c \in Consumers : e \notin Held(c)
    BY <1>1, <1>10 DEF EventsInv, OrderInv
  <2>2. PICK i \in DOMAIN queue : queue[i] = e
    BY <1>10 DEF Elems
  <2>3. InQueue = {<<"queue", i>>}
    BY <1>3, <2>2
  <2>4. InItems = {} /\ InReceived = {}
    BY <1>9, <2>1
  <2> QED
    BY <1>0, <1>8, <2>1, <2>3, <2>4
<1>11. CASE e \in lost
  <2>1. e \notin Elems(queue) /\ \A c \in Consumers : e \notin Held(c)
    BY <1>1, <1>11 DEF EventsInv, OrderInv, ApartInv
  <2>2. InLost = {<<"lost", e>>}
    BY <1>11
  <2>3. InItems = {} /\ InReceived = {}
    BY <1>9, <2>1
  <2>4. InQueue = {}
    BY <1>7, <2>1
  <2> HIDE DEF InQueue, InItems, InReceived, InLost
  <2>5. Copies(e) = {<<"lost", e>>}
    BY <1>0, <2>2, <2>3, <2>4
  <2> QED
    BY <2>5
<1>12. ASSUME NEW c \in Consumers, e \in Held(c) PROVE \E x : Copies(e) = {x}
  <2>1. e \notin Elems(queue) /\ e \notin lost /\ \A d \in Consumers : d # c => e \notin Held(d)
    BY <1>1, <1>12 DEF EventsInv, OrderInv, ApartInv
  <2>2. InReceived = Own(c)
    BY <1>9, <2>1
  <2>3. InItems = IF item[c] = e THEN {<<"item", c>>} ELSE {}
    BY <1>9, <2>1
  <2>4. CASE item[c] = e
    <3>1. Own(c) = {}
      BY <1>5, <2>4 DEF Elems
    <3> QED
      BY <1>0, <1>7, <1>8, <2>1, <2>2, <2>3, <2>4, <3>1
  <2>5. CASE item[c] # e
    <3>1. PICK i \in DOMAIN received[c] : received[c][i] = e
      BY <1>12, <2>5 DEF Held, Elems
    <3>2. Own(c) = {<<c, i>>}
      BY <1>4, <3>1
    <3> QED
      BY <1>0, <1>7, <1>8, <2>1, <2>2, <2>3, <2>5, <3>2
  <2> QED
    BY <2>4, <2>5
<1> QED
  BY <1>10, <1>11, <1>12 DEF EventsInv, PlacedInv

LEMMA EventsInvIsSound == EventsInv => StreamSound
<1> SUFFICES ASSUME EventsInv PROVE StreamSound
  OBVIOUS
<1>1. NoStarvation
  BY DEF EventsInv, WaitersInv, NoStarvation
<1>2. EachOnce
  BY PlaceOfEvent DEF EachOnce
<1>3. HandedInOrder
  <2>1. \A e \in Handed : e \in lost \/ \E c \in Consumers : e \in Held(c)
    BY DEF Handed, Held
  <2>2. \A i \in DOMAIN queue : queue[i] \in Elems(queue) /\ queue[i] \in Nat
    BY ElementOfSeq DEF Elems, EventsInv, Shape
  <2>3. ASSUME NEW i \in DOMAIN queue, NEW e \in Handed PROVE e \in 0 .. queue[i] - 1
    <3>1. CASE e \in lost
      BY <2>2, <3>1 DEF EventsInv, OrderInv
    <3>2. ASSUME NEW c \in Consumers, e \in Held(c) PROVE e \in 0 .. queue[i] - 1
      BY <2>2, <3>2 DEF EventsInv, OrderInv
    <3> QED
      BY <2>1, <3>1, <3>2
  <2>4. \A i \in DOMAIN queue : \A e \in Handed : e < queue[i]
    BY <2>2, <2>3
  <2>5. \A c \in Consumers : item[c] # 0 => \A i \in DOMAIN received[c] : received[c][i] < item[c]
    BY DEF EventsInv, OrderInv, Elems
  <2> QED
    BY <2>4, <2>5 DEF HandedInOrder, EventsInv, OrderInv, Increasing
<1> QED
  BY <1>1, <1>2, <1>3 DEF StreamSound

(* Every reachable state of the stream satisfies its inductive invariant. *)
THEOREM EventsInvariance == EventsSpec => []EventsInv
  BY InitEventsInv, StepEventsInv, PTL DEF EventsSpec

(* A waiter that was cancelled starves no later consumer; every event that push() took is
   queued, with one consumer, or lost with a cancelled one; and events are handed out in the
   order of their push(), to any number of consumers. *)
THEOREM StreamIsSound == EventsSpec => []StreamSound
  BY EventsInvIsSound, EventsInvariance, PTL

-----------------------------------------------------------------------------
(* Telemetry: where a span may be, and who has it. *)
SpanStates == {"new", "open", "dispatched", "pending", "taken", "exported", "lost"}
Exporters == Spans \cup Flushes

SpanShape ==
    /\ batching \in BOOLEAN
    /\ state \in [Spans -> SpanStates]
    /\ run \in 0 .. MaxSpans /\ turn \in 0 .. MaxSpans /\ tools \in SUBSET Spans
    /\ parent \in [Spans -> 0 .. MaxSpans]
    /\ batch \in [Exporters -> SUBSET Spans]
    /\ at \in [Flushes -> {"idle", "gather", "export"}]
    /\ gathered \in [Flushes -> SUBSET Spans]
    /\ closing \in 1 .. 4
    /\ exports \in [Spans -> Nat] /\ failures \in Nat

(* The spans are numbered in the order they are opened; the open ones are those of the
   instrumentation, and each is under one that ends no earlier. *)
OpenInv ==
    /\ \E k \in 0 .. MaxSpans : \A s \in Spans : state[s] = "new" <=> k < s
    /\ \A s \in Spans : state[s] = "open" <=> s \in {run, turn} \/ s \in tools
    /\ run = 0 => turn = 0 /\ tools = {}
    /\ run # 0 => run # turn /\ run \notin tools /\ parent[run] = 0
    /\ turn # 0 => turn \notin tools /\ parent[turn] = run
    /\ \A s \in tools : parent[s] # 0 /\ parent[s] \in {run, turn}

(* A span is in one batch at a time, and exported only once; a task, or a flush, that has a
   batch has no second one to come. *)
BatchInv ==
    /\ \A s \in Spans : exports[s] = 0 \/ (exports[s] = 1 /\ state[s] = "exported")
    /\ \A a, b \in Exporters : \A s \in batch[a] : s \in batch[b] => a = b
    /\ \A a \in Exporters : \A s \in batch[a] : state[s] = "taken"
    /\ \A s \in Spans : state[s] \in {"new", "open", "dispatched"} => batch[s] = {}
    /\ \A f \in Flushes : at[f] \in {"idle", "gather"} => batch[f] = {}

(* The flush of close waits for every task there still is, and leaves nothing behind. *)
CloseInv ==
    /\ closing # 1 => run = 0
    /\ at[AtClose] # "idle" => closing \in {2, 3}
    /\ at[AtClose] = "gather" => Tasks \subseteq gathered[AtClose]
    /\ at[AtClose] = "export" \/ closing \in {3, 4} =>
            \A s \in Spans : state[s] \notin {"dispatched", "pending"}

SpanInv == SpanShape /\ OpenInv /\ BatchInv /\ CloseInv

-----------------------------------------------------------------------------
LEMMA FlushNames ==
    ASSUME TelemetryAssumption
    PROVE  AtEvent \in Flushes /\ AtClose \in Flushes /\ AtEvent # AtClose /\ Flushes \cap Spans = {}
BY DEF TelemetryAssumption, AtEvent, AtClose, Flushes, Spans

(* The span that is opened next. *)
LEMMA NextSpan ==
    ASSUME TelemetryAssumption, SpanShape, OpenInv, NEW s, NEW under, OpenSpan(s, under)
    PROVE  s \in Spans /\ \A x \in Spans : state[x] = "new" <=> s - 1 < x
<1>1. PICK k \in 0 .. MaxSpans : \A x \in Spans : state[x] = "new" <=> k < x
  BY DEF OpenInv
<1>2. Spans \ In({"new"}) = 1 .. k
  BY <1>1, TelemetryAssumption DEF In, Spans, TelemetryAssumption
<1>3. Cardinality(1 .. k) = k
  BY FS_Interval, TelemetryAssumption DEF TelemetryAssumption
<1>4. s = k + 1 /\ s \in Spans
  BY <1>2, <1>3 DEF OpenSpan
<1> QED
  BY <1>1, <1>4

(* What an event does: spans are opened and ended, and none is exported. *)
LEMMA EventKeeps ==
    ASSUME TelemetryAssumption, SpanInv, closing = 1,
           state' \in [Spans -> SpanStates],
           \A x \in Spans : \/ state'[x] = state[x]
                            \/ state[x] = "new" /\ state'[x] = "open"
                            \/ state[x] = "open" /\ state'[x] = "dispatched",
           UNCHANGED <<batching, batch, exports, failures>>,
           at' \in [Flushes -> {"idle", "gather", "export"}], at'[AtClose] = at[AtClose],
           \A f \in Flushes : at'[f] = at[f] \/ (at[f] = "idle" /\ at'[f] = "gather"),
           closing' = 1 \/ (closing' = 2 /\ run' = 0)
    PROVE  BatchInv' /\ CloseInv'
<1>1. BatchInv'
  BY DEF SpanInv, SpanShape, BatchInv
<1>2. CloseInv'
  BY DEF SpanInv, CloseInv
<1> QED
  BY <1>1, <1>2

(* What the tasks and flushes do: nothing is opened or ended. *)
LEMMA TasksKeepOpen ==
    ASSUME SpanInv, UNCHANGED slots, UNCHANGED parent,
           \A x \in Spans : \/ state'[x] = state[x]
                            \/ state[x] \notin {"new", "open"} /\ state'[x] \notin {"new", "open"}
    PROVE  OpenInv'
BY DEF SpanInv, OpenInv, slots
(* The events that open a span. *)
LEMMA OpensKeep ==
    ASSUME TelemetryAssumption, SpanInv, NEW s \in Spans,
           AgentStarts(s) \/ TurnStarts(s) \/ ToolStarts(s)
    PROVE  SpanInv'
<1> USE DEF SpanInv
<1>0. /\ closing = 1 /\ UNCHANGED <<batching, batch, at, gathered, closing, exports, failures>>
      /\ MaxSpans \in Nat /\ Spans = 1 .. MaxSpans
  BY DEF AgentStarts, TurnStarts, ToolStarts, Listening, TelemetryAssumption, Spans
<1>1. PICK under \in 0 .. MaxSpans : OpenSpan(s, under)
  BY <1>0 DEF AgentStarts, TurnStarts, ToolStarts, SpanShape
<1>2. /\ s \in Spans /\ s # 0 /\ state[s] = "new"
      /\ \A x \in Spans : state[x] = "new" <=> s - 1 < x
  BY <1>0, <1>1, NextSpan
<1>3. s # run /\ s # turn /\ s \notin tools /\ 0 \notin tools
  BY <1>2 DEF OpenInv, SpanShape, Spans
<1>4. \A x \in Spans : x \in Opened <=> state[x] = "open"
  BY <1>0 DEF OpenInv, Opened
<1>5. /\ parent' \in [Spans -> 0 .. MaxSpans] /\ parent'[s] = under
      /\ \A x \in Spans \ {s} : parent'[x] = parent[x]
  BY <1>1 DEF OpenSpan, SpanShape
<1>6. ASSUME state' \in [Spans -> SpanStates], state'[s] = "open",
             \A x \in Spans \ {s} : state'[x] = state[x] \/ (state[x] = "open" /\ state'[x] = "dispatched")
      PROVE  /\ \E k \in 0 .. MaxSpans : \A x \in Spans : state'[x] = "new" <=> k < x
             /\ BatchInv' /\ CloseInv'
  <2>1. s \in 0 .. MaxSpans /\ \A x \in Spans : state'[x] = "new" <=> s < x
    BY <1>0, <1>2, <1>6
  <2>2. at' \in [Flushes -> {"idle", "gather", "export"}]
    BY <1>0 DEF SpanShape
  <2>3. BatchInv' /\ CloseInv'
    BY <1>0, <1>2, <1>6, <2>2, EventKeeps
  <2> QED
    BY <2>1, <2>3
<1>7. CASE AgentStarts(s)
  <2>1. /\ state' = [x \in Spans |-> IF x = s THEN "open" ELSE IF x \in Opened THEN "dispatched" ELSE state[x]]
        /\ run' = s /\ turn' = 0 /\ tools' = {}
    BY <1>7 DEF AgentStarts
  <2>2. state' \in [Spans -> SpanStates]
    BY <2>1 DEF SpanShape, SpanStates
  <2>3. state'[s] = "open" /\ \A x \in Spans \ {s} : state'[x] = IF x \in Opened THEN "dispatched" ELSE state[x]
    BY <2>1
  <2>4. SpanShape'
    BY <1>0, <1>5, <2>1, <2>2 DEF SpanShape
  <2>5. \A x \in Spans : state'[x] = "open" <=> x \in {run', turn'} \/ x \in tools'
    BY <1>0, <1>4, <2>1, <2>3
  <2>6. parent'[run'] = 0
    BY <1>2, <1>7, <2>1 DEF AgentStarts, OpenSpan, SpanShape
  <2>7. OpenInv'
    BY <1>2, <1>4, <1>6, <2>1, <2>2, <2>3, <2>5, <2>6 DEF OpenInv
  <2> QED
    BY <1>4, <1>6, <2>2, <2>3, <2>4, <2>7
<1>8. CASE TurnStarts(s)
  <2>1. /\ state' = [x \in Spans |-> IF x = s THEN "open" ELSE IF x = turn THEN "dispatched" ELSE state[x]]
        /\ turn' = s /\ UNCHANGED <<run, tools>> /\ run # 0 /\ tools = {}
    BY <1>8 DEF TurnStarts
  <2>2. state' \in [Spans -> SpanStates]
    BY <2>1 DEF SpanShape, SpanStates
  <2>3. state'[s] = "open" /\ \A x \in Spans \ {s} : state'[x] = IF x = turn THEN "dispatched" ELSE state[x]
    BY <2>1
  <2>4. SpanShape'
    BY <1>0, <1>2, <1>5, <2>1, <2>2, SMTT(30) DEF SpanShape
  <2>5. \A x \in Spans : state'[x] = "open" <=> x \in {run', turn'} \/ x \in tools'
    BY <1>0, <2>1, <2>3 DEF OpenInv
  <2>6. parent'[turn'] = run' /\ parent'[run'] = 0
    BY <1>0, <1>3, <1>5, <1>8, <2>1 DEF TurnStarts, OpenSpan, SpanShape, OpenInv
  <2>7. \A x \in Spans \ {s} : state'[x] = state[x] \/ (state[x] = "open" /\ state'[x] = "dispatched")
    BY <2>3 DEF OpenInv
  <2>8. OpenInv'
    BY <1>3, <1>6, <2>1, <2>2, <2>3, <2>5, <2>6, <2>7 DEF OpenInv
  <2> QED
    BY <1>6, <2>2, <2>3, <2>4, <2>7, <2>8
<1>9. CASE ToolStarts(s)
  <2>1. /\ Set({s}, "open") /\ tools' = tools \cup {s} /\ UNCHANGED <<run, turn>> /\ run # 0
        /\ OpenSpan(s, IF turn # 0 THEN turn ELSE run)
    BY <1>9 DEF ToolStarts
  <2>2. state' \in [Spans -> SpanStates] /\ state'[s] = "open" /\ \A x \in Spans \ {s} : state'[x] = state[x]
    BY <2>1 DEF SpanShape, SpanStates, Set
  <2>3. SpanShape'
    BY <1>0, <1>2, <1>5, <2>1, <2>2 DEF SpanShape
  <2>4. \A x \in Spans : state'[x] = "open" <=> x \in {run', turn'} \/ x \in tools'
    BY <2>1, <2>2 DEF OpenInv
  <2>5. parent'[s] = IF turn # 0 THEN turn ELSE run
    BY <2>1 DEF OpenSpan, SpanShape
  <2>6. \A x \in tools' : parent'[x] # 0 /\ parent'[x] \in {run', turn'}
    BY <1>5, <2>1, <2>5 DEF OpenInv, SpanShape
  <2>7. /\ run' # turn' /\ run' \notin tools' /\ parent'[run'] = 0
        /\ turn' # 0 => turn' \notin tools' /\ parent'[turn'] = run'
    BY <1>0, <1>3, <1>5, <2>1 DEF OpenInv, SpanShape
  <2>8. OpenInv'
    BY <1>6, <2>1, <2>2, <2>4, <2>6, <2>7 DEF OpenInv
  <2> QED
    BY <1>6, <2>2, <2>3, <2>8
<1> QED
  BY <1>7, <1>8, <1>9

(* The events that end spans, and the end of the session. *)
LEMMA EndsKeep ==
    ASSUME TelemetryAssumption, SpanInv,
           (\E s \in Spans : ToolEnds(s)) \/ TurnEnds \/ AgentEnds \/ CloseSession
    PROVE  SpanInv'
<1> USE DEF SpanInv
<1>0. /\ closing = 1 /\ UNCHANGED <<batching, parent, batch, exports, failures>>
      /\ MaxSpans \in Nat /\ Spans = 1 .. MaxSpans /\ 0 \notin tools
  <2>1. closing = 1 /\ UNCHANGED <<batching, parent, batch, exports, failures>>
    BY DEF ToolEnds, TurnEnds, AgentEnds, CloseSession, Listening
  <2>2. MaxSpans \in Nat /\ Spans = 1 .. MaxSpans /\ 0 \notin tools
    BY DEF TelemetryAssumption, Spans, SpanShape
  <2> QED
    BY <2>1, <2>2
<1>1. \A x \in Spans : x \in Opened <=> state[x] = "open"
  BY <1>0 DEF OpenInv, Opened
<1>2. AtEvent \in Flushes /\ AtClose \in Flushes /\ AtEvent # AtClose
  BY FlushNames
<1>3. ASSUME NEW ended \in SUBSET Spans, Set(ended, "dispatched"), \A x \in ended : state[x] = "open"
      PROVE  /\ state' \in [Spans -> SpanStates]
             /\ \A x \in Spans : state'[x] = IF x \in ended THEN "dispatched" ELSE state[x]
             /\ \E k \in 0 .. MaxSpans : \A x \in Spans : state'[x] = "new" <=> k < x
  <2>1. state' \in [Spans -> SpanStates] /\ \A x \in Spans : state'[x] = IF x \in ended THEN "dispatched" ELSE state[x]
    BY <1>3 DEF Set, SpanShape, SpanStates
  <2>2. PICK k \in 0 .. MaxSpans : \A x \in Spans : state[x] = "new" <=> k < x
    BY DEF OpenInv
  <2>3. \A x \in Spans : state'[x] = "new" <=> k < x
    BY <1>3, <2>1, <2>2
  <2> QED
    BY <2>1, <2>3
<1>4. ASSUME NEW s \in Spans, ToolEnds(s) PROVE SpanInv'
  <2>1. s \in tools /\ Set({s}, "dispatched") /\ tools' = tools \ {s} /\ UNCHANGED <<run, turn, at, gathered, closing>>
    BY <1>4 DEF ToolEnds
  <2>2. /\ state' \in [Spans -> SpanStates]
        /\ \A x \in Spans : state'[x] = IF x = s THEN "dispatched" ELSE state[x]
        /\ \E k \in 0 .. MaxSpans : \A x \in Spans : state'[x] = "new" <=> k < x
    BY <1>3, <2>1 DEF OpenInv
  <2>3. SpanShape'
    BY <1>0, <2>1, <2>2 DEF SpanShape
  <2>4. s # run /\ s # turn
    BY <1>0, <2>1 DEF OpenInv
  <2>5. OpenInv'
    BY <1>0, <2>1, <2>2, <2>4 DEF OpenInv
  <2>6. at' \in [Flushes -> {"idle", "gather", "export"}]
    BY <2>1 DEF SpanShape
  <2>7. state[s] = "open"
    BY <2>1 DEF OpenInv
  <2> QED
    BY <1>0, <2>1, <2>2, <2>3, <2>5, <2>6, <2>7, EventKeeps
<1>5. CASE TurnEnds
  <2>1. turn # 0 /\ tools = {} /\ Set({turn}, "dispatched") /\ turn' = 0 /\ UNCHANGED <<run, tools, at, gathered, closing>>
    BY <1>5 DEF TurnEnds
  <2>2. turn \in Spans /\ state[turn] = "open"
    BY <1>0, <2>1 DEF OpenInv, SpanShape
  <2>3. /\ state' \in [Spans -> SpanStates]
        /\ \A x \in Spans : state'[x] = IF x = turn THEN "dispatched" ELSE state[x]
        /\ \E k \in 0 .. MaxSpans : \A x \in Spans : state'[x] = "new" <=> k < x
    BY <1>3, <2>1, <2>2
  <2>4. SpanShape'
    BY <1>0, <2>1, <2>3 DEF SpanShape
  <2>5. OpenInv'
    <3>1. run # turn /\ run # 0
      BY <2>1 DEF OpenInv
    <3>2. \A x \in Spans : state'[x] = "open" <=> x \in {run', turn'} \/ x \in tools'
      BY <1>0, <2>1, <2>3, <3>1 DEF OpenInv
    <3> QED
      BY <1>0, <2>1, <2>3, <3>1, <3>2 DEF OpenInv
  <2>6. at' \in [Flushes -> {"idle", "gather", "export"}]
    BY <2>1 DEF SpanShape
  <2> QED
    BY <1>0, <2>1, <2>2, <2>3, <2>4, <2>5, <2>6, EventKeeps
<1>6. CASE AgentEnds \/ CloseSession
  <2>1. /\ Set(Opened, "dispatched") /\ run' = 0 /\ turn' = 0 /\ tools' = {}
        /\ closing' = 1 \/ closing' = 2
    BY <1>6, <1>0 DEF AgentEnds, CloseSession
  <2>2. /\ at' \in [Flushes -> {"idle", "gather", "export"}] /\ gathered' \in [Flushes -> SUBSET Spans]
        /\ at'[AtClose] = at[AtClose]
        /\ \A f \in Flushes : at'[f] = at[f] \/ (at[f] = "idle" /\ at'[f] = "gather")
    <3>1. CASE AgentEnds
      <4>1. /\ at[AtEvent] = "idle" /\ at' = [at EXCEPT ![AtEvent] = "gather"]
            /\ gathered' = [gathered EXCEPT ![AtEvent] = Tasks \cup Opened]
        BY <3>1 DEF AgentEnds, Listening
      <4>2. Tasks \cup Opened \in SUBSET Spans
        <5>1. Tasks \in SUBSET Spans
          BY DEF Tasks
        <5>2. {run, turn} \ {0} \in SUBSET Spans
          BY <1>0 DEF SpanShape
        <5> QED
          BY <5>1, <5>2 DEF Opened, SpanShape
      <4> QED
        BY <1>2, <4>1, <4>2 DEF SpanShape
    <3>2. CASE CloseSession
      BY <3>2 DEF CloseSession, SpanShape
    <3> QED
      BY <1>6, <3>1, <3>2
  <2>3. Opened \in SUBSET Spans
    BY <1>0 DEF Opened, SpanShape
  <2>4. /\ state' \in [Spans -> SpanStates]
        /\ \A x \in Spans : state'[x] = IF x \in Opened THEN "dispatched" ELSE state[x]
        /\ \E k \in 0 .. MaxSpans : \A x \in Spans : state'[x] = "new" <=> k < x
    BY <1>1, <1>3, <2>1, <2>3
  <2>5. SpanShape'
    BY <1>0, <2>1, <2>2, <2>4 DEF SpanShape
  <2>6. OpenInv'
    <3>1. \A x \in Spans : ~ state'[x] = "open"
      BY <1>1, <2>4
    <3>2. \A x \in Spans : x \notin {run', turn'} /\ x \notin tools'
      BY <1>0, <2>1
    <3> QED
      BY <2>1, <2>4, <3>1, <3>2 DEF OpenInv
  <2> QED
    BY <1>0, <1>1, <2>1, <2>2, <2>4, <2>5, <2>6, EventKeeps
<1> QED
  BY <1>4, <1>5, <1>6
LEMMA DispatchKeeps ==
    ASSUME TelemetryAssumption, SpanInv, NEW s \in Spans, Dispatch(s)
    PROVE  SpanInv'
<1> USE DEF SpanInv
<1> DEFINE due == IF batching THEN In({"pending"}) \cup {s} ELSE {s}
           take == ~batching \/ Cardinality(due) >= BatchSize
<1>1. /\ state[s] = "dispatched"
      /\ state' = [x \in Spans |-> IF take /\ x \in due THEN "taken" ELSE IF x = s THEN "pending" ELSE state[x]]
      /\ batch' = IF take THEN [batch EXCEPT ![s] = due] ELSE batch
      /\ UNCHANGED <<batching, slots, parent, at, gathered, closing, exports, failures>>
  BY DEF Dispatch
<1>2. due \in SUBSET Spans /\ s \in due /\ \A x \in due : state[x] \in {"dispatched", "pending"}
  BY <1>1 DEF In
<1>3. take \in BOOLEAN
  OBVIOUS
<1> HIDE DEF due, take
<1>4. /\ s \in Exporters /\ Spans \subseteq Exporters /\ \A f \in Flushes : f # s
      /\ AtClose \in Flushes /\ Flushes \subseteq Exporters
  BY FlushNames DEF Exporters
<1>5. /\ state' \in [Spans -> SpanStates]
      /\ \A x \in Spans : state'[x] = IF take /\ x \in due THEN "taken" ELSE IF x = s THEN "pending" ELSE state[x]
  BY <1>1 DEF SpanShape, SpanStates
<1>6. /\ batch' \in [Exporters -> SUBSET Spans]
      /\ batch'[s] = IF take THEN due ELSE batch[s]
      /\ \A a \in Exporters \ {s} : batch'[a] = batch[a]
  BY <1>1, <1>2, <1>4 DEF SpanShape
<1>7. batch[s] = {}
  BY <1>1 DEF BatchInv
<1>8. SpanShape'
  BY <1>1, <1>5, <1>6 DEF SpanShape, slots
<1>9. OpenInv'
  BY <1>1, <1>2, <1>5, TasksKeepOpen
<1>10. BatchInv'
  <2>1. \A x \in Spans : exports'[x] = 0 \/ (exports'[x] = 1 /\ state'[x] = "exported")
    BY <1>1, <1>2, <1>5 DEF BatchInv
  <2>2. \A a \in Exporters : \A x \in batch[a] : x \notin due
    BY <1>2 DEF BatchInv
  <2>3. \A a, b \in Exporters : \A x \in batch'[a] : x \in batch'[b] => a = b
    <3>1. ASSUME NEW a \in Exporters, NEW b \in Exporters, NEW x \in batch'[a], x \in batch'[b], a # b PROVE FALSE
      <4>1. CASE a = s
        BY <1>6, <1>7, <2>2, <3>1, <4>1
      <4>2. CASE b = s
        BY <1>6, <1>7, <2>2, <3>1, <4>2
      <4>3. CASE a # s /\ b # s
        BY <1>6, <3>1, <4>3 DEF BatchInv
      <4> QED
        BY <4>1, <4>2, <4>3
    <3> QED
      BY <3>1
  <2>4. \A a \in Exporters : \A x \in batch'[a] : state'[x] = "taken"
    BY <1>1, <1>2, <1>5, <1>6, <1>7, <2>2 DEF BatchInv, SpanShape
  <2>5. \A x \in Spans : state'[x] \in {"new", "open", "dispatched"} => batch'[x] = {}
    BY <1>2, <1>4, <1>5, <1>6 DEF BatchInv
  <2>6. \A f \in Flushes : at'[f] \in {"idle", "gather"} => batch'[f] = {}
    BY <1>1, <1>4, <1>6 DEF BatchInv
  <2> QED
    BY <2>1, <2>3, <2>4, <2>5, <2>6 DEF BatchInv
<1>11. CloseInv'
  <2>1. \A x \in Spans : state'[x] = "dispatched" => state[x] = "dispatched"
    BY <1>5
  <2>2. Tasks' \subseteq Tasks
    <3>1. ASSUME NEW x \in Spans, state'[x] = "dispatched" \/ batch'[x] # {}
          PROVE  state[x] = "dispatched" \/ batch[x] # {}
      BY <1>1, <1>4, <1>6, <2>1, <3>1
    <3> QED
      BY <3>1 DEF Tasks
  <2> QED
    BY <1>1, <2>2 DEF CloseInv, slots
<1> QED
  BY <1>8, <1>9, <1>10, <1>11

LEMMA GatheredKeeps ==
    ASSUME TelemetryAssumption, SpanInv, NEW f \in Flushes, Gathered(f)
    PROVE  SpanInv'
<1> USE DEF SpanInv
<1> DEFINE due == In({"pending"})
<1>1. /\ at[f] = "gather" /\ gathered[f] \cap Tasks = {}
      /\ Set(due, "taken") /\ batch' = [batch EXCEPT ![f] = due]
      /\ at' = [at EXCEPT ![f] = "export"]
      /\ UNCHANGED <<batching, slots, parent, gathered, closing, exports, failures>>
  BY DEF Gathered
<1>2. due \in SUBSET Spans /\ \A x \in Spans : x \in due <=> state[x] = "pending"
  BY DEF In
<1> HIDE DEF due
<1>4. /\ f \in Exporters /\ \A x \in Spans : f # x
      /\ AtClose \in Flushes /\ Spans \subseteq Exporters /\ Flushes \subseteq Exporters
  BY FlushNames DEF Exporters
<1>5. /\ state' \in [Spans -> SpanStates]
      /\ \A x \in Spans : state'[x] = IF x \in due THEN "taken" ELSE state[x]
  BY <1>1 DEF SpanShape, SpanStates, Set
<1>6. /\ batch' \in [Exporters -> SUBSET Spans] /\ batch'[f] = due
      /\ \A a \in Exporters \ {f} : batch'[a] = batch[a]
  BY <1>1, <1>2, <1>4 DEF SpanShape
<1>7. /\ at' \in [Flushes -> {"idle", "gather", "export"}] /\ at'[f] = "export"
      /\ \A g \in Flushes \ {f} : at'[g] = at[g]
  BY <1>1 DEF SpanShape
<1>8. SpanShape'
  BY <1>1, <1>5, <1>6, <1>7 DEF SpanShape, slots
<1>9. OpenInv'
  BY <1>1, <1>2, <1>5, TasksKeepOpen
<1>10. BatchInv'
  <2>0. batch[f] = {}
    BY <1>1 DEF BatchInv
  <2>1. \A x \in Spans : exports'[x] = 0 \/ (exports'[x] = 1 /\ state'[x] = "exported")
    BY <1>1, <1>2, <1>5 DEF BatchInv
  <2>2. \A a \in Exporters : \A x \in batch[a] : x \notin due
    BY <1>2 DEF BatchInv, SpanShape
  <2>3. \A a, b \in Exporters : \A x \in batch'[a] : x \in batch'[b] => a = b
    <3>1. ASSUME NEW a \in Exporters, NEW b \in Exporters, NEW x \in batch'[a], x \in batch'[b], a # b PROVE FALSE
      <4>1. CASE a = f
        BY <1>6, <2>2, <3>1, <4>1
      <4>2. CASE b = f
        BY <1>6, <2>2, <3>1, <4>2
      <4>3. CASE a # f /\ b # f
        BY <1>6, <3>1, <4>3 DEF BatchInv
      <4> QED
        BY <4>1, <4>2, <4>3
    <3> QED
      BY <3>1
  <2>4. \A a \in Exporters : \A x \in batch'[a] : state'[x] = "taken"
    BY <1>2, <1>5, <1>6 DEF BatchInv, SpanShape
  <2>5. \A x \in Spans : state'[x] \in {"new", "open", "dispatched"} => batch'[x] = {}
    BY <1>4, <1>5, <1>6 DEF BatchInv
  <2>6. \A g \in Flushes : at'[g] \in {"idle", "gather"} => batch'[g] = {}
    BY <1>4, <1>6, <1>7 DEF BatchInv
  <2> QED
    BY <2>1, <2>3, <2>4, <2>5, <2>6 DEF BatchInv
<1>11. CloseInv'
  <2>1. \A x \in Spans : state'[x] = "dispatched" => state[x] = "dispatched"
    BY <1>5
  <2>2. Tasks' \subseteq Tasks
    <3>1. ASSUME NEW x \in Spans, state'[x] = "dispatched" \/ batch'[x] # {}
          PROVE  state[x] = "dispatched" \/ batch[x] # {}
      BY <1>4, <1>6, <2>1, <3>1
    <3> QED
      BY <3>1 DEF Tasks
  <2>3. CASE f = AtClose
    <3>1. Tasks = {}
      BY <1>1, <2>3 DEF CloseInv, SpanShape
    <3>2. \A x \in Spans : state'[x] \notin {"dispatched", "pending"}
      BY <1>2, <1>5, <3>1 DEF Tasks
    <3> QED
      BY <1>1, <1>7, <2>3, <3>2 DEF CloseInv, slots
  <2>4. CASE f # AtClose
    <3>1. \A x \in Spans : state'[x] \in {"dispatched", "pending"} => state[x] \in {"dispatched", "pending"}
      BY <1>5
    <3> QED
      BY <1>1, <1>4, <1>7, <2>2, <2>4, <3>1 DEF CloseInv, slots
  <2> QED
    BY <2>3, <2>4
<1> QED
  BY <1>8, <1>9, <1>10, <1>11

LEMMA ExportKeeps ==
    ASSUME TelemetryAssumption, SpanInv, NEW a \in Exporters, Export(a)
    PROVE  SpanInv'
<1> USE DEF SpanInv
<1>1. /\ batch[a] # {} /\ batch' = [batch EXCEPT ![a] = {}]
      /\ UNCHANGED <<batching, slots, parent, at, gathered, closing>>
  BY DEF Export
<1>2. PICK to \in {"exported", "lost"} :
        /\ Set(batch[a], to)
        /\ to = "exported" => /\ UNCHANGED failures
                              /\ exports' = [s \in Spans |-> exports[s] + (IF s \in batch[a] THEN 1 ELSE 0)]
        /\ to = "lost" => failures' = failures + 1 /\ UNCHANGED exports
  BY DEF Export
<1>3. batch[a] \in SUBSET Spans /\ \A x \in batch[a] : state[x] = "taken" /\ exports[x] = 0
  BY DEF SpanShape, BatchInv
<1>4. AtClose \in Flushes /\ Spans \subseteq Exporters /\ Flushes \subseteq Exporters
  BY FlushNames DEF Exporters
<1>5. /\ state' \in [Spans -> SpanStates]
      /\ \A x \in Spans : state'[x] = IF x \in batch[a] THEN to ELSE state[x]
  BY <1>2 DEF SpanShape, SpanStates, Set
<1>6. /\ batch' \in [Exporters -> SUBSET Spans] /\ batch'[a] = {}
      /\ \A b \in Exporters \ {a} : batch'[b] = batch[b]
  BY <1>1 DEF SpanShape
<1>7. /\ exports' \in [Spans -> Nat]
      /\ \A x \in Spans : exports'[x] = IF to = "exported" /\ x \in batch[a] THEN exports[x] + 1 ELSE exports[x]
  BY <1>2 DEF SpanShape
<1>8. SpanShape'
  BY <1>1, <1>2, <1>5, <1>6, <1>7 DEF SpanShape, slots
<1>9. OpenInv'
  BY <1>1, <1>3, <1>5, TasksKeepOpen
<1>10. BatchInv'
  <2>1. \A x \in Spans : exports'[x] = 0 \/ (exports'[x] = 1 /\ state'[x] = "exported")
    BY <1>3, <1>5, <1>7 DEF BatchInv
  <2>2. \A b, c \in Exporters : \A x \in batch'[b] : x \in batch'[c] => b = c
    BY <1>6 DEF BatchInv
  <2>3. \A b \in Exporters : \A x \in batch'[b] : state'[x] = "taken"
    BY <1>5, <1>6 DEF BatchInv, SpanShape
  <2>4. \A x \in Spans : state'[x] \in {"new", "open", "dispatched"} => batch'[x] = {}
    BY <1>4, <1>5, <1>6 DEF BatchInv
  <2>5. \A f \in Flushes : at'[f] \in {"idle", "gather"} => batch'[f] = {}
    BY <1>1, <1>4, <1>6 DEF BatchInv
  <2> QED
    BY <2>1, <2>2, <2>3, <2>4, <2>5 DEF BatchInv
<1>11. CloseInv'
  <2>1. \A x \in Spans : state'[x] \in {"dispatched", "pending"} => state'[x] = state[x]
    BY <1>5
  <2>2. Tasks' \subseteq Tasks
    <3>1. ASSUME NEW x \in Spans, state'[x] = "dispatched" \/ batch'[x] # {}
          PROVE  state[x] = "dispatched" \/ batch[x] # {}
      BY <1>4, <1>6, <2>1, <3>1
    <3> QED
      BY <3>1 DEF Tasks
  <2> QED
    BY <1>1, <2>1, <2>2 DEF CloseInv, slots
<1> QED
  BY <1>8, <1>9, <1>10, <1>11

LEMMA FlushesKeep ==
    ASSUME TelemetryAssumption, SpanInv, CloseFlushes \/ \E f \in Flushes : Flushed(f)
    PROVE  SpanInv'
<1> USE DEF SpanInv
<1>0. UNCHANGED <<batching, state, slots, parent, batch, exports, failures>> /\ AtClose \in Flushes
  BY FlushNames DEF CloseFlushes, Flushed
<1>1. OpenInv'
  BY <1>0, TasksKeepOpen
<1>2. CASE CloseFlushes
  <2>1. /\ closing \in {2, 3} /\ at[AtClose] = "idle" /\ UNCHANGED closing
        /\ at' = [at EXCEPT ![AtClose] = "gather"] /\ gathered' = [gathered EXCEPT ![AtClose] = Tasks]
    BY <1>2 DEF CloseFlushes, Flush
  <2>2. Tasks \in SUBSET Spans /\ Tasks' = Tasks
    BY <1>0 DEF Tasks
  <2>3. SpanShape'
    BY <1>0, <2>1, <2>2 DEF SpanShape, slots
  <2>4. BatchInv'
    BY <1>0, <2>1 DEF BatchInv, SpanShape
  <2>5. CloseInv'
    BY <1>0, <2>1, <2>2 DEF CloseInv, SpanShape, slots
  <2> QED
    BY <1>1, <2>3, <2>4, <2>5
<1>3. ASSUME NEW f \in Flushes, Flushed(f) PROVE SpanInv'
  <2>1. /\ at[f] = "export" /\ batch[f] = {} /\ UNCHANGED gathered
        /\ at' = [at EXCEPT ![f] = "idle"] /\ closing' = IF f = AtClose THEN closing + 1 ELSE closing
    BY <1>3 DEF Flushed
  <2>2. f = AtClose => closing \in {2, 3}
    BY <2>1 DEF CloseInv
  <2>3. SpanShape'
    BY <1>0, <2>1, <2>2 DEF SpanShape, slots
  <2>4. BatchInv'
    BY <1>0, <2>1 DEF BatchInv, SpanShape
  <2>5. Tasks' = Tasks
    BY <1>0 DEF Tasks
  <2>6. CloseInv'
    BY <1>0, <2>1, <2>2, <2>5 DEF CloseInv, SpanShape, slots
  <2> QED
    BY <1>1, <2>3, <2>4, <2>6
<1> QED
  BY <1>2, <1>3

LEMMA SpansStart == ASSUME TelemetryAssumption, SpansInit PROVE SpanInv
<1>0. MaxSpans \in Nat /\ AtClose \in Flushes
  BY FlushNames DEF TelemetryAssumption
<1>1. SpanShape
  BY <1>0 DEF SpansInit, SpanShape, SpanStates, Exporters
<1>2. OpenInv
  <2>1. \A s \in Spans : state[s] = "new" <=> 0 < s
    BY DEF SpansInit, Spans
  <2>2. \A s \in Spans : s # 0 /\ state[s] # "open"
    BY DEF SpansInit, Spans
  <2> QED
    BY <1>0, <2>1, <2>2 DEF SpansInit, OpenInv
<1>3. BatchInv
  BY DEF SpansInit, BatchInv, Exporters
<1>4. CloseInv
  BY <1>0 DEF SpansInit, CloseInv
<1> QED
  BY <1>1, <1>2, <1>3, <1>4 DEF SpanInv

LEMMA SpansStep == ASSUME TelemetryAssumption, SpanInv, [SpansNext]_spanVars PROVE SpanInv'
<1>1. CASE UNCHANGED spanVars
  BY <1>1 DEF spanVars, slots, SpanInv, SpanShape, OpenInv, BatchInv, CloseInv, Tasks
<1> QED
  BY <1>1, OpensKeep, EndsKeep, DispatchKeeps, GatheredKeeps, ExportKeeps, FlushesKeep DEF SpansNext, Exporters

(* When the provider is closed and no export runs, every span has ended and was exported, once
   at most, or taken into an export that failed; a span ends no earlier than those under it:
   for any number of spans and any size of batch (tracing.py, force_flush and shutdown;
   instrumentation.py, close). *)
THEOREM SpansKept == SpansSpec => []SpansAccounted
<1>1. SpansInit => SpanInv
  BY SpansStart, TelemetryAssumption
<1>2. SpanInv /\ [SpansNext]_spanVars => SpanInv'
  BY SpansStep, TelemetryAssumption
<1>3. SpanInv => SpansAccounted
  <2> SUFFICES ASSUME SpanInv PROVE SpansAccounted
    OBVIOUS
  <2>1. \A s \in Spans : exports[s] <= 1
    BY DEF SpanInv, BatchInv, SpanShape
  <2>2. ASSUME Steps[closing] = "closed" PROVE In({"open", "dispatched", "pending"}) = {}
    <3>1. closing = 4
      BY <2>2 DEF Steps, SpanInv, SpanShape
    <3>2. run = 0 /\ turn = 0 /\ tools = {}
      BY <3>1 DEF SpanInv, CloseInv, OpenInv
    <3>3. \A s \in Spans : state[s] # "open"
      BY <3>2, TelemetryAssumption DEF SpanInv, OpenInv, Spans, TelemetryAssumption
    <3>4. \A s \in Spans : state[s] \notin {"dispatched", "pending"}
      BY <3>1 DEF SpanInv, CloseInv
    <3> QED
      BY <3>3, <3>4 DEF In
  <2>3. ASSUME NEW s \in In({"open"}), parent[s] # 0 PROVE state[parent[s]] = "open"
    <3>1. s \in Spans /\ (s \in {run, turn} \/ s \in tools)
      BY DEF In, SpanInv, OpenInv
    <3>2. parent[s] \in {run, turn}
      BY <2>3, <3>1, TelemetryAssumption DEF SpanInv, OpenInv, Spans, TelemetryAssumption
    <3>3. parent[s] \in Spans
      BY <2>3, <3>1, TelemetryAssumption DEF SpanInv, SpanShape, Spans, TelemetryAssumption
    <3> QED
      BY <3>2, <3>3 DEF SpanInv, OpenInv
  <2> QED
    BY <2>1, <2>2, <2>3 DEF SpansAccounted
<1> QED
  BY <1>1, <1>2, <1>3, PTL DEF SpansSpec

-----------------------------------------------------------------------------
(* InteractiveTui: which run may still be at work, and when the loop ends. *)
TuiShape ==
    /\ gated \in BOOLEAN /\ closed \in BOOLEAN
    /\ loop \in {"start", "wait", "command", "closing", "returned"}
    /\ runs \in [Runs -> {"none", "streaming", "asking", "settling", "ok", "failed"}]
    /\ cur \in {0} \cup Runs /\ over \in {0} \cup Runs
    /\ exit \in {"no", "asked", "eof"}

(* Only the run that the loop knows works; one that was replaced has ended, and settles. *)
WorkInv ==
    /\ Streaming \subseteq {cur} /\ (loop = "start" => cur = 0)
    /\ over # 0 => Over(over)

(* The loop ends for a reason, and the end of the input is one when no run is under way. *)
EndInv ==
    /\ exit = "no" <=> loop \in {"start", "wait", "command"}
    /\ exit = "eof" \/ loop = "returned" => Idle
    /\ cut # {} => exit = "asked"

TuiInv == TuiShape /\ WorkInv /\ EndInv

LEMMA RunNumbers == ASSUME TuiAssumption PROVE 0 \notin Runs
  BY DEF TuiAssumption, Runs

LEMMA TuiStarts == ASSUME TuiAssumption, Init PROVE TuiInv
  BY DEF TuiAssumption, Init, TuiInv, TuiShape, WorkInv, EndInv, Streaming, Idle, Over

(* The runs themselves go from work to their end. *)
LEMMA RunSteps ==
    ASSUME TuiAssumption, TuiInv, NEW i \in Runs, Asks(i) \/ Ends(i) \/ Settles(i)
    PROVE  TuiInv'
<1>1. CASE Asks(i)
  BY <1>1 DEF Asks, Run, reader, TuiInv, TuiShape, WorkInv, EndInv, Streaming, Idle, Over
<1>2. CASE Ends(i)
  BY <1>2 DEF Ends, Run, reader, TuiInv, TuiShape, WorkInv, EndInv, Streaming, Idle, Over
<1>3. CASE Settles(i)
  BY <1>3 DEF Settles, Run, reader, TuiInv, TuiShape, WorkInv, EndInv, Streaming, Idle, Over
<1>. QED BY <1>1, <1>2, <1>3

(* No step of the loop that starts no run leaves one out of sight. *)
LEMMA NoRunKeeps ==
    ASSUME TuiAssumption, TuiInv, NEW ends \in {"no", "asked", "eof"}, exit = "no",
           NoRun(ends), UNCHANGED <<gated, cut>>, closed' \in BOOLEAN, ends = "eof" => Idle
    PROVE  TuiInv'
<1>1. 0 \notin Runs
  BY RunNumbers
<1>. QED
  BY <1>1 DEF NoRun, After, TuiInv, TuiShape, WorkInv, EndInv, Streaming, Idle, Over

(* A run is started while none works, and is the one the loop knows. *)
LEMMA NewRunKeeps ==
    ASSUME TuiAssumption, TuiInv, exit = "no", Streaming = {}, NewRun, UNCHANGED <<gated, closed, cut>>
    PROVE  TuiInv'
<1>1. 0 \notin Runs
  BY RunNumbers
<1>2. PICK i \in Runs \ Started :
        /\ runs' = [runs EXCEPT ![i] = "streaming"]
        /\ After(IF cur # 0 /\ Over(cur) THEN cur ELSE 0, i, "no")
  BY DEF NewRun
<1>3. ~ (cur # 0 /\ Over(cur) /\ cur = i)
  BY <1>2 DEF Started, Over
<1>. QED
  BY <1>1, <1>2, <1>3 DEF After, TuiInv, TuiShape, WorkInv, EndInv, Streaming, Idle, Over

LEMMA HandleKeeps == ASSUME TuiAssumption, TuiInv, Handle PROVE TuiInv'
<1>1. exit = "no" /\ UNCHANGED <<gated, cut>>
  BY DEF Handle, TuiInv, EndInv
<1>2. CASE Submit
  <2>1. CASE Streaming = {} /\ NewRun
    BY <1>1, <1>2, <2>1, NewRunKeeps DEF Submit
  <2>2. CASE NoRun("no")
    BY <1>1, <1>2, <2>2, NoRunKeeps DEF Submit, TuiInv, TuiShape
  <2>. QED BY <1>2, <2>1, <2>2 DEF Submit
<1>3. CASE CtrlC
  <2>1. \E ends \in {"no", "asked"} : NoRun(ends)
    BY <1>3 DEF CtrlC
  <2>. QED BY <1>1, <1>3, <2>1, NoRunKeeps DEF CtrlC, TuiInv, TuiShape
<1>4. CASE Edit
  <2>1. \E ends \in {"no", "asked"} : NoRun(ends)
    BY <1>4 DEF Edit
  <2>. QED BY <1>1, <1>4, <2>1, NoRunKeeps DEF Edit, TuiInv, TuiShape
<1>5. CASE Closed
  <2>1. \E ends \in {"no", "eof"} : NoRun(ends) /\ (ends = "eof" => Idle)
    BY <1>5 DEF Closed
  <2>. QED BY <1>1, <1>5, <2>1, NoRunKeeps DEF Closed
<1>6. CASE Command
  BY <1>1, <1>6 DEF Command, Handle, TuiInv, TuiShape, WorkInv, EndInv, Streaming, Idle, Over
<1>. QED BY <1>2, <1>3, <1>4, <1>5, <1>6 DEF Handle

LEMMA StepKeepsTui == ASSUME TuiAssumption, TuiInv, [Next]_vars PROVE TuiInv'
<1>1. CASE Start
  <2>1. exit = "no" /\ UNCHANGED <<gated, closed, cut>>
    BY <1>1 DEF Start, TuiInv, EndInv
  <2>2. CASE NoRun("no")
    BY <2>1, <2>2, NoRunKeeps DEF TuiInv, TuiShape
  <2>3. CASE NewRun
    <3>1. 0 \notin Streaming
      BY RunNumbers DEF Streaming
    <3>2. Streaming = {}
      BY <1>1, <3>1 DEF Start, TuiInv, WorkInv
    <3>. QED BY <1>1, <2>1, <2>3, <3>2, NewRunKeeps DEF Start
  <2>. QED BY <1>1, <2>2, <2>3 DEF Start
<1>2. CASE EndOfInput
  BY <1>2 DEF EndOfInput, TuiInv, TuiShape, WorkInv, EndInv, Streaming, Idle, Over
<1>3. CASE Handle
  BY <1>3, HandleKeeps
<1>4. CASE CommandDone
  <2>1. 0 \notin Runs
    BY RunNumbers
  <2>. QED
    BY <1>4, <2>1 DEF CommandDone, After, reader, TuiInv, TuiShape, WorkInv, EndInv, Streaming, Idle, Over
<1>5. CASE RunDone
  <2>1. exit = "no" /\ NoRun("no") /\ UNCHANGED <<gated, closed, cut>>
    BY <1>5 DEF RunDone, TuiInv, EndInv
  <2>. QED BY <2>1, NoRunKeeps DEF TuiInv, TuiShape
<1>6. CASE Finally
  BY <1>6 DEF Finally, reader, TuiInv, TuiShape, WorkInv, EndInv, Streaming, Idle, Over
<1>7. ASSUME NEW e \in Presses, Read(e) PROVE TuiInv'
  BY <1>7 DEF Read, TuiInv, TuiShape, WorkInv, EndInv, Streaming, Idle, Over
<1>8. ASSUME NEW i \in Runs, Asks(i) \/ Ends(i) \/ Settles(i) PROVE TuiInv'
  BY <1>8, RunSteps
<1>9. CASE UNCHANGED vars
  BY <1>9 DEF vars, TuiInv, TuiShape, WorkInv, EndInv, Streaming, Idle, Over
<1>. QED BY <1>1, <1>2, <1>3, <1>4, <1>5, <1>6, <1>7, <1>8, <1>9 DEF Next

(* When the loop has returned no run is at work, not even one that it replaced, and a run is
   aborted by the end of the loop only where leaving was asked for, never by the end of the
   input: for any number of runs (the loop and the finally clause of the interactive mode). *)
THEOREM TerminalIsGivenBack == ASSUME TuiAssumption PROVE Spec => []ExitsCleanly
<1>1. TuiInv => ExitsCleanly
  BY RunNumbers DEF TuiInv, WorkInv, EndInv, ExitsCleanly, Idle, Streaming, Over, TuiShape
<1>2. Init => TuiInv
  BY TuiStarts
<1>3. TuiInv /\ [Next]_vars => TuiInv'
  BY StepKeepsTui
<1>. QED BY <1>1, <1>2, <1>3, PTL DEF Spec
==============================================================================
