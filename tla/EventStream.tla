----------------------------- MODULE EventStream -----------------------------
(***************************************************************************)
(* EventStream (ai/event_stream.py): the queue between the task that       *)
(* produces events, a provider or the agent loop, and those that iterate   *)
(* over them.  Events are numbered in the order in which they are pushed.  *)
(*                                                                         *)
(* A consumer is a task in an `async for` over the stream; when it was     *)
(* cancelled another may take its place.  Its future, while pending, is    *)
(* its name in waiting; cancelled it stays there as NoOne.                 *)
(***************************************************************************)
EXTENDS Naturals, Sequences, FiniteSets

CONSTANTS
    Consumers,      \* tasks that iterate over the stream
    MaxEvents,      \* bound: events pushed
    MaxFutures,     \* bound: futures in the deque when another consumer begins
    NoOne           \* the owner of a cancelled future

ASSUME EventsAssumption == MaxEvents \in Nat /\ MaxFutures \in Nat
ASSUME NoOneAssumption == NoOne \notin Consumers

VARIABLES
    queue, waiting, done, result,   \* the fields of the stream; result 0: _MISSING
    pc, item,                       \* per consumer: control, what its future was given
    open,                           \* the producer has not called its last end() yet
    pushed, received, lost          \* history: number of events that push() took, what each
                                    \* consumer was given, what went with cancelled ones

streamVars == <<queue, waiting, done, result>>
historyVars == <<pushed, received, lost>>
eventsVars == <<streamVars, pc, item, open, historyVars>>

Events == 1 .. MaxEvents
Explicit == {MaxEvents + 1, MaxEvents + 2}      \* values given to end()

Elems(s) == {s[i] : i \in DOMAIN s}
Pending == Elems(waiting) \ {NoOne}

(* The futures behind the first one that is pending; push() drops those before it. *)
First == CHOOSE i \in DOMAIN waiting :
            waiting[i] # NoOne /\ \A j \in 1 .. i - 1 : waiting[j] = NoOne
BehindFirst == SubSeq(waiting, First + 1, Len(waiting))

EventsInit ==
    /\ queue = <<>> /\ waiting = <<>> /\ done = FALSE /\ result = 0
    /\ pc = [c \in Consumers |-> "ready"]
    /\ item = [c \in Consumers |-> 0]
    /\ open = TRUE
    /\ pushed = 0
    /\ received = [c \in Consumers |-> <<>>]
    /\ lost = {}

-----------------------------------------------------------------------------
(* Variants with a mistake in them.  No specification uses them: the checks put each one in
   the place of the definition it resembles, to see that a property notices. *)

(* push() always queues. *)
EnqueueAlways(e) ==
    /\ queue' = Append(queue, e)
    /\ UNCHANGED <<waiting, pc, item>>

(* The last end() wakes nobody. *)
LastEndQuietly ==
    /\ open
    /\ open' = FALSE
    /\ done' = TRUE
    /\ UNCHANGED <<queue, waiting, result, pc, item, historyVars>>

-----------------------------------------------------------------------------
Hand(e) ==
    /\ Pending # {}
    /\ waiting' = BehindFirst
    /\ pc' = [pc EXCEPT ![waiting[First]] = "woken"]
    /\ item' = [item EXCEPT ![waiting[First]] = e]
    /\ UNCHANGED queue

Enqueue(e) ==
    /\ Pending = {}
    /\ waiting' = <<>>
    /\ queue' = Append(queue, e)
    /\ UNCHANGED <<pc, item>>

(* push of an event, a terminal one if last.  Once the stream is done it does nothing. *)
Push(last) ==
    /\ open /\ ~ done /\ pushed < MaxEvents
    /\ pushed' = pushed + 1
    /\ done' = last
    /\ result' = IF last THEN pushed + 1 ELSE result
    /\ Hand(pushed + 1) \/ Enqueue(pushed + 1)
    /\ UNCHANGED <<open, received, lost>>

(* end(v), or end() if v is 0: every pending future is given _DONE. *)
End(v) ==
    /\ open
    /\ done' = TRUE
    /\ result' = IF v # 0 /\ result = 0 THEN v ELSE result
    /\ waiting' = <<>>
    /\ pc' = [c \in Consumers |-> IF c \in Pending THEN "woken" ELSE pc[c]]
    /\ UNCHANGED <<queue, item, open, historyVars>>

(* The end() in the finally clause of the producer. *)
LastEnd ==
    /\ open
    /\ open' = FALSE
    /\ done' = TRUE
    /\ waiting' = <<>>
    /\ pc' = [c \in Consumers |-> IF c \in Pending THEN "woken" ELSE pc[c]]
    /\ UNCHANGED <<queue, result, item, historyVars>>

-----------------------------------------------------------------------------
(* __aiter__ *)

TakeQueued(c) ==
    /\ pc[c] = "ready" /\ queue # <<>>
    /\ received' = [received EXCEPT ![c] = Append(@, Head(queue))]
    /\ queue' = Tail(queue)
    /\ UNCHANGED <<waiting, done, result, pc, item, open, pushed, lost>>

Stop(c) ==
    /\ pc[c] = "ready" /\ queue = <<>> /\ done
    /\ pc' = [pc EXCEPT ![c] = "stopped"]
    /\ UNCHANGED <<streamVars, item, open, historyVars>>

Wait(c) ==
    /\ pc[c] = "ready" /\ queue = <<>> /\ ~ done
    /\ waiting' = Append(waiting, c)
    /\ pc' = [pc EXCEPT ![c] = "waiting"]
    /\ UNCHANGED <<queue, done, result, item, open, historyVars>>

(* The future has been given an event, or _DONE, which is 0. *)
Resume(c) ==
    /\ pc[c] = "woken"
    /\ IF item[c] = 0
       THEN /\ pc' = [pc EXCEPT ![c] = "stopped"]
            /\ UNCHANGED received
       ELSE /\ pc' = [pc EXCEPT ![c] = "ready"]
            /\ received' = [received EXCEPT ![c] = Append(@, item[c])]
    /\ item' = [item EXCEPT ![c] = 0]
    /\ UNCHANGED <<streamVars, open, pushed, lost>>

(* The task of the consumer is cancelled: a pending future is cancelled with it, an event
   that its future has already been given is lost. *)
CancelConsumer(c) ==
    /\ pc[c] \in {"ready", "waiting", "woken"}
    /\ pc' = [pc EXCEPT ![c] = "cancelled"]
    /\ waiting' = [i \in DOMAIN waiting |-> IF waiting[i] = c THEN NoOne ELSE waiting[i]]
    /\ lost' = lost \cup ({item[c]} \ {0})
    /\ item' = [item EXCEPT ![c] = 0]
    /\ UNCHANGED <<queue, done, result, open, pushed, received>>

(* A later consumer begins to iterate. *)
Another(c) ==
    /\ pc[c] = "cancelled" /\ Len(waiting) < MaxFutures
    /\ pc' = [pc EXCEPT ![c] = "ready"]
    /\ UNCHANGED <<streamVars, item, open, historyVars>>

Step(c) == TakeQueued(c) \/ Stop(c) \/ Wait(c) \/ Resume(c)

EventsNext ==
    \/ \E last \in BOOLEAN : Push(last)
    \/ \E v \in {0} \cup Explicit : End(v)
    \/ LastEnd
    \/ \E c \in Consumers : Step(c) \/ CancelConsumer(c) \/ Another(c)

EventsSpec == EventsInit /\ [][EventsNext]_eventsVars

(* Consumers take what is there, and every producer ends its stream in a finally clause. *)
FairSpec == EventsSpec /\ WF_eventsVars(LastEnd) /\ \A c \in Consumers : WF_eventsVars(Step(c))

-----------------------------------------------------------------------------
(* Properties *)

(* Nobody waits while there is an event to take, and
   who waits can be found by push() and end(), however many futures were cancelled. *)
NoStarvation ==
    \A c \in Consumers : pc[c] = "waiting" => queue = <<>> /\ c \in Pending

Handed == (UNION {Elems(received[c]) \cup ({item[c]} \ {0}) : c \in Consumers}) \cup lost

Copies(e) ==
    {<<"queue", i>> : i \in {j \in DOMAIN queue : queue[j] = e}}
        \cup {<<"item", c>> : c \in {d \in Consumers : item[d] = e}}
        \cup (UNION {{<<c, i>> : i \in {j \in DOMAIN received[c] : received[c][j] = e}} :
                        c \in Consumers})
        \cup ({<<"lost", x>> : x \in lost} \cap {<<"lost", e>>})

EachOnce == \A e \in 1 .. pushed : Cardinality(Copies(e)) = 1

HandedInOrder ==
    /\ \A i \in DOMAIN queue : \A e \in Handed : e < queue[i]
    /\ \A c \in Consumers : \A i, j \in DOMAIN received[c] : i < j =>
            received[c][i] < received[c][j]
    /\ \A c \in Consumers : item[c] # 0 => \A i \in DOMAIN received[c] : received[c][i] < item[c]

(* "A cancelled EventStream waiter must not starve a later consumer"
   (docs/audit/phase-8-12-evidence.md:70).  And every event that push() took is queued, handed
   to one consumer or lost with a consumer that was cancelled after it had been handed the
   event: none is dropped or seen twice, and whichever way they take, events are handed out in
   the order of their push(). *)
StreamSound == NoStarvation /\ EachOnce /\ HandedInOrder

(* Whoever waits is released, by an event or by the end of the stream: with several consumers
   a terminal event wakes one of them, and it is the end() of the producer that wakes the
   others. *)
Released == \A c \in Consumers : pc[c] = "waiting" ~> pc[c] # "waiting"
=============================================================================
