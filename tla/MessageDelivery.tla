-------------------------- MODULE MessageDelivery --------------------------
(***************************************************************************)
(* What the Agent promises of the messages that are steered or followed    *)
(* up: two FIFO boxes, a single hand that takes from the front of a box    *)
(* and puts down, one by one and in order, what it took; a message leaves  *)
(* this path only by a clear, by a reset or with the run that holds it.    *)
(* AgentLoop is shown to implement it.                                     *)
(***************************************************************************)
EXTENDS Naturals, Sequences

CONSTANTS Msgs, Boxes

VARIABLES
    accepted,   \* per box, every message it was ever given, in order
    waiting,    \* per box, what has not been taken yet
    hand,       \* taken and not yet delivered
    delivered,  \* the queued messages of the transcript
    gone        \* dropped: cleared, or lost with a failing run

vars == <<accepted, waiting, hand, delivered, gone>>

Elems(s) == {s[i] : i \in DOMAIN s}
Drop(s, k) == SubSeq(s, k + 1, Len(s))
Take(s, k) == SubSeq(s, 1, k)

-----------------------------------------------------------------------------
Init ==
    /\ accepted = [q \in Boxes |-> <<>>]
    /\ waiting = [q \in Boxes |-> <<>>]
    /\ hand = <<>>
    /\ delivered = <<>>
    /\ gone = {}

Accept(q, m) ==
    /\ \A b \in Boxes : m \notin Elems(accepted[b])
    /\ accepted' = [accepted EXCEPT ![q] = Append(@, m)]
    /\ waiting' = [waiting EXCEPT ![q] = Append(@, m)]
    /\ UNCHANGED <<hand, delivered, gone>>

(* One message or all of them, as the mode of the queue says. *)
Portions(q) == {1, Len(waiting[q])}

Grab(q, k) ==
    /\ waiting[q] # <<>>
    /\ hand = <<>>
    /\ hand' = Take(waiting[q], k)
    /\ waiting' = [waiting EXCEPT ![q] = Drop(@, k)]
    /\ UNCHANGED <<accepted, delivered, gone>>

Deliver ==
    /\ hand # <<>>
    /\ delivered' = Append(delivered, Head(hand))
    /\ hand' = Tail(hand)
    /\ UNCHANGED <<accepted, waiting, gone>>

(* The run that holds them fails. *)
LoseHand ==
    /\ hand # <<>>
    /\ gone' = gone \cup Elems(hand)
    /\ hand' = <<>>
    /\ UNCHANGED <<accepted, waiting, delivered>>

(* They are taken for a run that does not start, or by a drain that raises. *)
LoseFront(q, k) ==
    /\ waiting[q] # <<>>
    /\ gone' = gone \cup Elems(Take(waiting[q], k))
    /\ waiting' = [waiting EXCEPT ![q] = Drop(@, k)]
    /\ UNCHANGED <<accepted, hand, delivered>>

Clear(q) ==
    /\ waiting[q] # <<>>
    /\ gone' = gone \cup Elems(waiting[q])
    /\ waiting' = [waiting EXCEPT ![q] = <<>>]
    /\ UNCHANGED <<accepted, hand, delivered>>

Reset ==
    /\ hand = <<>>
    /\ gone' = gone \cup Elems(delivered) \cup UNION {Elems(waiting[q]) : q \in Boxes}
    /\ waiting' = [q \in Boxes |-> <<>>]
    /\ delivered' = <<>>
    /\ UNCHANGED <<accepted, hand>>

Next ==
    \/ \E q \in Boxes, m \in Msgs : Accept(q, m)
    \/ \E q \in Boxes : \E k \in Portions(q) : Grab(q, k) \/ LoseFront(q, k)
    \/ \E q \in Boxes : Clear(q)
    \/ Deliver \/ LoseHand \/ Reset

Spec == Init /\ [][Next]_vars

-----------------------------------------------------------------------------
Before(s, m1, m2) ==
    \E i, j \in DOMAIN s : i < j /\ s[i] = m1 /\ s[j] = m2

(* Messages of one box reach the transcript in the order in which the box was given them,
   and what still waits was given after everything already delivered or in the hand. *)
FirstInFirstOut ==
    \A q \in Boxes :
        LET line == delivered \o hand \o waiting[q]
        IN  \A m1, m2 \in Elems(accepted[q]) :
                Before(line, m1, m2) => Before(accepted[q], m1, m2)
=============================================================================
