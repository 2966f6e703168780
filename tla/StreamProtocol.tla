--------------------------- MODULE StreamProtocol ---------------------------
(***************************************************************************)
(* What the consumer of an assistant message stream may rely on            *)
(* (ai/events.py, _stream_assistant_response): at most one start event,    *)
(* blocks that are started, extended and ended, and one terminal event: a  *)
(* done event only when every block has ended.                             *)
(***************************************************************************)
EXTENDS Naturals, Sequences

CONSTANTS Kinds, MaxBlocks

VARIABLES
    phase,      \* what has been pushed so far
    blocks      \* the content blocks of the message, each open or ended

vars == <<phase, blocks>>

Block(k, open) == [kind |-> k, open |-> open]

Init == phase = "empty" /\ blocks = <<>>

Start ==
    /\ phase = "empty"
    /\ phase' = "started"
    /\ UNCHANGED blocks

StartBlock ==
    /\ phase = "started" /\ Len(blocks) < MaxBlocks
    /\ \E k \in Kinds : blocks' = Append(blocks, Block(k, TRUE))
    /\ UNCHANGED phase

(* A delta event extends an open block, which these variables do not show. *)

EndBlock ==
    /\ phase = "started"
    /\ \E i \in DOMAIN blocks :
        /\ blocks[i].open
        /\ blocks' = [blocks EXCEPT ![i].open = FALSE]
    /\ UNCHANGED phase

Done ==
    /\ phase = "started"
    /\ \A i \in DOMAIN blocks : ~ blocks[i].open
    /\ phase' = "done"
    /\ UNCHANGED blocks

Fail ==
    /\ phase \in {"empty", "started"}
    /\ \E reason \in {"error", "aborted"} : phase' = reason
    /\ UNCHANGED blocks

Next == Start \/ StartBlock \/ EndBlock \/ Done \/ Fail

Spec == Init /\ [][Next]_vars /\ WF_vars(Done \/ Fail)
=============================================================================
