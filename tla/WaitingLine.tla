----------------------------- MODULE WaitingLine -----------------------------
(* The tasks at an asyncio.Lock, its holder first. *)
EXTENDS Naturals, Sequences

(* A line that c, who is in it at most once, has left: by release, or by a cancelled wait. *)
Without(s, c) ==
    IF \E i \in DOMAIN s : s[i] = c
    THEN [i \in 1 .. Len(s) - 1 |-> IF \E j \in 1 .. i : s[j] = c THEN s[i + 1] ELSE s[i]]
    ELSE s
=============================================================================
