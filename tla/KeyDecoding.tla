----------------------------- MODULE KeyDecoding -----------------------------
(***************************************************************************)
(* KeyDecoder and StdioTerminal.read_event (tui/terminal.py): bytes to     *)
(* keys and pastes, however the bytes are cut, with a timeout that tells a *)
(* lone Escape from the beginning of a sequence.                           *)
(*                                                                         *)
(* A byte is one of eight: Escape, the bracket, a letter that ends an      *)
(* arrow key, the rest of the two paste marks (each taken as one byte), a  *)
(* control key, and the halves of a character of two bytes.                *)
(***************************************************************************)
EXTENDS Naturals, Sequences
LOCAL INSTANCE SequencesExt

CONSTANTS
    MaxPieces,      \* bound: pieces of the input: bytes, keys and marks
    None

(* Assumed where this module is instantiated. *)
KeysAssumption == MaxPieces \in Nat

Bytes == {"esc", "[", "A", "200~", "201~", "ctrl", "hi", "lo"}
Start == <<"esc", "[", "200~">>
Finish == <<"esc", "[", "201~">>
Sequences == {<<"esc", "[", "A">>}
Pieces == {Start, Finish} \cup Sequences \cup {<<b>> : b \in Bytes \ {"200~", "201~"}}

VARIABLES
    input,          \* what is still to be typed
    buffer, paste,  \* of the decoder; paste is None or the bytes of the one under way
    events,         \* what read_event has answered, with the bytes each event stands for
    pending,        \* _pending
    waiting,        \* escape_pending
    stray,          \* abandoned reads: each takes one byte with it
    ended,
    fed,            \* history: the bytes the decoder was given
    timeouts        \* history: how often a timeout has fallen

keyVars == <<input, buffer, paste, events, pending, waiting, stray, ended, fed, timeouts>>

KeysInit ==
    /\ \E n \in 0 .. MaxPieces : \E typed \in [1 .. n -> Pieces] : input = FlattenSeq(typed)
    /\ buffer = <<>> /\ paste = None /\ events = <<>> /\ pending = <<>>
    /\ waiting = FALSE /\ stray = 0 /\ ended = FALSE /\ fed = <<>> /\ timeouts = 0

-----------------------------------------------------------------------------
(* One turn of the loop of _decode: the decoder with what is left in it, or itself if it has
   to wait for more. *)

Event(kind, bytes) == [kind |-> kind, bytes |-> bytes]
Drop(s, n) == SubSeq(s, n + 1, Len(s))
Emit(d, event, n) == [d EXCEPT !.out = Append(@, event), !.buffer = Drop(@, n)]
IsPrefixOfKnown(b) == \E s \in Sequences \cup {Start, Finish} : IsPrefix(b, s)
MarkAt(b) == {i \in 1 .. Len(b) : IsPrefix(Finish, Drop(b, i - 1))}
First(s) == CHOOSE i \in s : \A j \in s : i <= j

(* Variants with a mistake in them.  No specification uses them: the checks put each one in
   the place of the definition it resembles, to see that a property notices. *)

(* While no end mark is there, everything is moved to the paste. *)
PasteAll(d, final) ==
    IF MarkAt(d.buffer) # {}
    THEN LET i == First(MarkAt(d.buffer)) IN
         [Emit(d, Event("paste", d.paste \o SubSeq(d.buffer, 1, i - 1)), i + Len(Finish) - 1)
            EXCEPT !.paste = None]
    ELSE IF final THEN [Emit(d, Event("unclosed", d.paste \o d.buffer), Len(d.buffer)) EXCEPT !.paste = None]
    ELSE [d EXCEPT !.paste = @ \o d.buffer, !.buffer = <<>>]

(* Within a paste: to the end mark, or all but as many bytes as it has.  One that is given up
   without its mark is an event like another; it has a kind of its own here. *)
Paste(d, final) ==
    IF MarkAt(d.buffer) # {}
    THEN LET i == First(MarkAt(d.buffer)) IN
         [Emit(d, Event("paste", d.paste \o SubSeq(d.buffer, 1, i - 1)), i + Len(Finish) - 1)
            EXCEPT !.paste = None]
    ELSE IF final THEN [Emit(d, Event("unclosed", d.paste \o d.buffer), Len(d.buffer)) EXCEPT !.paste = None]
    ELSE LET keep == Len(d.buffer) - Len(Finish) IN
         IF keep <= 0 THEN d
         ELSE [d EXCEPT !.paste = @ \o SubSeq(d.buffer, 1, keep), !.buffer = Drop(@, keep)]

(* Escape and what may follow it. *)
Escape(d, final) ==
    IF IsPrefix(Start, d.buffer) THEN [d EXCEPT !.buffer = Drop(@, Len(Start)), !.paste = <<>>]
    ELSE IF \E s \in Sequences : IsPrefix(s, d.buffer)
    THEN LET s == CHOOSE s \in Sequences : IsPrefix(s, d.buffer) IN Emit(d, Event("key", s), Len(s))
    ELSE IF IsPrefixOfKnown(d.buffer) /\ ~final THEN d
    ELSE IF Len(d.buffer) >= 2 /\ d.buffer[2] # "["
    THEN Emit(d, Event("alt", SubSeq(d.buffer, 1, 2)), 2)
    ELSE Emit(d, Event("escape", <<"esc">>), 1)

(* A control key, or a character, for which the rest of its bytes is awaited. *)
Character(d, final) ==
    LET length == IF d.buffer[1] = "hi" THEN 2 ELSE 1
        n == IF Len(d.buffer) < length THEN Len(d.buffer) ELSE length
    IN  IF Len(d.buffer) < length /\ ~final THEN d
        ELSE Emit(d, Event(IF d.buffer[1] = "ctrl" THEN "control" ELSE "character", SubSeq(d.buffer, 1, n)), n)

Turn(d, final) ==
    IF d.paste # None THEN Paste(d, final)
    ELSE IF d.buffer[1] = "esc" THEN Escape(d, final)
    ELSE Character(d, final)

RECURSIVE Decode(_, _)
Decode(d, final) ==
    IF d.buffer = <<>> \/ Turn(d, final) = d THEN d
    ELSE Decode(Turn(d, final), final)

Decoder(b, p) == [buffer |-> b, paste |-> p, out |-> <<>>]
Take(d) == buffer' = d.buffer /\ paste' = d.paste

-----------------------------------------------------------------------------
(* read_event: an event that is pending is taken; otherwise a thread reads. *)
Pop ==
    /\ pending # <<>>
    /\ events' = Append(events, Head(pending)) /\ pending' = Tail(pending)
    /\ waiting' = FALSE
    /\ UNCHANGED <<input, buffer, paste, stray, ended, fed, timeouts>>

(* A read that was given up by a timeout is still in its thread, and has the next byte. *)
Swallow ==
    /\ stray > 0 /\ input # <<>>
    /\ stray' = stray - 1 /\ input' = Tail(input)
    /\ UNCHANGED <<buffer, paste, events, pending, waiting, ended, fed, timeouts>>

(* feed: one byte from a terminal, any number of them from another host. *)
Feed(n) ==
    LET chunk == SubSeq(input, 1, n)
        d == Decode(Decoder(buffer \o chunk, paste), FALSE)
    IN
    /\ pending = <<>> /\ stray = 0 /\ n \in 1 .. Len(input)
    /\ input' = Drop(input, n) /\ fed' = fed \o chunk
    /\ Take(d) /\ pending' = d.out
    /\ waiting' = (d.out = <<>> /\ d.buffer # <<>> /\ d.buffer[1] = "esc")
    /\ UNCHANGED <<events, stray, ended, timeouts>>

(* The escape timeout: flush_escape, and a read is left behind.  With nothing to flush the
   answer is an unknown key. *)
Timeout ==
    LET d == Decode(Decoder(buffer, paste), TRUE) IN
    /\ waiting /\ pending = <<>> /\ ~ended
    /\ Take(d) /\ pending' = d.out
    /\ waiting' = FALSE /\ stray' = stray + 1 /\ timeouts' = timeouts + 1
    /\ UNCHANGED <<input, events, ended, fed>>

(* End of input: what is left is decoded as it is. *)
End ==
    LET d == Decode(Decoder(buffer, paste), TRUE) IN
    /\ pending = <<>> /\ input = <<>> /\ ~ended
    /\ ended' = TRUE
    /\ Take(d) /\ pending' = d.out
    /\ waiting' = FALSE
    /\ UNCHANGED <<input, events, stray, fed, timeouts>>

KeysNext == Pop \/ Swallow \/ Timeout \/ End \/ \E n \in 1 .. Len(input) : Feed(n)

KeysSpec == KeysInit /\ [][KeysNext]_keyVars

-----------------------------------------------------------------------------
(* The bytes an event stands for, and all of them, with what the decoder still holds. *)
Answered == events \o pending
BytesOf(e) ==
    CASE e.kind = "paste" -> Start \o e.bytes \o Finish
      [] e.kind = "unclosed" -> Start \o e.bytes
      [] OTHER -> e.bytes
AllBytes(es) == FoldLeft(LAMBDA acc, e : acc \o BytesOf(e), <<>>, es)
Held == (IF paste = None THEN <<>> ELSE Start \o paste) \o buffer
Whole == Decode(Decoder(fed, None), FALSE)

(* What is still to come of the input after the first events. *)
After(i) == Drop(fed, Len(AllBytes(SubSeq(Answered, 1, i))))

(* Every byte the decoder is given is in one event, in order, or held, whatever timeouts fall.
   Without one the keys and pastes do not depend on how the bytes were cut, and an Escape is
   one only where no sequence begins.  At the end nothing is held. *)
KeysSound ==
    /\ AllBytes(Answered) \o Held = fed
    /\ timeouts = 0 /\ ~ended => Answered = Whole.out
    /\ timeouts = 0 => \A i \in DOMAIN Answered : Answered[i].kind = "escape" =>
        ~ \E s \in Sequences \cup {Start} : IsPrefix(s, After(i - 1))
    /\ ended => buffer = <<>> /\ paste \in {None, <<>>}
=============================================================================
