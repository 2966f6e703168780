---------------------------- MODULE OutputLimits ----------------------------
(***************************************************************************)
(* truncate_head and truncate_tail (harness/truncate.py), and the two      *)
(* tools that stand on them: read, one part of a file after the other as   *)
(* its hints say (harness/tools/read.py), and bash (harness/tools/bash.py),*)
(* which answers the end of an output.                                     *)
(*                                                                         *)
(* A line is the sequence of the sizes of its characters in UTF-8, a text  *)
(* its lines and whether a newline ends the last one.                      *)
(***************************************************************************)
EXTENDS Naturals, SequencesExt, FiniteSetsExt

CONSTANTS
    Lines,          \* lines there are
    MaxLength,      \* bound: lines of a text
    LineLimits, ByteLimits, PageSizes,      \* of the tools; zero is allowed for the first two
    MaxCalls,       \* bound: calls
    None

(* Assumed where this module is instantiated. *)
LimitsAssumption ==
    /\ \A l \in Lines : l \in Seq(1 .. 4)
    /\ MaxLength \in Nat /\ MaxCalls \in Nat
    /\ LineLimits \cup ByteLimits \subseteq Nat /\ PageSizes \subseteq Nat \ {0}
    /\ None \notin {"lines", "bytes"}

VARIABLES
    file,           \* the text of the file
    maxLines, maxBytes, page,   \* of the tools; page is default_line_limit
    answer,         \* the last result
    hint,           \* the offset it gives to go on with, or None
    seen,           \* history: what the reader has seen since it began at line 1
    following,      \* history: it has followed every hint since
    calls           \* for the bound

limitVars == <<file, maxLines, maxBytes, page, answer, hint, seen, following, calls>>

Text(lines, ended) == [lines |-> lines, ended |-> ended]
Nothing == Text(<<>>, FALSE)

(* A last line that no newline ends is not empty. *)
Proper(t) == t.ended => t.lines # <<>>
Whole(t) == ~t.ended /\ t.lines # <<>> => Last(t.lines) # <<>>
Contents == {t \in [lines : UNION {[1 .. n -> Lines] : n \in 0 .. MaxLength}, ended : BOOLEAN] :
            Proper(t) /\ Whole(t)}

(* The sum of the numbers of a sequence. *)
Total(s) == LET sum[n \in 0 .. Len(s)] == IF n = 0 THEN 0 ELSE sum[n - 1] + s[n] IN sum[Len(s)]
LengthOf(line) == Total(line)
Bytes(t) ==
    Total([i \in DOMAIN t.lines |-> LengthOf(t.lines[i])])
    + (IF t.lines = <<>> THEN 0 ELSE Len(t.lines) - 1) + (IF t.ended THEN 1 ELSE 0)

LimitsInit ==
    /\ file \in Contents
    /\ maxLines \in LineLimits /\ maxBytes \in ByteLimits /\ page \in PageSizes
    /\ answer = None /\ hint = None /\ seen = <<>> /\ following = FALSE /\ calls = 0

-----------------------------------------------------------------------------
Fits(t) == Len(t.lines) <= maxLines /\ Bytes(t) <= maxBytes
Cut(body, by, partial) == [body |-> body, by |-> by, partial |-> partial]

(* A variant with a mistake in it.  No specification uses it: the checks put it in the place
   of the definition it resembles, to see that a property notices. *)

(* The newline is left out of the sum. *)
TakeNoNewline(acc, line) ==
    IF acc.full \/ Len(acc.kept) >= maxLines THEN acc
    ELSE IF acc.bytes + LengthOf(line) > maxBytes THEN [acc EXCEPT !.full = TRUE]
    ELSE [kept |-> Append(acc.kept, line), bytes |-> acc.bytes + LengthOf(line), full |-> FALSE]

(* The first lines, in this order, that fit one after the other, with a newline between. *)
Take(acc, line) ==
    LET size == LengthOf(line) + (IF acc.kept # <<>> THEN 1 ELSE 0) IN
    IF acc.full \/ Len(acc.kept) >= maxLines THEN acc
    ELSE IF acc.bytes + size > maxBytes THEN [acc EXCEPT !.full = TRUE]
    ELSE [kept |-> Append(acc.kept, line), bytes |-> acc.bytes + size, full |-> FALSE]
Greedy(lines) ==
    LET got[n \in 0 .. Len(lines)] ==
            IF n = 0 THEN [kept |-> <<>>, bytes |-> 0, full |-> FALSE] ELSE Take(got[n - 1], lines[n])
    IN  got[Len(lines)]

(* truncate_head; a first line that is too long leaves nothing.  The final newline of what is
   cut is lost, and counts: a text may be cut for it alone. *)
HeadOf(t) ==
    LET got == Greedy(t.lines) IN
    IF Fits(t) THEN Cut(t, None, FALSE)
    ELSE Cut(Text(got.kept, FALSE), IF got.full THEN "bytes" ELSE "lines", FALSE)

(* _truncate_utf8_suffix: whole characters. *)
Suffix(line) ==
    LET n == Max({k \in 0 .. Len(line) : LengthOf(SubSeq(line, Len(line) - k + 1, Len(line))) <= maxBytes})
    IN  SubSeq(line, Len(line) - n + 1, Len(line))

(* truncate_tail: of a last line that is too long, its end. *)
TailOf(t) ==
    LET got == Greedy(Reverse(t.lines))
        partial == got.full /\ got.kept = <<>>
    IN  IF Fits(t) THEN Cut(t, None, FALSE)
        ELSE IF partial
        THEN Cut(Text(<<Suffix(Last(t.lines))>>, FALSE), IF maxLines = 1 THEN "lines" ELSE "bytes", TRUE)
        ELSE Cut(Text(Reverse(got.kept), FALSE), IF got.full THEN "bytes" ELSE "lines", FALSE)

-----------------------------------------------------------------------------
(* read, from a line on: text.splitlines, then a number of lines of it. *)
Selected(offset, limit) ==
    LET n == Len(file.lines)
        start == Min({offset - 1, n})
        stop == Min({start + limit, n})
    IN  [start |-> start, stop |-> stop,
         text |-> Text(SubSeq(file.lines, start + 1, stop), start < stop /\ (stop < n \/ file.ended))]

(* _render_verbatim: what was asked for is cut; the hint goes on after what was asked for. *)
Read(offset, limit) ==
    LET s == Selected(offset, limit)
        cut == HeadOf(s.text)
        goesOn == hint # None /\ following /\ offset = hint
    IN
    /\ answer' = [tool |-> "read", of |-> s.text, cut |-> cut]
    /\ hint' = IF s.stop < Len(file.lines) THEN s.stop + 1 ELSE None
    /\ following' = ((offset = 1 \/ goesOn) /\ cut.by = None)
    /\ seen' = IF offset = 1 THEN cut.body.lines ELSE IF goesOn THEN seen \o cut.body.lines ELSE <<>>
    /\ UNCHANGED <<file, maxLines, maxBytes, page>>

(* _render_numbered: each line has its number and two characters before it, and no hint. *)
ReadNumbered(offset, limit) ==
    LET s == Selected(offset, limit)
        numbered == [i \in DOMAIN s.text.lines |-> <<1, 1, 1>> \o s.text.lines[i]]
    IN
    /\ answer' = [tool |-> "read", of |-> Text(numbered, FALSE), cut |-> HeadOf(Text(numbered, FALSE))]
    /\ hint' = None /\ following' = FALSE /\ seen' = <<>>
    /\ UNCHANGED <<file, maxLines, maxBytes, page>>

(* bash, with an output that is the text: cat, for one. *)
Bash ==
    /\ answer' = [tool |-> "bash", of |-> file, cut |-> TailOf(file)]
    /\ UNCHANGED <<file, maxLines, maxBytes, page, hint, seen, following>>

(* Someone adds a line to the file between two calls. *)
Grow(line) ==
    /\ Len(file.lines) < MaxLength
    /\ file' = Text(Append(file.lines, line), TRUE)
    /\ UNCHANGED <<maxLines, maxBytes, page, answer, hint, seen, following>>

LimitsNext ==
    /\ calls < MaxCalls /\ calls' = calls + 1
    /\ \/ \E offset \in 1 .. MaxLength + 1, limit \in {1, page} : Read(offset, limit)
       \/ \E limit \in {1, MaxLength} : ReadNumbered(1, limit)
       \/ Bash
       \/ \E line \in Lines : Grow(line)

LimitsSpec == LimitsInit /\ [][LimitsNext]_limitVars

-----------------------------------------------------------------------------
Joined(t, i, j) == Text(SubSeq(t.lines, i, j), FALSE)
Kept == answer.cut.body.lines
Asked == answer.of.lines

(* No answer is larger than the limits say.  Nothing is left out of an answer unless it says
   so, and then it has as many whole lines as fit, from the beginning (read) or to the end
   (bash); only a last line that is too long by itself is shown in part, as much of it as fits.
   One who reads from the first line on and goes where the hints lead has seen the file so far
   line by line, and all that there was when there is no hint, as long as no answer was cut. *)
LimitsHeld ==
    /\ answer # None =>
        LET n == Len(Kept)
            m == Len(Asked)
        IN
        /\ n <= maxLines \/ answer.cut.partial
        /\ Bytes(answer.cut.body) <= maxBytes
        /\ answer.cut.by = None => answer.cut.body = answer.of
        /\ answer.cut.by # None /\ answer.tool = "read" =>
            /\ Kept = SubSeq(Asked, 1, n)
            /\ n = m \/ n = maxLines \/ Bytes(Joined(answer.of, 1, n + 1)) > maxBytes
        /\ answer.cut.by # None /\ answer.tool = "bash" /\ ~answer.cut.partial =>
            /\ Kept = SubSeq(Asked, m - n + 1, m)
            /\ n = m \/ n = maxLines \/ Bytes(Joined(answer.of, m - n, m)) > maxBytes
        /\ answer.cut.partial =>
            LET last == Asked[m]
                k == Len(Kept[1])
            IN
            /\ Kept[1] = SubSeq(last, Len(last) - k + 1, Len(last))
            /\ k < Len(last) /\ LengthOf(SubSeq(last, Len(last) - k, Len(last))) > maxBytes
    /\ following =>
        seen = SubSeq(file.lines, 1, Len(seen)) /\ (hint # None => Len(seen) = hint - 1)
=============================================================================
