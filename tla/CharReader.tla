----------------------------- MODULE CharReader -----------------------------
(* SimpleMultiLineStringCharReader: the cursor that walks over the lines of *)
(* a text as if they were one string, with a terminator after each line. A  *)
(* mark is a copy of the whole cursor, and going back to it restores it.    *)
EXTENDS CharCodes

(* The positions within the lines of a text.                                *)
Position(lines) ==
    [line : 0..(Len(lines) - 1), char : Nat, inTerminator : BOOLEAN, atEnd : {FALSE}, current : Int]

(* The cursor before the first character.                                   *)
ResetPosition(lines) ==
    [line |-> 0, char |-> -1, inTerminator |-> FALSE, atEnd |-> lines = <<>>, current |-> Space]

CurrentLine(lines, terminator, p) == IF p.inTerminator THEN terminator ELSE lines[p.line + 1]

(* Step over the ends of lines until the cursor is on a character: from a   *)
(* line to its terminator when there is one, from there to the next line,   *)
(* from the last one to the end.                                            *)
EnsureCharReady(lines, terminator, pos) ==
    LET ready[p \in Position(lines)] ==
            LET here == CurrentLine(lines, terminator, p)
                rest == p.char - Len(here)
                leaves == p.inTerminator \/ terminator = <<>>
                q == [p EXCEPT !.char = rest, !.inTerminator = FALSE, !.line = @ + 1]
            IN  IF rest < 0 THEN [p EXCEPT !.current = here[p.char + 1]]
                ELSE IF ~leaves THEN ready[[p EXCEPT !.char = rest, !.inTerminator = TRUE]]
                ELSE IF q.line >= Len(lines) THEN [q EXCEPT !.atEnd = TRUE]
                ELSE ready[q]
    IN  IF pos.atEnd THEN pos ELSE ready[pos]

(* Mutant: there is no terminator after the last line.                      *)
SkipBetween(lines, terminator, p, nchars) ==
    IF ~p.atEnd /\ p.line = Len(lines) - 1 /\ p.char + nchars >= Len(lines[p.line + 1])
    THEN [p EXCEPT !.atEnd = TRUE]
    ELSE EnsureCharReady(lines, terminator, [p EXCEPT !.char = @ + nchars])

Skip(lines, terminator, p, nchars) ==
    EnsureCharReady(lines, terminator, [p EXCEPT !.char = @ + nchars])

CreateMark(p) == p

(* How many characters of the joined text lie before and under the cursor.  *)
CharsRead(lines, terminator, p) ==
    IF p.atEnd THEN Len(JoinLines(lines, terminator))
    ELSE Len(JoinLines(SubSeq(lines, 1, p.line), terminator))
         + (IF p.inTerminator THEN Len(lines[p.line + 1]) ELSE 0) + p.char + 1
=============================================================================
