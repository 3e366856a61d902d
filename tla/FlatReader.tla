----------------------------- MODULE FlatReader -----------------------------
(* What a character reader promises, whatever the text is stored in: the    *)
(* characters of one string, one after the other, each time the one after   *)
(* the last; and after going back to a mark, again the ones behind it.      *)
EXTENDS Naturals, Sequences

VARIABLES text,     \* the string that is read
          read,     \* how many of its characters have been read
          current,  \* the character read last
          ended     \* forward has returned false

flatVars == <<text, read, current, ended>>

FlatInit == read = 0 /\ (ended => text = <<>>)

Forward ==
    /\ UNCHANGED text
    /\ IF read < Len(text)
       THEN ~ended /\ read' = read + 1 /\ current' = text[read + 1] /\ ended' = FALSE
       ELSE read' = read /\ ended' = TRUE /\ UNCHANGED current

ReturnToMark ==
    /\ UNCHANGED text
    /\ read' \in 1..read
    /\ current' = text[read']
    /\ ended' = FALSE

(* The reader of the next text.                                             *)
Reopen == read' = 0 /\ (ended' => text' = <<>>)

FlatSpec == FlatInit /\ [][Forward \/ ReturnToMark \/ Reopen]_flatVars
=============================================================================
