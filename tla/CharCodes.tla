----------------------------- MODULE CharCodes -----------------------------
(* Characters are their byte values, 0..255, and a string is a sequence of  *)
(* them, so that what the parser does to single characters -- classifying,  *)
(* lower-casing, decoding -- is what util.h and util.cc do.                 *)
EXTENDS Integers, Sequences, SequencesExt

Space == 32
Newline == 10
Return == 13

IsDigit(c) == c \in 48..57

IsUpper(c) == c \in 65..90

IsLower(c) == c \in 97..122

IsAlnum(c) == IsDigit(c) \/ IsUpper(c) \/ IsLower(c)

IsSpace(c) == c = Space \/ c \in 9..13

IsCntrl(c) == c < 32 \/ c = 127

(* The test (ch & 0x80) of the tokenizers.                                  *)
IsHigh(c) == c >= 128

IsXDigit(c) == IsDigit(c) \/ c \in 65..70 \/ c \in 97..102

ToLower(c) == IF IsUpper(c) THEN c + 32 ELSE c

HexToInt(c) ==
    CHOOSE v \in 0..15 :
        \/ IsDigit(c) /\ v = c - 48
        \/ c \in 65..70 /\ v = c - 55
        \/ c \in 97..102 /\ v = c - 87
        \/ ~IsXDigit(c) /\ v = 0

(* What is not printable and not a space becomes a blank.                   *)
SafeChar(c) == IF IsCntrl(c) /\ ~IsSpace(c) THEN Space ELSE c

LowerAll(s) == [i \in 1..Len(s) |-> ToLower(s[i])]

AllDigits(s) == \A i \in 1..Len(s) : IsDigit(s[i])

StartsWith(s, p) == Len(s) >= Len(p) /\ SubSeq(s, 1, Len(p)) = p

EndsWith(s, p) == Len(s) >= Len(p) /\ SubSeq(s, Len(s) - Len(p) + 1, Len(s)) = p

(* The text of lines, each followed by a terminator.                        *)
JoinLines(lines, terminator) == FlattenSeq([i \in 1..Len(lines) |-> lines[i] \o terminator])
=============================================================================
