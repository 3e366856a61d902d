---------------------------- MODULE MCTextReading ----------------------------
(* TextReading over texts put together from pieces, and what it is to       *)
(* compute, said without its machines.                                      *)
EXTENDS TextReading

(* The pieces of a body; a Newline stands for the end of a line.            *)
Pieces ==
    { <<65>>, <<120, 121>>, <<46>>, <<55>>, <<233>>, <<Space>>, <<Newline>>, <<Lt>>, <<Gt>>,
      <<33, 45, 45>>, <<45, 45>>, <<Amp>>, <<Amp, 108, 116, Semicolon>>,
      <<Lt, 97, 32, 104, 114, 101, 102, 61, 98, 37, 52, 49, Gt>> }

LongPieces == { <<Lt, 105, 109, 103, 32, 65, Gt>>, <<Lt, 33, 45, 45, 65, 45, 45, Gt>>,
                <<55, 46, 55, 46, 55, 46, 55, 32>>, <<36, 120, 45, 121, 122, 46>>,
                <<65, 32, 66, 32, 67, 32>>, <<120, 121, 32, 65, 32>>, <<Amp, 35, 54, 53, Semicolon>>,
                <<Amp, 35, 120, 52, 49, Semicolon, Amp, 35, 88, 55, Semicolon>> }

Body(kind, ps) ==
    LET s == FlattenSeq(ps)
        ls == FromText(s)
    IN  [kind |-> kind, prefix |-> <<>>, encoding |-> "none", lines |-> ls, original |-> ls]

Header == [kind |-> "header", prefix |-> <<72, 95>>, encoding |-> "none",
           lines |-> <<<<120, 121>>, <<32, 65>>>>, original |-> <<<<120, 121>>, <<32, 65>>>>]

----------------------------------------------------------------------------
(* Encoded texts: every way to write a text down that the standards allow,  *)
(* within the bounds.                                                       *)
PlainTexts == { <<<<61>>>>, <<<<120, 233>>>>, <<<<120>>, <<61, 65>>>>, <<<<95>>, <<>>, <<120>>>>, <<<<120, 121, 65>>>> }

Hex(c) == LET digit(d) == IF d < 10 THEN d + 48 ELSE d + 55
          IN  <<Equals, digit(c \div 16), digit(c % 16)>>

(* A line in quoted printable: the characters of Q written as hex digits, a *)
(* soft break before those of B.                                            *)
Quoted(line, Q, B) ==
    FlattenSeq([i \in 1..Len(line) |->
        (IF i \in B THEN <<Equals, Newline>> ELSE <<>>)
        \o (IF i \in Q \/ line[i] = Equals THEN Hex(line[i]) ELSE <<line[i]>>)])

QuotedLines(ls, Q, B) == FromText(FlattenSeq([k \in 1..Len(ls) |-> Quoted(ls[k], Q, B) \o <<Newline>>]))

Digit64(v) == CHOOSE c \in (65..90) \cup (97..122) \cup (48..57) \cup {43, 47} : Char64(c) = v

(* Base 64, a line break behind each of the first n digits.                 *)
Base64(s, n) ==
    LET at(i) == IF i <= Len(s) THEN s[i] ELSE 0
        group(k) == LET b == 3 * k
                        v == <<at(b + 1) \div 4, 16 * (at(b + 1) % 4) + at(b + 2) \div 16,
                               4 * (at(b + 2) % 16) + at(b + 3) \div 64, at(b + 3) % 64>>
                    IN  [j \in 1..4 |-> IF b + j > Len(s) + 1 THEN Equals ELSE Digit64(v[j])]
        digits == FlattenSeq([k \in 1..((Len(s) + 2) \div 3) |-> group(k - 1)])
    IN  FlattenSeq([i \in 1..Len(digits) |-> IF i <= n THEN <<digits[i], Newline>> ELSE <<digits[i]>>])

Encoded(encoding, ls) ==
    IF encoding = "base64"
    THEN {FromText(Base64(SubSeq(JoinLines(ls, <<Newline>>), 1, Len(JoinLines(ls, <<Newline>>)) - 1), n)) : n \in 0..5}
    ELSE {QuotedLines(ls, Q, B) : Q \in SUBSET (1..3), B \in SUBSET (1..3)}

EncodedBodies ==
    UNION { {[kind |-> "plain", prefix |-> <<>>, encoding |-> e, lines |-> c, original |-> ls] : c \in Encoded(e, ls)} :
              e \in {"base64", "quoted-printable"}, ls \in PlainTexts }

(* A header with one encoded word, between other words.                     *)
Word(method, s) == <<Equals, Query, 99, Query, method, Query>> \o s \o <<Query, Equals>>

HeaderOf(s, original) ==
    [kind |-> "header", prefix |-> <<72, 95>>, encoding |-> "none", lines |-> <<s>>, original |-> original]

EncodedHeaders ==
    { HeaderOf(<<65, Space>> \o Word(113, <<120, 95>> \o Hex(233)) \o <<Space, 66>>,
               <<<<65, Space, 120, Space, 233, Space, 66>>>>),
      HeaderOf(Word(98, Base64(<<120, 121>>, 0)) \o <<Space, 66>>, <<<<120, 121, Space, 66>>>>) }

TwoWordHeader ==
    HeaderOf(Word(113, <<120>>) \o <<Space>> \o Word(113, <<121>>), <<<<120, Space, 121>>>>)

MCMessages ==
    {<<Body("html", ps)>> : ps \in Pieces \X Pieces \X Pieces}
    \cup {<<Body("html", <<<<65>>, lead>> \o ps)>> : lead \in LongPieces, ps \in (Pieces \cup LongPieces) \X LongPieces}
    \cup {<<Header, Body("plain", ps)>> : ps \in LongPieces \X LongPieces}
    \cup {<<b>> : b \in EncodedBodies \cup EncodedHeaders}

WordMessages == {<<TwoWordHeader>>}

MCConfigs == {[removeHtml |-> TRUE, keepSuspicious |-> TRUE], [removeHtml |-> FALSE, keepSuspicious |-> FALSE]}

----------------------------------------------------------------------------
(* The text without its tags, read from left to right.                      *)

(* The place of the semicolon of an entity at the start of s, if there is   *)
(* one.                                                                     *)
EntityEnds(s) ==
    {k \in 2..Min({Len(s), MaxEntityLength + 1}) :
        /\ s[1] = Amp /\ s[k] = Semicolon /\ \A j \in 2..(k - 1) : s[j] # Semicolon
        /\ ProcessEntity(SubSeq(s, 2, k - 1)) # NoChar}

RECURSIVE Expanded(_)

Expanded(s) ==
    IF s = <<>> THEN <<>>
    ELSE IF EntityEnds(s) # {}
    THEN LET k == Min(EntityEnds(s))
         IN  <<ProcessEntity(SubSeq(s, 2, k - 1))>> \o Expanded(SubSeq(s, k + 1, Len(s)))
    ELSE <<Head(s)>> \o Expanded(Tail(s))

RECURSIVE TrimLeft(_)

TrimLeft(s) == IF s # <<>> /\ IsSpace(Head(s)) THEN TrimLeft(Tail(s)) ELSE s

(* What is between the < at the start of s and a >.                         *)
TagText(s, e) == TrimLeft(Expanded(SubSeq(s, 2, e - 1)))

TagEnds(s) ==
    LET closers == {e \in 2..Len(s) : s[e] = Gt /\ ~IsIncompleteCommentTag(TagText(s, e))}
    IN  IF s[1] # Lt \/ closers = {} THEN {}
        ELSE {e \in {Min(closers)} :
                LET t == TagText(s, e)
                IN  t # <<>> /\ (Len(t) < MaxTagLength \/ IsOpenCommentTag(t))}

RECURSIVE Stripped(_)

Stripped(s) ==
    IF s = <<>> THEN <<>>
    ELSE IF EntityEnds(s) # {}
    THEN LET k == Min(EntityEnds(s))
         IN  <<ProcessEntity(SubSeq(s, 2, k - 1))>> \o Stripped(SubSeq(s, k + 1, Len(s)))
    ELSE IF TagEnds(s) # {}
    THEN LET e == Min(TagEnds(s))
         IN  (IF IsCommentTag(TagText(s, e)) THEN <<>> ELSE <<Space>>) \o Stripped(SubSeq(s, e + 1, Len(s)))
    ELSE <<Head(s)>> \o Stripped(Tail(s))

(* The words of a string: of each maximal run of letters and special        *)
(* characters, from its first letter or dollar sign on, as far as its last  *)
(* letter reaches.                                                          *)
Runs(s) ==
    LET N == Len(s)
        inside(i) == IsLetterChar(s[i]) \/ IsSpecialChar(s[i])
        starts(i) == IsLetterChar(s[i]) \/ s[i] = Dollar
        first(i) == /\ starts(i)
                    /\ \A j \in 1..(i - 1) : starts(j) => \E k \in j..i : ~inside(k)
        last(i) == Max({i} \cup {j \in (i + 1)..N : IsLetterChar(s[j]) /\ \A k \in i..j : inside(k)})
    IN  FlattenSeq([i \in 1..N |-> IF first(i) THEN <<SubSeq(s, i, last(i))>> ELSE <<>>])

Replaced(s) == [i \in 1..Len(s) |-> ToLower(CurrentChar(s[i]))]

(* The words of a text are the runs of letters and special characters in    *)
(* what is left of it without its tags and with its entities expanded: a    *)
(* word goes on through a comment and ends at any other tag, a < that no    *)
(* tag follows is text, and tokenizing a tag in the middle of a word does   *)
(* not disturb the word. (SimpleTokenizer, HtmlTokenizer)                   *)
WordsAreRuns ==
    EndOfPart => words = Runs(Replaced(IF IsHtml THEN Stripped(FlatText) ELSE FlatText))

(* Decoding a text gives back the text that was encoded, however it was     *)
(* encoded: any characters written in hex, soft line breaks anywhere, any   *)
(* line breaks in base 64, a word of a header in either method. (Quoted     *)
(* printable may leave an empty line behind the last one.) (MimeDecoder)    *)
DecodesWhatWasEncoded ==
    part > 0 => lines \in {Part.original, Append(Part.original, <<>>)}

(* A header with encoded words reads as the words that were encoded.        *)
(* (MimeDecoder::decodeHeaderString; ChangeLog:742-744 "processing to decode    *)
(* RFC2047 encoded headers")                                                *)
EncodedWordsDecoded == part > 0 => lines = Part.original
=============================================================================
