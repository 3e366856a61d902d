----------------------------- MODULE Tokenizers -----------------------------
(* The chain that turns the characters of a text into terms:                *)
(* SimpleTokenizer finds words, TokenFilteringTokenizer keeps some of them, *)
(* PhrasingTokenizer joins words that follow each other, and                *)
(* TraditionalMailMessageParser makes the terms of a message of the result. *)
(* A chain is a record of what its three tokenizers remember.               *)
EXTENDS CharCodes, FiniteSetsExt

CONSTANTS
    MinTermLength, MaxTermLength,      \* TokenFilteringTokenizer
    MinPhraseTerms, MaxPhraseTerms,    \* PhrasingTokenizer
    MinPhraseChars, MaxPhraseChars,    \* 0: no such limit
    MaxStart,                          \* MAX_START, 2048
    NonAsciiReplacement                \* 0: characters beyond ASCII are kept

ASSUME TokenizersAssumption ==
    /\ {MinTermLength, MaxTermLength, MinPhraseChars, MaxPhraseChars, MaxStart} \subseteq Nat
    /\ {MinPhraseTerms, MaxPhraseTerms} \subseteq Nat \ {0}
    /\ NonAsciiReplacement \in 0..127

SpecialChars == {46, 45, 43, 44, 95, 36}
Dollar == 36
Percent == 37

(* What tokenize sets up before the first character.                        *)
Start == [state |-> "START", token |-> <<>>, pending |-> <<>>, chars |-> <<>>, offsets |-> <<>>]

CurrentChar(ch) == IF NonAsciiReplacement # 0 /\ IsHigh(ch) THEN NonAsciiReplacement ELSE ch

IsLetterChar(ch) == IsHigh(ch) \/ IsAlnum(ch) \/ ch = Percent

IsSpecialChar(ch) == ch \in SpecialChars

----------------------------------------------------------------------------
(* SimpleTokenizer: what a character makes of the chain in each state.      *)

(* A letter or a dollar sign begins a word.                                 *)
ProcessWaiting(t, ch) ==
    IF ch = Dollar \/ IsLetterChar(ch)
    THEN [t EXCEPT !.state = "IN_WORD", !.token = @ \o <<ToLower(ch)>>]
    ELSE [t EXCEPT !.state = "WAITING"]

ProcessStart(t, ch) == ProcessWaiting([t EXCEPT !.token = <<>>, !.pending = <<>>], ch)

ProcessInWord(t, ch) ==
    IF IsLetterChar(ch) THEN [t EXCEPT !.token = Append(@, ToLower(ch))]
    ELSE IF IsSpecialChar(ch)
    THEN [t EXCEPT !.state = "PENDING", !.pending = Append(@, ToLower(ch))]
    ELSE [t EXCEPT !.state = "START"]

(* Mutant: a word ends before its first special character.                  *)
DropPending(t, ch) ==
    IF IsLetterChar(ch)
    THEN [t EXCEPT !.state = "IN_WORD", !.token = @ \o <<ToLower(ch)>>, !.pending = <<>>]
    ELSE IF IsSpecialChar(ch) THEN [t EXCEPT !.pending = Append(@, ToLower(ch))]
    ELSE [t EXCEPT !.state = "START", !.pending = <<>>]

(* Special characters are part of a word only when a letter follows them.   *)
ProcessPending(t, ch) ==
    IF IsLetterChar(ch)
    THEN [t EXCEPT !.state = "IN_WORD", !.token = @ \o t.pending \o <<ToLower(ch)>>, !.pending = <<>>]
    ELSE IF IsSpecialChar(ch) THEN [t EXCEPT !.pending = Append(@, ToLower(ch))]
    ELSE [t EXCEPT !.state = "START", !.pending = <<>>]

ProcessCharForState(t, ch) ==
    CASE t.state = "START"   -> ProcessStart(t, ch)
      [] t.state = "WAITING" -> ProcessWaiting(t, ch)
      [] t.state = "IN_WORD" -> ProcessInWord(t, ch)
      [] t.state = "PENDING" -> ProcessPending(t, ch)

(* A character ends a word exactly when it takes the tokenizer back to the  *)
(* start.                                                                   *)
EndsWord(t) == t.state = "START"

----------------------------------------------------------------------------
(* TokenFilteringTokenizer::receiveToken, which does not allow numbers.     *)
Accepts(word) ==
    /\ Len(word) >= MinTermLength
    /\ Len(word) <= MaxTermLength
    /\ ~AllDigits(word)

----------------------------------------------------------------------------
(* PhrasingTokenizer: the last words in one string, with the offset of      *)
(* each, the newest first. Offsets count from 0.                            *)
MaxWordsInList == IF MinPhraseChars = 0 THEN MaxPhraseTerms ELSE MinPhraseChars

CharsStart(t) == IF t.chars = <<>> \/ t.offsets = <<>> THEN 0 ELSE Last(t.offsets)

(* Mutant: the characters go and the offsets stay as they were.             *)
CompactCharsOnly(t) ==
    LET start == CharsStart(t)
    IN  IF start > MaxStart THEN [t EXCEPT !.chars = SubSeq(@, start + 1, Len(@))] ELSE t

(* What lies before the oldest word goes when it has grown past MaxStart.   *)
CompactChars(t) ==
    LET start == CharsStart(t)
    IN  IF start > MaxStart
        THEN [t EXCEPT !.offsets = [i \in 1..Len(@) |-> @[i] - start],
                       !.chars = SubSeq(@, start + 1, Len(@))]
        ELSE t

(* The oldest words leave the list until there is room for one more.        *)
KeptOffsets(t) == SubSeq(t.offsets, 1, Min({Len(t.offsets), MaxWordsInList - 1}))

AddWord(t, word) ==
    LET c == CompactChars([t EXCEPT !.offsets = KeptOffsets(t)])
    IN  [c EXCEPT !.offsets = <<Len(c.chars) + 1>> \o @, !.chars = @ \o <<Space>> \o word]

PhraseFrom(t, n) == SubSeq(t.chars, t.offsets[n] + 1, Len(t.chars))

(* The loop over the list stops at the first phrase that is too long, or    *)
(* that has too many words without being short of characters.               *)
PhraseTooLong(t, n) ==
    LET length == Len(t.chars) - t.offsets[n]
    IN  \/ MaxPhraseChars > 0 /\ length > MaxPhraseChars
        \/ n > MaxPhraseTerms /\ (MinPhraseChars = 0 \/ length > MinPhraseChars)

(* The phrases that end in the word that was just added, shortest first.    *)
Phrases(t) ==
    LET stops == {n \in 1..Len(t.offsets) : PhraseTooLong(t, n)}
        limit == IF stops = {} THEN Len(t.offsets) ELSE Min(stops) - 1
    IN  [n \in 1..(Max({limit - MinPhraseTerms + 1, 0})) |-> PhraseFrom(t, n + MinPhraseTerms - 1)]

----------------------------------------------------------------------------
(* TraditionalMailMessageParser: the terms of one phrase.                   *)
IsPhrase(token) == Space \in ToSet(token)

(* A sequence of digits, a dot, digits, a dot, digits, a dot, digits        *)
(* somewhere in the token.                                                  *)
IsIpAddress(token) ==
    \E d1, d2, d3 \in 1..Len(token) :
        /\ 1 < d1 /\ d1 + 1 < d2 /\ d2 + 1 < d3 /\ d3 < Len(token)
        /\ {token[d1], token[d2], token[d3]} = {46}
        /\ \A i \in {d1 - 1, d3 + 1} \cup ((d1 + 1)..(d2 - 1)) \cup ((d2 + 1)..(d3 - 1)) : IsDigit(token[i])

IpAddressTerm == <<73, 80>>   \* IP_ADDRESS

PartChar(c) == IsAlnum(c) \/ IsHigh(c)

(* The maximal runs of part characters in a token, in their order.          *)
PartRuns(token) ==
    LET N == Len(token)
        runs == {r \in (1..N) \X (1..N) :
                    /\ r[1] <= r[2]
                    /\ \A i \in r[1]..r[2] : PartChar(token[i])
                    /\ r[1] > 1 => ~PartChar(token[r[1] - 1])
                    /\ r[2] < N => ~PartChar(token[r[2] + 1])}
        at(i) == {r \in runs : r[1] = i}
    IN  FlattenSeq([i \in 1..N |-> IF at(i) = {} THEN <<>> ELSE <<CHOOSE r \in at(i) : TRUE>>])

(* Of each part that is not a number: the rest of the token from there on,  *)
(* unless that is the whole token, and the part, if it is longer than one   *)
(* character and not the end of the token.                                  *)
TokenParts(token) ==
    LET terms(r) ==
            IF AllDigits(SubSeq(token, r[1], r[2])) THEN <<>>
            ELSE (IF r[1] > 1 THEN <<SubSeq(token, r[1], Len(token))>> ELSE <<>>)
                 \o (IF r[2] > r[1] /\ r[2] < Len(token) THEN <<SubSeq(token, r[1], r[2])>> ELSE <<>>)
        runs == PartRuns(token)
    IN  FlattenSeq([k \in 1..Len(runs) |-> terms(runs[k])])

DerivedTerms(token) ==
    IF IsPhrase(token) THEN <<>>
    ELSE (IF IsIpAddress(token) THEN <<IpAddressTerm>> ELSE <<>>) \o TokenParts(token)

(* receiveToken: under the prefix of the tokenizer, when that is not the    *)
(* one of the text, and under the one of the text.                          *)
TermsOf(prefix, textPrefix, token) ==
    LET words == <<token>> \o DerivedTerms(token)
        under(p) == [i \in 1..Len(words) |-> p \o words[i]]
    IN  (IF prefix # textPrefix THEN under(prefix) ELSE <<>>) \o under(textPrefix)
=============================================================================
