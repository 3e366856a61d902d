----------------------------- MODULE TextReading -----------------------------
(* How the parser reads the texts of one message: each text is decoded, a   *)
(* character reader walks over its lines, HtmlTokenizer takes the tags out  *)
(* of it while it is read, and the chain of Tokenizers makes the terms that *)
(* Message counts. One step is one forward of the reader, one character     *)
(* given to a tokenizer, or one term given to the message.                  *)
EXTENDS CharReader, MimeDecoder, Tokenizers

CONSTANTS
    Messages,            \* the sequences of parts a message may consist of
    Configs,             \* [removeHtml, keepSuspicious : BOOLEAN]
    MaxTagLength,        \* 256
    MaxTermsPerMessage   \* 0: no limit

Texts == Seq(Seq(Int))
Parts == [kind : {"header", "plain", "html"}, prefix : Seq(Int), encoding : STRING,
          lines : Texts, original : Texts]

ASSUME TextAssumption ==
    /\ {MaxTagLength, MaxTermsPerMessage} \subseteq Nat
    /\ Messages \subseteq Seq(Parts)

MaxEntityLength == 6
Lt == 60
Gt == 62
Amp == 38
Semicolon == 59
NoChar == -1

VARIABLES
    message,   \* the parts: [kind, prefix, encoding, lines, original]
    config,    \* the options of the parser that choose the HTML tokenizer
    part,      \* how many of the parts have been begun
    lines,     \* the decoded lines of this part
    pos,       \* the position of its reader
    scan,      \* where in HtmlTokenizer::forward the reader is
    mark,      \* the position of the < of the tag that is being read
    entityMark,\* the position of the & of the entity that is being read
    tag,       \* the tag, so far
    entity,    \* the entity, so far
    ch,        \* the character forward returns to the tokenizer
    jobs,      \* the texts of a tag that are still to be tokenized
    text,      \* the chain of the text
    tags,      \* the chain of the tags
    queue,     \* terms on their way to the message
    order,     \* Message::m_tokensInOrder, as the names of the tokens
    words,     \* history: the words the tokenizer of the text found
    heard,     \* history: the phrases the parser received from it
    delivered  \* history: the terms given to Message::addToken

readerVars == <<lines, pos>>
htmlVars == <<scan, mark, entityMark, tag, entity, ch>>
chainVars == <<text, tags, jobs, words, heard>>
messageVars == <<queue, order, delivered>>
inputVars == <<message, config, part>>
vars == <<readerVars, htmlVars, chainVars, messageVars, inputVars>>

Part == message[part]
IsHtml == part > 0 /\ Part.kind = "html"

(* The reader of a body puts a blank after each line, the one of a header   *)
(* nothing.                                                                 *)
Terminator == IF part = 0 \/ Part.kind = "header" THEN <<>> ELSE <<Space>>

Init ==
    /\ message \in Messages /\ config \in Configs /\ part = 0
    /\ lines = <<>> /\ pos = ResetPosition(<<>>)
    /\ scan = "idle" /\ mark = pos /\ entityMark = pos /\ tag = <<>> /\ entity = <<>> /\ ch = NoChar
    /\ text = Start /\ tags = Start /\ jobs = <<>> /\ words = <<>> /\ heard = <<>>
    /\ queue = <<>> /\ order = <<>> /\ delivered = <<>>

----------------------------------------------------------------------------
(* What a tokenizer has sent goes through the filter and the phrases.       *)

(* sendToken: the chain without its word, which joined the phrases if the   *)
(* filter lets it pass.                                                     *)
SendToken(t) ==
    LET sent == [t EXCEPT !.token = <<>>]
    IN  IF Accepts(t.token) THEN AddWord(sent, t.token) ELSE sent

SentPhrases(t) == IF Accepts(t.token) THEN Phrases(SendToken(t)) ELSE <<>>

(* The terms the parser makes of them; m_prefix is the one of the part.     *)
SentTerms(prefix, t) ==
    LET phrases == SentPhrases(t)
    IN  FlattenSeq([k \in 1..Len(phrases) |-> TermsOf(prefix, Part.prefix, phrases[k])])

(* The text chain t has a complete word.                                    *)
TextWord(t) ==
    /\ text' = SendToken(t)
    /\ words' = Append(words, t.token)
    /\ heard' = heard \o SentPhrases(t)
    /\ queue' = SentTerms(Part.prefix, t)

----------------------------------------------------------------------------
(* HtmlTokenizer: what it makes of entities and tags.                       *)
EntityChars == ("amp" :> Amp) @@ ("apos" :> 39) @@ ("quot" :> 34)
               @@ ("lt" :> Lt) @@ ("gt" :> Gt) @@ ("nbsp" :> Space)

EntityNames == ("amp" :> <<97, 109, 112>>) @@ ("apos" :> <<97, 112, 111, 115>>)
               @@ ("quot" :> <<113, 117, 111, 116>>) @@ ("lt" :> <<108, 116>>)
               @@ ("gt" :> <<103, 116>>) @@ ("nbsp" :> <<110, 98, 115, 112>>)

(* parseEntityInteger. The sign before a decimal number is handed to atoi,  *)
(* whose answer is 0. The x before a hexadecimal one is read as a digit of  *)
(* value 33, which only the last two digits of a longer number shift out.   *)
EntityInteger(name) ==
    LET digit(c) == IF IsDigit(c) THEN c - 48 ELSE ToLower(c) - 87
        n == Len(name)
    IN  IF n < 2 \/ ToLower(name[Min({2, n})]) # 120 THEN 0
        ELSE IF n = 2 THEN digit(name[2])
        ELSE (16 * digit(name[n - 1]) + digit(name[n])) % 256

ProcessEntity(name) ==
    IF name # <<>> /\ Head(name) = 35 THEN EntityInteger(name)
    ELSE IF \E e \in DOMAIN EntityNames : EntityNames[e] = name
    THEN EntityChars[CHOOSE e \in DOMAIN EntityNames : EntityNames[e] = name]
    ELSE NoChar

CommentStart == <<33, 45, 45>>
IsOpenCommentTag(s) == StartsWith(s, CommentStart)
IsCommentTag(s) == IsOpenCommentTag(s) /\ EndsWith(s, <<45, 45>>)
IsIncompleteCommentTag(s) == IsOpenCommentTag(s) /\ ~IsCommentTag(s)

(* make_tag_prefix: T, at most seven letters and digits of the name, _.     *)
TagPrefix(s) ==
    LET blanks == {i \in 1..Len(s) : IsSpace(s[i])}
        name == SelectSeq(LowerAll(SubSeq(s, 1, IF blanks = {} THEN Len(s) ELSE Min(blanks) - 1)), IsAlnum)
    IN  IF IsOpenCommentTag(s) THEN <<84, 67, 77, 84, 95>>
        ELSE <<84>> \o SubSeq(name, 1, Min({Len(name), 7})) \o <<95>>

DecodeUrl(url) ==
    LET from[i \in 1..(Len(url) + 1)] ==
            IF i > Len(url) THEN <<>>
            ELSE IF url[i] = Percent /\ HexPairAt(url, i)
            THEN <<16 * HexToInt(url[i + 1]) + HexToInt(url[i + 2])>> \o from[i + 3]
            ELSE <<url[i]>> \o from[i + 1]
    IN  from[1]

UrlKeywords == {<<104, 114, 101, 102>>, <<115, 114, 99>>}   \* href, src

UrlBlank(c) == c \in {32, 9, 13, 10}

(* Where the value of the attribute whose name starts at i begins; 0 when   *)
(* there is none.                                                           *)
UrlValueAt(s, i) ==
    LET skip(j) == Min({k \in j..(Len(s) + 1) : k = Len(s) + 1 \/ ~UrlBlank(s[k])})
        names == {w \in UrlKeywords : StartsWith(SubSeq(LowerAll(s), i, Len(s)), w)}
        equals == skip(i + Len(CHOOSE w \in names : TRUE))
    IN  IF \/ names = {}
           \/ ToLower(s[i - 1]) \in (97..122) \cup (48..57) \cup {95}
           \/ equals > Len(s)
        THEN 0
        ELSE IF s[equals] # 61 \/ skip(equals + 1) > Len(s) \/ s[Min({skip(equals + 1), Len(s)})] = Gt
        THEN 0
        ELSE skip(equals + 1)

(* processTagUrls: the values of the href and src attributes, decoded; the  *)
(* search goes on behind each value.                                        *)
TagUrls(s) ==
    LET from[offset \in 0..Len(s)] ==
            LET starts == {i \in (offset + 2)..Len(s) : UrlValueAt(s, i) > 0}
                v == UrlValueAt(s, Min(starts))
                e == Min({k \in (v + 1)..(Len(s) + 1) : k = Len(s) + 1 \/ s[k] = Gt \/ UrlBlank(s[k])})
            IN  IF starts = {} THEN <<>> ELSE <<DecodeUrl(SubSeq(s, v, e - 1))>> \o from[e - 1]
    IN  from[0]

IsSuspicious(s) ==
    \E w \in {<<102, 111, 110, 116>>, <<105, 109, 103>>} : StartsWith(LowerAll(s), w)

(* processTagBody: HtmlTokenizer tokenizes every tag, UrlOnlyHtmlTokenizer  *)
(* only suspicious ones, and only when they are to be kept. (The second     *)
(* tokenize there finds the reader of the tag used up.)                     *)
KeepsTagBody(s) == ~config.removeHtml \/ (config.keepSuspicious /\ IsSuspicious(s))

Job(prefix, s) == [prefix |-> prefix, text |-> s, next |-> 1]

TagJobs(s) ==
    LET urls == IF IsCommentTag(s) THEN <<>> ELSE TagUrls(s)
    IN  (IF KeepsTagBody(s) THEN <<Job(TagPrefix(s), s)>> ELSE <<>>)
        \o [k \in 1..Len(urls) |-> Job(<<85, 95>>, urls[k])]

----------------------------------------------------------------------------
(* The message.                                                             *)

(* Mutant: a full message counts nothing any more.                          *)
AddedWhileRoom(tokens, term) ==
    IF MaxTermsPerMessage = 0 \/ Cardinality(ToSet(tokens)) < MaxTermsPerMessage
    THEN Append(tokens, term) ELSE tokens

(* Message::addToken: a term the message has is counted again, a new one    *)
(* is taken while there is room.                                            *)
Added(tokens, term) ==
    IF \/ term \in ToSet(tokens)
       \/ MaxTermsPerMessage = 0
       \/ Cardinality(ToSet(tokens)) < MaxTermsPerMessage
    THEN Append(tokens, term) ELSE tokens

AddTerm ==
    /\ queue # <<>>
    /\ order' = Added(order, Head(queue))
    /\ delivered' = Append(delivered, Head(queue))
    /\ queue' = Tail(queue)
    /\ UNCHANGED <<readerVars, htmlVars, chainVars, inputVars>>

----------------------------------------------------------------------------
(* Tags, given to their chain one character after the other.                *)
TagChar ==
    /\ queue = <<>> /\ jobs # <<>>
    /\ LET job == Head(jobs)
           t == ProcessCharForState(tags, CurrentChar(job.text[job.next]))
       IN  /\ job.next <= Len(job.text)
           /\ jobs' = [jobs EXCEPT ![1].next = @ + 1]
           /\ tags' = IF EndsWord(t) THEN SendToken(t) ELSE t
           /\ queue' = IF EndsWord(t) THEN SentTerms(job.prefix, t) ELSE <<>>
    /\ UNCHANGED <<readerVars, htmlVars, text, words, heard, order, delivered, inputVars>>

TagEnd ==
    /\ queue = <<>> /\ jobs # <<>>
    /\ LET job == Head(jobs)
       IN  /\ job.next > Len(job.text)
           /\ jobs' = Tail(jobs)
           /\ tags' = Start
           /\ queue' = IF tags.token = <<>> THEN <<>> ELSE SentTerms(job.prefix, tags)
    /\ UNCHANGED <<readerVars, htmlVars, text, words, heard, order, delivered, inputVars>>

----------------------------------------------------------------------------
(* The text.                                                                *)
Quiet == queue = <<>> /\ jobs = <<>>
Next1 == Skip(lines, Terminator, pos, 1)

DecodedLines(p) ==
    IF p.kind = "header" THEN DecodeHeaderString(p.lines) ELSE DecodeText(p.encoding, p.lines)

(* parseHeader, parsePlainBodyText, parseHtmlBodyText: every text starts    *)
(* with a new reader and a tokenizer that remembers nothing.                *)
StartPart ==
    /\ Quiet /\ scan = "idle" /\ part < Len(message)
    /\ part' = part + 1
    /\ lines' = DecodedLines(message[part'])
    /\ pos' = ResetPosition(lines')
    /\ scan' = "read" /\ text' = Start /\ words' = <<>> /\ heard' = <<>>
    /\ UNCHANGED <<mark, entityMark, tag, entity, ch, tags, jobs, messageVars, message, config>>

Yield(c) == scan' = "char" /\ ch' = c

(* One turn of HtmlTokenizer::forward, or forward of the reader itself.     *)
ReadChar ==
    /\ Quiet /\ scan = "read"
    /\ pos' = Next1
    /\ \/ Next1.atEnd /\ scan' = "end" /\ UNCHANGED <<mark, entityMark, tag, entity, ch>>
       \/ /\ ~Next1.atEnd /\ (IsHtml => Next1.current \notin {Amp, Lt})
          /\ Yield(Next1.current) /\ UNCHANGED <<mark, entityMark, tag, entity>>
       \/ /\ ~Next1.atEnd /\ IsHtml /\ Next1.current = Amp
          /\ scan' = "entity" /\ entityMark' = CreateMark(Next1) /\ entity' = <<>>
          /\ UNCHANGED <<mark, tag, ch>>
       \/ /\ ~Next1.atEnd /\ IsHtml /\ Next1.current = Lt
          /\ scan' = "tag" /\ mark' = CreateMark(Next1) /\ tag' = <<>>
          /\ UNCHANGED <<entityMark, entity, ch>>
    /\ UNCHANGED <<lines, chainVars, messageVars, inputVars>>

(* What follows an entity, or an ampersand that begins none: in a tag it is *)
(* appended, leading blanks excepted; in the text it is the character read. *)
AfterEntity(c) ==
    IF scan = "entity" THEN Yield(c) /\ UNCHANGED tag
    ELSE /\ scan' = "tag" /\ UNCHANGED ch
         /\ tag' = IF tag = <<>> /\ IsSpace(c) THEN tag ELSE Append(tag, c)

ReadEntity ==
    /\ Quiet /\ scan \in {"entity", "tagEntity"}
    /\ LET ended == Next1.atEnd \/ Len(entity) >= MaxEntityLength
           decoded == IF Next1.current = Semicolon THEN ProcessEntity(entity) ELSE NoChar
       IN  \/ /\ ~ended /\ Next1.current # Semicolon
              /\ pos' = Next1 /\ entity' = Append(entity, Next1.current)
              /\ UNCHANGED <<scan, tag, ch>>
           \/ /\ ~ended /\ decoded # NoChar
              /\ pos' = Next1 /\ AfterEntity(decoded) /\ UNCHANGED entity
           \/ /\ ended \/ (Next1.current = Semicolon /\ decoded = NoChar)
              /\ pos' = entityMark /\ AfterEntity(entityMark.current) /\ UNCHANGED entity
    /\ UNCHANGED <<lines, mark, entityMark, chainVars, messageVars, inputVars>>

(* A tag is complete: it goes to the tokenizer of the tags. A comment is    *)
(* not seen in the text, any other tag is a blank there.                    *)
CloseTag ==
    /\ pos' = Next1 /\ jobs' = TagJobs(tag)
    /\ IF IsCommentTag(tag) THEN scan' = "read" /\ UNCHANGED ch ELSE Yield(Space)
    /\ UNCHANGED <<tag, entityMark, entity>>

(* Nothing closes it, it is too long, or it is empty: its < is a character  *)
(* like any other, and so is what follows.                                  *)
RewindTag ==
    /\ pos' = mark /\ Yield(mark.current)
    /\ UNCHANGED <<jobs, tag, entityMark, entity>>

ReadTag ==
    /\ Quiet /\ scan = "tag"
    /\ LET ended == Next1.atEnd \/ ~(Len(tag) < MaxTagLength \/ IsOpenCommentTag(tag))
           closes == Next1.current = Gt /\ ~IsIncompleteCommentTag(tag)
           c == Next1.current
       IN  \/ ~ended /\ closes /\ tag # <<>> /\ CloseTag
           \/ (ended \/ (closes /\ tag = <<>>)) /\ RewindTag
           \/ /\ ~ended /\ c = Amp
              /\ pos' = Next1 /\ scan' = "tagEntity" /\ entityMark' = CreateMark(Next1) /\ entity' = <<>>
              /\ UNCHANGED <<tag, ch, jobs>>
           \/ /\ ~ended /\ ~closes /\ c # Amp
              /\ pos' = Next1 /\ tag' = IF tag = <<>> /\ IsSpace(c) THEN tag ELSE Append(tag, c)
              /\ UNCHANGED <<scan, ch, jobs, entityMark, entity>>
    /\ UNCHANGED <<lines, mark, text, tags, words, heard, messageVars, inputVars>>

(* The loop of SimpleTokenizer::tokenize.                                   *)
TokenizeChar ==
    /\ Quiet /\ scan = "char"
    /\ LET t == ProcessCharForState(text, CurrentChar(ch))
       IN  IF EndsWord(t) THEN TextWord(t) ELSE text' = t /\ UNCHANGED <<words, heard, queue>>
    /\ scan' = "read"
    /\ UNCHANGED <<readerVars, mark, entityMark, tag, entity, ch, tags, jobs, order, delivered, inputVars>>

EndOfText ==
    /\ Quiet /\ scan = "end"
    /\ IF text.token # <<>> THEN TextWord(text) ELSE UNCHANGED <<text, words, heard, queue>>
    /\ scan' = "idle"
    /\ UNCHANGED <<readerVars, mark, entityMark, tag, entity, ch, tags, jobs, order, delivered, inputVars>>

Parsed == Quiet /\ scan = "idle" /\ part = Len(message)

Stop == Parsed /\ UNCHANGED vars

Next ==
    \/ StartPart \/ ReadChar \/ ReadEntity \/ ReadTag \/ TokenizeChar \/ EndOfText
    \/ TagChar \/ TagEnd \/ AddTerm \/ Stop

TextSpec == Init /\ [][Next]_vars

----------------------------------------------------------------------------
(* What comes out, said over the whole text.                                *)
EndOfPart == Quiet /\ scan = "idle" /\ part > 0

(* The words the filter lets pass.                                          *)
Kept(ws) == FlattenSeq([i \in 1..Len(ws) |-> IF Accepts(ws[i]) THEN <<ws[i]>> ELSE <<>>])

(* The last n of the first k words, as one phrase.                          *)
PhraseAt(ws, k, n) == Tail(FlattenSeq([i \in 1..n |-> <<Space>> \o ws[k - n + i]]))

Wanted(phrase, n) ==
    /\ MaxPhraseChars > 0 => Len(phrase) <= MaxPhraseChars
    /\ n > MaxPhraseTerms => MinPhraseChars > 0 /\ Len(phrase) <= MinPhraseChars

WantedAt(ws, k) ==
    LET of(n) == IF Wanted(PhraseAt(ws, k, n), n) THEN <<PhraseAt(ws, k, n)>> ELSE <<>>
    IN  FlattenSeq([m \in 1..(k - MinPhraseTerms + 1) |-> of(m + MinPhraseTerms - 1)])

(* The phrases the parser receives are, for each word in turn, the last n   *)
(* words up to it that the filter let pass, for every n from the least      *)
(* number of words on, as long as n is within the greatest number of words  *)
(* or the phrase has not yet the least number of characters, and within the *)
(* greatest number of characters: never a word of another text, whatever    *)
(* was compacted away. (PhrasingTokenizer; ChangeLog:84)                    *)
PhrasesExact ==
    EndOfPart => heard = FlattenSeq([k \in 1..Len(Kept(words)) |-> WantedAt(Kept(words), k)])

(* The different terms that come first, as many as a message may have.      *)
NewAt(terms, i) == \A j \in 1..(i - 1) : terms[j] # terms[i]
RankAt(terms, i) == Cardinality({j \in 1..i : NewAt(terms, j)})
FirstTerms(terms) ==
    {terms[i] : i \in {i \in 1..Len(terms) :
        NewAt(terms, i) /\ (MaxTermsPerMessage = 0 \/ RankAt(terms, i) <= MaxTermsPerMessage)}}

(* A message that may only have so many different terms has the first ones  *)
(* that came, and counts each of them as often as it came, also after it    *)
(* was full. (Message::addToken)                                            *)
FirstTermsCounted ==
    LET first(t) == IF t \in FirstTerms(delivered) THEN <<t>> ELSE <<>>
    IN  order = FlattenSeq([i \in 1..Len(delivered) |-> first(delivered[i])])

(* The reader walks over the lines like over one string, also when it goes  *)
(* back to a mark in the middle of a terminator or at the start of a line.  *)
(* (SimpleMultiLineStringCharReader)                                        *)
FlatText == JoinLines(lines, Terminator)

Flat == INSTANCE FlatReader WITH
            text <- FlatText,
            read <- CharsRead(lines, Terminator, pos),
            current <- pos.current,
            ended <- pos.atEnd

ReadsLikeOneString == Flat!FlatSpec
=============================================================================
