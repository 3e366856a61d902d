------------------------------ MODULE MailParts ------------------------------
(***************************************************************************)
(* What a message is made of: MailMessage, HeaderParser, MessageHeaderList *)
(* BodyParser and MultiLineSubString, and what of it MailMessageDigester   *)
(* digests.  A text is a sequence of lines and a line a sequence of pieces *)
(* that the code tells apart; a piece is a character or a word.            *)
(***************************************************************************)
EXTENDS Integers, Sequences, SequencesExt

Blank == <<>>
Colon == ":"
Space == " "
Dashes == "--"
Html == "<p>"         \* what IS_HTML_REGEX finds
BoundaryParam == "b=" \* "; boundary="
CharsetParam == "c="  \* "; charset="

\* Pieces that end in a colon or, like the line that starts a message, hold one.
Marks == {"F", "L"}
\* MultiLineSubString(target, start, limit) counts from 0, and limit is not included.
SubLines(text, start, limit) ==
  SubSeq(text, start + 1, IF limit < Len(text) THEN limit ELSE Len(text))

\* The first index from start on, counted from 0, with a blank line or with another
\* one, or the number of lines.
NextLine(text, start, blank) ==
  IF \E i \in start .. Len(text) - 1 : (text[i + 1] = Blank) = blank
  THEN CHOOSE i \in start .. Len(text) - 1 :
         /\ (text[i + 1] = Blank) = blank
         /\ \A j \in start .. i - 1 : (text[j + 1] = Blank) # blank
  ELSE Len(text)

SkipToBlank(text, start) == NextLine(text, start, TRUE)
SkipToNonBlank(text, start) == NextLine(text, start, FALSE)

\* The constructor of MailMessage.
MailMessage(full) ==
  LET blank == SkipToBlank(full, 0)
  IN [head |-> SubLines(full, 0, blank), body |-> SubLines(full, blank + 1, Len(full))]

\* BodyParser::addPart: the first paragraph is the header, whatever it holds.
PartOf(lines) ==
  LET headerStart == SkipToNonBlank(lines, 0)
      headerEnd == SkipToBlank(lines, headerStart)
      bodyStart == SkipToNonBlank(lines, headerEnd)
  IN [head |-> SubLines(lines, headerStart, headerEnd),
      body |-> SubLines(lines, bodyStart, Len(lines))]

-----------------------------------------------------------------------------
\* HeaderParser::startHeader: a header is a name and its lines.
HasColon(line) == \E i \in DOMAIN line : line[i] \in {Colon} \union Marks
NameOf(line) == line[1]
ValueOf(line) == IF line[1] \in Marks THEN Tail(line) ELSE Tail(Tail(line))

\* HeaderParser::parse.  A header has the continuation lines that follow it; a line
\* without a colon starts none, and the continuation lines after that one are lost.
ParseHeader(lines) ==
  LET Continuation(i) == lines[i][1] = Space
      Starts(i) == lines[i] # Blank /\ ~Continuation(i)
      Continues(j, i) == /\ lines[j] # Blank /\ Continuation(j)
                         /\ \A k \in i + 1 .. j : ~Starts(k)
      More(i) == FlattenSeq([k \in 1 .. Len(lines) - i |->
                               IF Continues(i + k, i) THEN <<lines[i + k]>> ELSE <<>>])
  IN FlattenSeq([i \in DOMAIN lines |->
                   IF Starts(i) /\ HasColon(lines[i]) /\ NameOf(lines[i]) # Colon
                   THEN <<[name |-> NameOf(lines[i]), lines |-> <<ValueOf(lines[i])>> \o More(i)]>>
                   ELSE <<>>])

\* MessageHeaderList::header joins the lines of all the headers with the name.
HeaderLines(headers, name) ==
  FlattenSeq([i \in DOMAIN headers |->
                IF headers[i].name = name THEN headers[i].lines ELSE <<>>])

HeaderString(headers, name) == FlattenSeq(HeaderLines(headers, name))

\* findParam: what follows the first occurrence, or nothing.
FindParam(value, param) ==
  LET found == {i \in DOMAIN value : value[i] = param /\ i < Len(value)}
  IN IF found = {} THEN <<>>
     ELSE <<value[1 + CHOOSE i \in found : \A j \in found : i <= j]>>

ContentType(headers) == HeaderString(headers, "content-type")
BoundaryString(headers) == FindParam(ContentType(headers), BoundaryParam)
CharsetString(headers) == FindParam(ContentType(headers), CharsetParam)
HasType(headers, type) == ContentType(headers) # <<>> /\ ContentType(headers)[1] = type

-----------------------------------------------------------------------------
\* A boundary line ends the part before it and starts one; the end boundary starts none.
PartLine(b) == <<Dashes>> \o b
EndLine(b) == <<Dashes>> \o b \o <<Dashes>>

Marker(line, b) == line = PartLine(b) \/ line = EndLine(b)

\* Where the part ends that starts at i, counted from 0.
Until(lines, b, i) == IF \E j \in i .. Len(lines) - 1 : Marker(lines[j + 1], b)
                      THEN CHOOSE j \in i .. Len(lines) - 1 :
                             /\ Marker(lines[j + 1], b)
                             /\ \A k \in i .. j - 1 : ~Marker(lines[k + 1], b)
                      ELSE Len(lines)

\* Mutant: there is no safety net for a missing end boundary.
PartsUntilEnd(lines, b) ==
  FlattenSeq([i \in DOMAIN lines |->
    IF /\ lines[i] = PartLine(b)
       /\ \A k \in 1 .. i : lines[k] # EndLine(b)
       /\ Until(lines, b, i) > i
       /\ Until(lines, b, i) < Len(lines)
    THEN <<PartOf(SubLines(lines, i, Until(lines, b, i)))>> ELSE <<>>])

\* BodyParser::addPartsForBoundary.  Two boundaries in a row have no part between them,
\* and nothing is looked at after the end boundary.
PartsForBoundary(lines, b) ==
  FlattenSeq([i \in DOMAIN lines |->
    IF /\ lines[i] = PartLine(b)
       /\ \A k \in 1 .. i : lines[k] # EndLine(b)
       /\ Until(lines, b, i) > i
    THEN <<PartOf(SubLines(lines, i, Until(lines, b, i)))>> ELSE <<>>])

\* BodyParser::parse
ParseBody(headers, body) ==
  IF BoundaryString(headers) # <<>>
  THEN PartsForBoundary(body, BoundaryString(headers))
  ELSE <<PartOf(body)>>

IsMultiPart(headers) ==
  BoundaryString(headers) # <<>> \/ HasType(headers, "message/rfc822")

\* MailMessage::body
BodyOf(mail) == LET headers == ParseHeader(mail.head)
                IN IF IsMultiPart(headers) THEN ParseBody(headers, mail.body) ELSE <<>>

\* MailMessage::isHtml guesses from the first lines when there is no content type.
IsHtml(headers, text) ==
  IF ContentType(headers) # <<>> THEN HasType(headers, "text/html")
  ELSE \E i \in DOMAIN text : i <= 4 /\ Html \in ToSet(text[i])

IsTextType(headers) == \/ ContentType(headers) = <<>>
                       \/ ContentType(headers)[1] \in {"text/plain", "text/html"}

\* What the parser makes of a body that has no parts: asData, asText and isHtml.
BodyKind(mail) ==
  LET headers == ParseHeader(mail.head)
  IN IF HasType(headers, "image") /\ HeaderString(headers, "encoding") = <<"base64">>
     THEN "image"
     ELSE IF ~IsTextType(headers) THEN "ignored"
     ELSE IF IsHtml(headers, mail.body) THEN "html" ELSE "plain"

-----------------------------------------------------------------------------
\* MailMessageDigester::digestMessage.  The digest of what it is given is taken to be
\* what it is given: two messages have one digest only if these agree.
DigestLines(lines) == FlattenSeq(lines)

\* Mutant: the digest covers the whole text, what a mailbox writes into it included.
DigestEverything(mail) == DigestLines(mail.head) \o DigestLines(mail.body)

DigestMessage(mail) ==
  LET headers == ParseHeader(mail.head)
  IN DigestLines(mail.body) \o DigestLines(HeaderLines(headers, "date"))
       \o DigestLines(HeaderLines(headers, "from"))
       \o DigestLines(HeaderLines(headers, "to"))
       \o DigestLines(HeaderLines(headers, "subject"))

\* getExistingDigest: a header with a score, a number and a sum of the right length.
ExistingDigest(headers, field) ==
  LET lines == HeaderLines(headers, field)
  IN IF field = "" \/ lines = <<>> THEN <<>>
     ELSE IF Len(lines[1]) >= 2 /\ lines[1][1] = "score" /\ lines[1][2] # "short"
    THEN <<lines[1][2]>> ELSE <<>>

\* assignDigestToMessage
DigestOf(mail, field) ==
  LET existing == ExistingDigest(ParseHeader(mail.head), field)
  IN IF existing # <<>> THEN existing ELSE DigestMessage(mail)

=============================================================================
