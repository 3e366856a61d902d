----------------------------- MODULE MailReading -----------------------------
(***************************************************************************)
(* A command that reads a mailbox: each message is digested and parsed     *)
(* before the next is read.  This is the loop of AbstractMessageCommand    *)
(* over a MailMessageReader, MailMessageDigester, and the parts of         *)
(* TraditionalMailMessageParser that choose what is given to a tokenizer   *)
(* and under which prefix, with the HeaderPrefixList, which lives as long  *)
(* as the command.                                                         *)
(***************************************************************************)
EXTENDS Mailbox, MailParts

VARIABLES
  values,   \* HeaderPrefixList::m_values, the visit counts with it
  work,     \* the messages and parts parseBody still has to visit, the next first
  begun,    \* how many of the delivered messages parseMailMessage was called for
  ended,    \* how many of them were digested
  digests,  \* the digests of the messages that were given to processMessage
  fed       \* for each part, in order, what the tokenizers were given

vars == <<box, format, pos, line, hasLine, prevBlank, stage, length, joins, text, out,
          values, work, begun, ended, digests, fed>>

-----------------------------------------------------------------------------
\* HeaderPrefixList::addHeaderPrefix
HeaderPrefix(first, other) == [first |-> first, other |-> other, visits |-> 0]

DefaultNames == {"sender", "subject", "from", "to", "received", "content-type"}
DefaultPrefix(name) == CASE name = "received" -> HeaderPrefix("Hrecv_", "Hrecvx_")
                         [] name = "content-type" -> HeaderPrefix("", "")
                         [] OTHER -> HeaderPrefix("H" \o name \o "_", "H" \o name \o "_")

\* setDefaultHeadersMode, setAllHeadersMode, setNonXHeadersMode, setNoHeadersMode.
StartValues(mode) == IF mode = "default" THEN [n \in DefaultNames |-> DefaultPrefix(n)]
                                         ELSE [n \in {} |-> HeaderPrefix("", "")]

DeletedStatus == "D"
XNames == {"x-a", "x-status"}
SkippedNames == {"status", "x-status"}

\* shouldProcessHeader, when the list has no entry for the name.
VisitsNew(mode, name) == /\ mode \in {"all", "nox"}
                         /\ mode = "nox" => name \notin XNames
                         /\ name \notin SkippedNames

\* Mutant: the counts of the message before are kept.
KeepHeaderCounts(v) == v

\* resetHeaderCounts
ResetHeaderCounts(v) == [n \in DOMAIN v |-> [v[n] EXCEPT !.visits = 0]]

\* shouldProcessHeader, for a name that was visited so often since the counts were reset.
PrefixOf(options, v, name, visits) ==
  IF options.blank THEN ""
  ELSE IF name \notin DOMAIN v THEN "H" \o name \o "_"
  ELSE IF visits > 1 THEN v[name].other ELSE v[name].first

\* The line that starts a message in a mailbox looks like a header and is left out.
ShouldProcessHeader(options, v, name) ==
  name # FromMark /\ (name \in DOMAIN v \/ VisitsNew(options.headers, name))

\* TraditionalMailMessageParser::parseHeaders: what each header gives the tokenizer, and
\* the list afterwards.  A name that is visited for the first time is added to the list.
ParseHeaders(options, v, headers) ==
  LET reset == ResetHeaderCounts(v)
      Visited(n) == ShouldProcessHeader(options, v, n)
      Earlier(i) == Cardinality({j \in 1 .. i : headers[j].name = headers[i].name})
      Before(n) == IF n \in DOMAIN v THEN reset[n].visits ELSE 0
      Feed(i) == [prefix |-> PrefixOf(options, v, headers[i].name,
                                      Before(headers[i].name) + Earlier(i)),
                  text |-> headers[i].lines]
      added == {n \in {headers[i].name : i \in DOMAIN headers} : Visited(n)} \ DOMAIN v
      Count(n) == Cardinality({j \in DOMAIN headers : headers[j].name = n})
      charset == CharsetString(headers)
  IN [values |-> [n \in DOMAIN v \union added |->
                    IF n \in added
                    THEN [HeaderPrefix("H" \o n \o "_", "H" \o n \o "_") EXCEPT
                            !.visits = Count(n) - 1]
                    ELSE [reset[n] EXCEPT !.visits = @ + Count(n)]],
      feed |-> FlattenSeq([i \in DOMAIN headers |->
                  IF Visited(headers[i].name) THEN <<Feed(i)>> ELSE <<>>])
               \o IF charset = <<>> THEN <<>>
                                    ELSE <<[prefix |-> "CS_", text |-> <<charset>>]>>]

\* parseBodyText
ParseBodyText(mail) ==
  IF mail.body = <<>> \/ box.ignoreBody \/ BodyKind(mail) = "ignored" THEN <<>>
  ELSE <<[prefix |-> BodyKind(mail), text |-> mail.body]>>

\* The parts that parseBody visits after a message or a part.
PartsOf(mail) == IF mail.body = <<>> \/ box.ignoreBody THEN <<>> ELSE BodyOf(mail)

-----------------------------------------------------------------------------
MailInit == /\ Init
            /\ values = StartValues(box.headers)
            /\ work = <<>>
            /\ begun = 0
            /\ ended = 0
            /\ digests = <<>>
            /\ fed = <<>>

Idle == ended = Len(out)

\* processMailReader asks for a message when it is done with the one before.
Read == /\ Idle
        /\ ReaderNext
        /\ UNCHANGED <<values, work, begun, ended, digests, fed>>

\* parseMailMessage begins.
BeginMessage == /\ begun = ended /\ ~Idle
                /\ begun' = begun + 1
                /\ work' = <<MailMessage(out[begun'])>>
                /\ UNCHANGED <<values, ended, digests, fed>>
                /\ UNCHANGED readerVars

\* shouldProcessMessage: a message whose status says that it was deleted is left out.
ShouldProcess(mail) ==
  \/ box.statusField = ""
  \/ DeletedStatus \notin ToSet(HeaderString(ParseHeader(mail.head), box.statusField))

\* assignDigestToMessage, and processMessage.
EndMessage ==
  /\ begun > ended /\ work = <<>>
  /\ LET mail == MailMessage(out[begun])
     IN digests' = IF ShouldProcess(mail)
                   THEN Append(digests, DigestOf(mail, box.digestField)) ELSE digests
  /\ ended' = begun
  /\ UNCHANGED <<values, work, begun, fed>>
  /\ UNCHANGED readerVars

\* TraditionalMailMessageParser::parseBody, for a message or a part.
ParseBodyOf ==
  /\ work # <<>>
  /\ LET mail == Head(work)
         headers == ParseHeader(mail.head)
         h == ParseHeaders(box, values, headers)
         parts == PartsOf(mail)
         own == IF parts = <<>> THEN ParseBodyText(mail) ELSE <<>>
     IN /\ values' = h.values
        /\ fed' = Append(fed, [mail |-> mail, headers |-> h.feed, own |-> own])
        /\ work' = parts \o Tail(work)
  /\ UNCHANGED <<begun, ended, digests>>
  /\ UNCHANGED readerVars

Finished == Idle /\ stage \in {"done", "failed"}

\* The command goes on to its next file, or ends.
Stop == Finished /\ UNCHANGED vars

MailNext == Read \/ BeginMessage \/ ParseBodyOf \/ EndMessage \/ Stop

MailSpec == MailInit /\ [][MailNext]_vars

-----------------------------------------------------------------------------
\* Every character of a mailbox that was read is in a message, in its place, once, and
\* nothing else is: what a terminator ended, what a length cut in two and what a
\* boundary separated is all there.  The one that is never read is the last of the file.
Characters(lines) == FlattenSeq(lines)
ReadSoFar == FlattenSeq([i \in 1 .. pos - 1 |->
                           IF File[i] \in Terminators THEN <<>> ELSE <<File[i]>>])
NothingLost ==
  format # "mbx" =>
    LET current == IF hasLine /\ stage # "content" THEN line ELSE <<>>
        closed == stage = "ready" \/ stage = "done"
    IN /\ FlattenSeq([i \in DOMAIN out |-> Characters(out[i])])
            \o (IF closed THEN <<>> ELSE Characters(text)) \o current
          = ReadSoFar
       /\ stage = "done" => AtEnd(pos)

\* A message has one digest whichever way it was stored: alone in a file, or in an mbox
\* file among others, with its lengths or without, or as a record of an MBX file that
\* was not deleted.  What the database knows of it is found under that digest.
DigestKeptByReaders ==
  (Finished /\ box.known) =>
    LET wanted == SelectSeq(box.written, LAMBDA w : ShouldProcess(MailMessage(w)))
    IN /\ Len(digests) = Len(wanted)
       /\ \A i \in DOMAIN wanted :
            LET sent == MailMessage(wanted[i])
            IN digests[i] = DigestOf(sent, box.digestField)

\* The prefix a header gets depends on the headers before it in its own part, and not on
\* the messages that the command read before.
PrefixesFresh ==
  \A i \in DOMAIN fed :
    LET headers == ParseHeader(fed[i].mail.head)
    IN fed[i].headers = ParseHeaders(box, StartValues(box.headers), headers).feed

\* The lines of a text that are not blank, those of a part, and those of a body that stand
\* after a boundary and before the end boundary and are none.
Filled(lines) == FlattenSeq([k \in DOMAIN lines |->
                               IF lines[k] # Blank THEN <<lines[k]>> ELSE <<>>])
FilledPart(part) == Filled(part.head) \o Filled(part.body)
FilledParts(parts) == FlattenSeq([k \in DOMAIN parts |-> FilledPart(parts[k])])
Between(lines, b, k) == /\ lines[k] \notin {Blank, PartLine(b)}
                        /\ \E c \in 1 .. k : lines[c] = PartLine(b)
                        /\ \A e \in 1 .. k : lines[e] # EndLine(b)
LinesBetween(lines, b) == FlattenSeq([k \in DOMAIN lines |->
                                        IF Between(lines, b, k) THEN <<lines[k]>> ELSE <<>>])

\* A line of a body with parts that is neither blank nor a boundary belongs to exactly one
\* part, unless it stands before the first boundary or after the last.
PartsKeepEveryLine ==
  \A i \in DOMAIN fed :
    LET mail == fed[i].mail
        b == BoundaryString(ParseHeader(mail.head))
    IN b # <<>> /\ mail.body # <<>> /\ ~box.ignoreBody =>
         FilledParts(PartsOf(mail)) = LinesBetween(mail.body, b)

=============================================================================
