------------------------------- MODULE Mailbox -------------------------------
(***************************************************************************)
(* From a stream of characters to messages: IstreamCharReader, LineReader, *)
(* and the readers of mbox files (MBoxMailMessageReader), of MBX files     *)
(* (MbxMailMessageReader) and of files that hold one message               *)
(* (MailMessageReader), as StreamMailMessageReader puts them together.     *)
(*                                                                         *)
(* A character stands for itself, or for a piece of text that the readers  *)
(* only recognise as a whole: FromMark for what NEW_MESSAGE_REGEX matches, *)
(* LengthMark for "Content-Length:", MbxMark for the 2048 bytes at the     *)
(* start of an MBX file, RecordMark for the date of a record header.       *)
(***************************************************************************)
EXTENDS Integers, Sequences, FiniteSets, SequencesExt

CONSTANTS
  Box,      \* the mailboxes to read, see BoxType
  Padding,  \* CONTENT_LENGTH_PADDING
  Infinity  \* INT_MAX: more than any file is long

LF == "\n"
CR == "\r"
FromMark == "F"
LengthMark == "L"
MbxMark == "*mbx*"
RecordMark == "R"
DeletedFlag == "d"
Digit == <<"0", "1", "2", "3", "4", "5", "6", "7", "8", "9">>
Terminators == {LF, CR}

\* What the command and the options say of a file, and the file.
IsBox(b) ==
  /\ b.file \in Seq(STRING)
  /\ b.seekable \in BOOLEAN       \* a file, or the standard input
  /\ b.ignoreFrom \in BOOLEAN     \* one message for each file
  /\ b.useLength \in BOOLEAN      \* honour Content-Length

ASSUME MailboxAssumption == /\ \A b \in Box : IsBox(b) /\ Len(b.file) < Infinity
                            /\ Padding \in Nat
                            /\ Infinity \in Nat

VARIABLES
  box,        \* the mailbox that is read
  format,     \* the reader setStream chose: "mbox", "plain" or "mbx"
  pos,        \* the index in the file of the reader's current character
  line,       \* LineReader::m_line
  hasLine,    \* LineReader::m_hasLine
  prevBlank,  \* MBoxMailMessageReader::m_isPrevLineBlank
  stage,      \* where the reader is
  length,     \* content_length or m_recordLength: what is left of it
  joins,      \* append_to_last_line
  text,       \* the lines of the message that is read
  out         \* the messages delivered so far

readerVars == <<box, format, pos, line, hasLine, prevBlank, stage, length, joins,
                text, out>>

Stage == {"open", "ready", "head", "length", "content", "body", "mbx", "record",
          "done", "failed"}

-----------------------------------------------------------------------------
File == box.file

\* IstreamCharReader::atEnd looks at the character after the current one: the last
\* character of a file is never more than current.
AtEnd(p) == p >= Len(File)

SkipChars(p, n) == IF p + n > Len(File) THEN Len(File) ELSE p + n

\* A reader without a line that has nothing left to read.
NoLine(p, remaining) == [ok |-> FALSE, pos |-> p, line |-> <<>>, remaining |-> remaining]

\* Where the line that begins at p ends: at a terminator, after as many characters as
\* were asked for, or at the last character the reader can have as current, whichever
\* comes first.
EndOfLine(p, remaining) ==
  LET ends == {i \in p .. Len(File) - 1 : \/ File[i] \in Terminators
                                          \/ i - p + 1 = remaining
                                          \/ i = Len(File) - 1}
  IN CHOOSE i \in ends : \A j \in ends : i <= j

\* Mutant: the character that ends a line is kept for the next one when it was cut.
ForwardCut(p, remaining) ==
  IF remaining <= 0 \/ AtEnd(p) THEN NoLine(p, remaining)
  ELSE LET stop == EndOfLine(p, remaining)
       IN [ok |-> TRUE, pos |-> stop + 1, line |-> SubSeq(File, p, stop - 1),
           remaining |-> remaining - (stop + 1 - p)]

\* LineReader::forward(chars_remaining).
Forward(p, remaining) ==
  IF remaining <= 0 \/ AtEnd(p) THEN NoLine(p, remaining)
  ELSE
    LET stop == EndOfLine(p, remaining)
        \* isLineTerminator takes a line feed with the carriage return before it
        both == /\ File[stop] = CR
                /\ ~AtEnd(stop + 1)
                /\ File[stop + 1] = LF
                /\ stop - p + 1 < remaining
        next == IF both THEN stop + 2 ELSE stop + 1
    IN [ok |-> TRUE,
        pos |-> next,
        line |-> SubSeq(File, p, IF File[stop] \in Terminators THEN stop - 1 ELSE stop),
        remaining |-> remaining - (next - p)]

\* The reader's line after a call of forward.
Reads(f) == /\ pos' = f.pos
            /\ line' = f.line
            /\ hasLine' = f.ok

KeepLine == UNCHANGED <<pos, line, hasLine>>

-----------------------------------------------------------------------------
Init == /\ box \in Box
        /\ format = "plain"
        /\ pos = 0
        /\ line = <<>>
        /\ hasLine = FALSE
        /\ prevBlank = FALSE
        /\ stage = "open"
        /\ length = 0
        /\ joins = FALSE
        /\ text = <<>>
        /\ out = <<>>

\* MbxMailMessageReader::isMbxFile: without a mark to return to, it does not look.
IsMbxFile == box.seekable /\ Len(File) > 0 /\ File[1] = MbxMark

\* StreamMailMessageReader::setStream chooses a reader and reads the first line.
SetStream ==
  /\ stage = "open"
  /\ format' = IF IsMbxFile THEN "mbx" ELSE IF box.ignoreFrom THEN "plain" ELSE "mbox"
  /\ Reads(Forward(SkipChars(IF IsMbxFile THEN 1 ELSE 0, 1), Infinity))
  /\ stage' = "ready"
  /\ UNCHANGED <<box, prevBlank, length, joins, text, out>>

\* Each message ends in a new MailMessage, or, if it has no lines, in 0.
Deliver ==
  IF Len(text) > 0 THEN out' = Append(out, text) /\ stage' = "ready"
                   ELSE out' = out /\ stage' = "done"

\* MailMessageReader::readMessage and MbxMailMessageReader::readMessage begin.
ReadMessage ==
  /\ stage = "ready"
  /\ text' = <<>>
  /\ joins' = FALSE
  /\ length' = 0
  /\ stage' = CASE format = "mbx" -> "mbx"
                [] format = "mbox" /\ box.useLength -> "head"
                [] OTHER -> "body"
  /\ KeepLine
  /\ UNCHANGED <<box, format, prevBlank, out>>

\* readMessageWithContentLength: the header is read without looking for a boundary.
\* The blank line that ends it is added here and stays the current line.
HeadLine ==
  /\ stage = "head"
  /\ text' = IF hasLine THEN Append(text, line) ELSE text
  /\ IF hasLine /\ line # <<>> THEN Reads(Forward(pos, Infinity)) /\ stage' = stage
                               ELSE KeepLine /\ stage' = "length"
  /\ UNCHANGED <<box, format, prevBlank, length, joins, out>>

IsLengthLine(l) == Len(l) > 1 /\ l[1] = LengthMark /\ l[2] \in ToSet(Digit)
LengthIn(l) == CHOOSE n \in 0 .. 9 : Digit[n + 1] = l[2]
LengthLines == {i \in DOMAIN text : IsLengthLine(text[i])}

\* findContentLength takes the first such line.  What it returns is less than the
\* length by the padding, to leave the end of the message to the boundary.
FindContentLength ==
  /\ stage = "length"
  /\ IF LengthLines = {}
     THEN stage' = "body" /\ UNCHANGED <<length, joins>>
     ELSE LET n == LengthIn(text[CHOOSE i \in LengthLines :
                                   \A j \in LengthLines : i <= j])
          IN /\ length' = IF n > Padding THEN n - Padding ELSE 0
             /\ joins' = (length' > 0)
             /\ stage' = "content"
  /\ KeepLine
  /\ UNCHANGED <<box, format, prevBlank, text, out>>

\* The loop over the content, and the call of forward after it.
ContentLine ==
  /\ stage = "content"
  /\ LET f == Forward(pos, length) IN
     IF f.ok THEN /\ Reads(f)
                  /\ length' = f.remaining
                  /\ text' = Append(text, f.line)
                  /\ stage' = stage
             ELSE /\ Reads(Forward(pos, Infinity))
                  /\ stage' = "body"
                  /\ UNCHANGED <<length, text>>
  /\ UNCHANGED <<box, format, prevBlank, joins, out>>

\* MBoxMailMessageReader::isNewMessageBoundary; the base class never says so.
IsBoundary == format = "mbox" /\ prevBlank /\ Len(line) > 0 /\ line[1] = FromMark

\* MultiLineString::appendToLastLine
AppendToLastLine(t, l) == IF t = <<>> THEN <<l>> ELSE Front(t) \o <<Last(t) \o l>>

\* One pass of readMessageWithBoundary, to the end of the message in the last.
BodyLine ==
  /\ stage = "body"
  /\ prevBlank' = IF hasLine /\ format = "mbox" THEN line = <<>> ELSE prevBlank
  /\ IF hasLine /\ ~IsBoundary
     THEN /\ text' = IF joins THEN AppendToLastLine(text, line) ELSE Append(text, line)
          /\ joins' = FALSE
          /\ Reads(Forward(pos, Infinity))
          /\ UNCHANGED <<stage, out>>
     ELSE Deliver /\ KeepLine /\ UNCHANGED <<text, joins>>
  /\ UNCHANGED <<box, format, length>>

-----------------------------------------------------------------------------
IsRecordHeader(l) == Len(l) = 3 /\ l[1] = RecordMark /\ l[2] \in ToSet(Digit)

\* MbxMailMessageReader::readMBXRecordHeader, one header in each step.  A deleted
\* record is skipped from its first character, which is current already.
RecordHeader ==
  /\ stage = "mbx"
  /\ IF ~hasLine THEN KeepLine /\ stage' = "done" /\ length' = 0
     ELSE IF ~IsRecordHeader(line) THEN KeepLine /\ stage' = "failed" /\ length' = 0
     ELSE /\ length' = LengthIn(line)
          /\ IF line[3] = DeletedFlag
             THEN /\ Reads(Forward(SkipChars(pos, length'), Infinity))
                  /\ stage' = stage
             ELSE KeepLine /\ stage' = "record"
  /\ UNCHANGED <<box, format, prevBlank, joins, text, out>>

\* MbxMailMessageReader::readMessage goes on with the lines of the record.
RecordLine ==
  /\ stage = "record"
  /\ LET f == Forward(pos, length) IN
     IF f.ok THEN /\ Reads(f)
                  /\ length' = f.remaining
                  /\ text' = Append(text, f.line)
                  /\ UNCHANGED <<stage, out>>
             ELSE /\ Reads(Forward(pos, Infinity))
                  /\ Deliver
                  /\ UNCHANGED <<length, text>>
  /\ UNCHANGED <<box, format, prevBlank, joins>>

ReaderNext == \/ SetStream
              \/ ReadMessage
              \/ HeadLine
              \/ FindContentLength
              \/ ContentLine
              \/ BodyLine
              \/ RecordHeader
              \/ RecordLine

=============================================================================
