---------------------------- MODULE MCMailReading ----------------------------
(***************************************************************************)
(* Mailboxes for TLC: every short file over the characters that matter to  *)
(* the readers, and files that hold messages known to have been written.   *)
(***************************************************************************)
EXTENDS MailReading

CONSTANT MaxFile  \* the longest of the arbitrary files

Mailboxes(files, seekable, ignoreFrom, useLength) ==
  {[file |-> f, seekable |-> s, ignoreFrom |-> i, useLength |-> u, headers |-> "default",
    blank |-> FALSE, ignoreBody |-> FALSE, digestField |-> "", statusField |-> "", known |-> FALSE,
    written |-> <<>>] : f \in files, s \in seekable, i \in ignoreFrom, u \in useLength}

ArbitraryBoxes ==
  Mailboxes(SeqOf({"x", LF, CR, FromMark}, MaxFile), {FALSE}, BOOLEAN, BOOLEAN)
    \union Mailboxes({<<"L", d, LF, e>> \o s : d \in {"0", "3", "5"}, e \in {LF, CR, "x"},
                                             s \in SeqOf({"x", LF, CR, FromMark}, MaxFile - 1)},
                     {FALSE}, {FALSE}, {TRUE})
    \union Mailboxes({<<MbxMark>> \o s : s \in SeqOf({"R", "1", "-", "d", LF}, MaxFile)},
                     {TRUE}, {FALSE}, {FALSE})

-----------------------------------------------------------------------------
\* Messages as they were sent.
Sent(head, body) == head \o <<Blank>> \o body

FromA == <<"from", ":", "a">>
Subject(s) == <<"subject", ":", s>>
Received(s) == <<"received", ":", s>>
MultiPart == <<"content-type", ":", "multipart", "b=", "b">>

Plain == Sent(<<FromA, Received("r"), Received("s"), Subject("t"), <<Space, "u">>>>,
              <<<<"x", "y">>, <<"z">>>>)
Broken == Sent(<<<<":", "q">>, <<Space, "v">>, Subject("n"), <<"w">>, <<Space, "lost">>>>,
               <<<<"x">>, <<"m">>>>)
Quoting == Sent(<<Subject("t"), <<"x-a", ":", "1">>>>,
                <<<<"x">>, Blank, <<FromMark, "q">>, <<"y">>>>)
Parts == Sent(<<FromA, Received("r"), MultiPart>>,
              <<<<"p">>, PartLine(<<"b">>), <<"content-type", ":", "text/plain">>, Blank,
                <<"x">>, Blank, <<"y">>, PartLine(<<"b">>),
                <<"content-type", ":", "multipart", "b=", "c">>, Received("i"), Blank,
                PartLine(<<"c">>), Received("j"), Received("k"), Blank, <<Html>>,
                PartLine(<<"b">>), PartLine(<<"b">>), <<"only">>, EndLine(<<"b">>), <<"e">>>>)
Unended == Sent(<<MultiPart, <<"date", ":", "d">>>>,
                <<PartLine(<<"b">>), <<"content-type", ":", "image">>,
                  <<"encoding", ":", "base64">>, Blank, <<"i">>, PartLine(<<"b">>),
                  <<"content-type", ":", "message/rfc822">>, Blank, Received("o"), Blank,
                  <<"content-type", ":", "zip">>, <<"g">>>>)
Charset == Sent(<<<<"content-type", ":", "text/html", "c=", "k">>, <<"status", ":", "R", "D">>,
                  <<"sum", ":", "score", "m1">>>>, <<<<"x">>>>)
ShortSum == Sent(<<<<"sum", ":", "score", "short">>, <<"x-status", ":", "o">>,
                   <<"sum", ":", "score", "m2">>>>, <<<<"x">>, Blank>>)
Messages == {Plain, Broken, Quoting, Parts, Unended, Charset, ShortSum}

-----------------------------------------------------------------------------
\* How a mail program stores them.
Lines(lines) == FlattenSeq([i \in DOMAIN lines |-> Append(lines[i], LF)])
HeadOf(m) == SubLines(m, 0, SkipToBlank(m, 0))
TextOf(m) == SubLines(m, SkipToBlank(m, 0) + 1, Len(m))

Short(m) == Len(Lines(TextOf(m))) <= 9
LengthLine(m) == <<LengthMark, Digit[Len(Lines(TextOf(m))) + 1], LF>>

AsMbox(m, lengths) ==
  <<FromMark, LF>> \o Lines(HeadOf(m)) \o (IF lengths /\ Short(m) THEN LengthLine(m) ELSE <<>>)
    \o <<LF>> \o Lines(TextOf(m)) \o <<LF>>

AsRecord(m, flag) == <<RecordMark, Digit[Len(Lines(m)) + 1], flag, LF>> \o Lines(m)

\* Messages for an MBX file, short enough for the one digit of a length.
Tiny(s) == Sent(<<Subject(s)>>, <<<<"x">>>>)

\* Only a reader that heeds the lengths knows a line that looks like a boundary.
Known(file, written, seekable, i, u, options) ==
  [file |-> file, seekable |-> seekable, ignoreFrom |-> i, useLength |-> u,
   headers |-> options.headers, blank |-> options.blank, ignoreBody |-> options.ignoreBody,
   digestField |-> options.digestField, statusField |-> options.statusField,
   known |-> TRUE, written |-> written]

Option(headers, blank, ignoreBody, digestField, statusField) ==
  [headers |-> headers, blank |-> blank, ignoreBody |-> ignoreBody,
   digestField |-> digestField, statusField |-> statusField]
Options == {Option("default", FALSE, FALSE, "", ""),
            Option("all", FALSE, FALSE, "sum", "status"),
            Option("nox", FALSE, TRUE, "", "x-status"),
            Option("none", TRUE, FALSE, "sum", ""),
            Option("default", TRUE, FALSE, "", "status")}

WrittenBoxes ==
  {Known(FlattenSeq([i \in DOMAIN ms |-> AsMbox(ms[i], u \/ l)]), ms, FALSE, FALSE, u, o) :
     ms \in {<<m, n>> : m \in Messages, n \in Messages \ {Quoting}} \union {<<Quoting>>},
     u \in BOOLEAN, l \in BOOLEAN, o \in Options}
  \union {Known(Lines(m), <<m>>, FALSE, TRUE, FALSE, o) : m \in Messages, o \in Options}
  \union {Known(<<MbxMark>> \o AsRecord(Tiny("t"), f) \o AsRecord(Tiny("u"), g)
                 \o AsRecord(Tiny("v"), h),
               (IF f = DeletedFlag THEN <<>> ELSE <<Tiny("t")>>)
                 \o (IF g = DeletedFlag THEN <<>> ELSE <<Tiny("u")>>)
                 \o (IF h = DeletedFlag THEN <<>> ELSE <<Tiny("v")>>),
               TRUE, FALSE, u, o) :
            f \in {DeletedFlag, "-"}, g \in {DeletedFlag, "-"}, h \in {DeletedFlag, "-"},
            u \in BOOLEAN, o \in {p \in Options : p.headers = "default"}}

\* A message whose text looks like a boundary is kept whole only by its length.
MCBox == ArbitraryBoxes
           \union {b \in WrittenBoxes :
                     (\E i \in DOMAIN b.written : b.written[i] = Quoting)
                        => b.useLength \/ b.ignoreFrom}

=============================================================================
