------------------------------ MODULE MailProofs ------------------------------
(***************************************************************************)
(* The prefix of a header never depends on the messages read before: for   *)
(* every set of mailboxes and every mode of the header list.  And the      *)
(* readers lose nothing of a file, however long it is, nor the parser a    *)
(* line of a body with parts.                                              *)
(***************************************************************************)
EXTENDS MailReading, WellFoundedInduction, SequenceTheorems, TLAPS


\* A list to which only headers were added that the mode lets in, with the prefix they
\* would have had without an entry.
Grown(options, v) ==
  LET start == StartValues(options.headers)
      new == DOMAIN v \ DOMAIN start
  IN /\ DOMAIN start \subseteq DOMAIN v
     /\ \A n \in DOMAIN v : DOMAIN v[n] = {"first", "other", "visits"}
     /\ \A n \in DOMAIN start : v[n].first = start[n].first /\ v[n].other = start[n].other
     /\ \A n \in new : /\ ShouldProcessHeader(options, start, n)
                       /\ v[n].first = "H" \o n \o "_"
                       /\ v[n].other = "H" \o n \o "_"

FreshInv == /\ Grown(box, values)
            /\ \E S : fed \in Seq(S)
            /\ PrefixesFresh

-----------------------------------------------------------------------------
(* The list of headers *)

LEMMA StartShape ==
  \A mode : \A n \in DOMAIN StartValues(mode) :
    DOMAIN StartValues(mode)[n] = {"first", "other", "visits"}
<1> SUFFICES ASSUME NEW mode, NEW n \in DOMAIN StartValues(mode)
             PROVE  DOMAIN StartValues(mode)[n] = {"first", "other", "visits"}
  OBVIOUS
<1>1. \A first, other : DOMAIN HeaderPrefix(first, other) = {"first", "other", "visits"}
  BY DEF HeaderPrefix
<1>2. mode = "default" /\ n \in DefaultNames /\ StartValues(mode)[n] = DefaultPrefix(n)
  BY DEF StartValues
<1>3. \E first, other : DefaultPrefix(n) = HeaderPrefix(first, other)
  BY DEF DefaultPrefix
<1> QED
  BY <1>1, <1>2, <1>3

\* What the list has grown by changes neither which headers are processed nor their prefix.
LEMMA SamePrefix ==
  ASSUME NEW options, NEW v, Grown(options, v), NEW n, NEW visits
  PROVE  LET start == StartValues(options.headers)
         IN /\ ShouldProcessHeader(options, v, n) = ShouldProcessHeader(options, start, n)
            /\ PrefixOf(options, v, n, visits) = PrefixOf(options, start, n, visits)
<1> DEFINE start == StartValues(options.headers)
<1> HIDE DEF start
<1>1. /\ DOMAIN start \subseteq DOMAIN v
      /\ \A m \in DOMAIN start : v[m].first = start[m].first /\ v[m].other = start[m].other
      /\ \A m \in DOMAIN v \ DOMAIN start :
           /\ ShouldProcessHeader(options, start, m)
           /\ v[m].first = "H" \o m \o "_"
           /\ v[m].other = "H" \o m \o "_"
  BY DEF Grown, start
<1>2. ShouldProcessHeader(options, v, n) = ShouldProcessHeader(options, start, n)
  BY <1>1, Zenon DEF ShouldProcessHeader
<1>3. PrefixOf(options, v, n, visits) = PrefixOf(options, start, n, visits)
  BY <1>1 DEF PrefixOf
<1> QED
  BY <1>2, <1>3 DEF start

\* So the headers of a part are given to the tokenizer as the first part would give them.
LEMMA SameFeed ==
  ASSUME NEW options, NEW v, Grown(options, v), NEW headers
  PROVE  ParseHeaders(options, v, headers).feed
           = ParseHeaders(options, StartValues(options.headers), headers).feed
<1> DEFINE start == StartValues(options.headers)
           Earlier(i) == Cardinality({j \in 1 .. i : headers[j].name = headers[i].name})
           Before(u, n) == IF n \in DOMAIN u THEN ResetHeaderCounts(u)[n].visits ELSE 0
           Feed(u, i) == [prefix |-> PrefixOf(options, u, headers[i].name,
                                       Before(u, headers[i].name) + Earlier(i)),
                          text |-> headers[i].lines]
           Item(u, i) == IF ShouldProcessHeader(options, u, headers[i].name)
                         THEN <<Feed(u, i)>> ELSE <<>>
           charset == CharsetString(headers)
           rest == IF charset = <<>> THEN <<>>
                   ELSE <<[prefix |-> "CS_", text |-> <<charset>>]>>
<1>1. \A u : ParseHeaders(options, u, headers).feed
               = FlattenSeq([i \in DOMAIN headers |-> Item(u, i)]) \o rest
  BY DEF ParseHeaders
<1>2. \A n : Before(v, n) = 0 /\ Before(start, n) = 0
  <2>1. \A u : (\A n \in DOMAIN u : DOMAIN u[n] = {"first", "other", "visits"}) =>
                 \A n \in DOMAIN u : ResetHeaderCounts(u)[n].visits = 0
    BY DEF ResetHeaderCounts
  <2>2. \A n \in DOMAIN v : DOMAIN v[n] = {"first", "other", "visits"}
    BY DEF Grown
  <2> QED
    BY <2>1, <2>2, StartShape
<1> HIDE DEF Before, Earlier
<1>3. \A i \in DOMAIN headers : Item(v, i) = Item(start, i)
  BY <1>2, SamePrefix
<1> HIDE DEF Item, rest
<1>4. [i \in DOMAIN headers |-> Item(v, i)] = [i \in DOMAIN headers |-> Item(start, i)]
  BY <1>3
<1> QED
  BY <1>1, <1>4

\* Reading the headers of a part makes the list grow in the same way.
LEMMA GrowsFurther ==
  ASSUME NEW options, NEW v, Grown(options, v), NEW headers
  PROVE  Grown(options, ParseHeaders(options, v, headers).values)
<1> DEFINE start == StartValues(options.headers)
           reset == ResetHeaderCounts(v)
           added == {n \in {headers[i].name : i \in DOMAIN headers} :
                       ShouldProcessHeader(options, v, n)} \ DOMAIN v
           Count(n) == Cardinality({j \in DOMAIN headers : headers[j].name = n})
           w == ParseHeaders(options, v, headers).values
           Fields == {"first", "other", "visits"}
<1>1. w = [n \in DOMAIN v \union added |->
             IF n \in added
             THEN [HeaderPrefix("H" \o n \o "_", "H" \o n \o "_") EXCEPT
                     !.visits = Count(n) - 1]
             ELSE [reset[n] EXCEPT !.visits = @ + Count(n)]]
  BY DEF ParseHeaders
<1>2. \A n \in added : ShouldProcessHeader(options, start, n) /\ n \notin DOMAIN start
  BY SamePrefix DEF Grown
<1> HIDE DEF added, Count, w
<1>3. \A n \in added : /\ DOMAIN w[n] = Fields
                       /\ w[n].first = "H" \o n \o "_"
                       /\ w[n].other = "H" \o n \o "_"
  BY <1>1 DEF HeaderPrefix
<1>4. \A n \in DOMAIN v \ added : /\ DOMAIN w[n] = Fields
                                  /\ w[n].first = v[n].first
                                  /\ w[n].other = v[n].other
  BY <1>1 DEF ResetHeaderCounts, Grown
<1>5. DOMAIN w = DOMAIN v \union added
  BY <1>1
<1>6. added \cap DOMAIN v = {}
  BY DEF added
<1>7. Grown(options, w)
  BY <1>2, <1>3, <1>4, <1>5, <1>6 DEF Grown
<1> QED
  BY <1>7 DEF w

-----------------------------------------------------------------------------
(* The steps *)

\* No step of a reader touches the mailbox.
LEMMA SameBox == [MailNext]_vars => box' = box
  BY DEF MailNext, vars, Read, ReaderNext, SetStream, ReadMessage, HeadLine,
         FindContentLength, ContentLine, BodyLine, RecordHeader, RecordLine,
         BeginMessage, EndMessage, ParseBodyOf, Stop, readerVars

LEMMA FreshInit == MailInit => FreshInv
<1> SUFFICES ASSUME MailInit PROVE FreshInv
  OBVIOUS
<1>1. values = StartValues(box.headers) /\ fed = <<>>
  BY DEF MailInit
<1>2. Grown(box, values)
  BY <1>1, StartShape DEF Grown
<1>3. fed \in Seq({}) /\ DOMAIN fed = {}
  BY <1>1
<1> QED
  BY <1>2, <1>3 DEF FreshInv, PrefixesFresh

LEMMA FreshStep == FreshInv /\ [MailNext]_vars => FreshInv'
<1> SUFFICES ASSUME FreshInv, [MailNext]_vars PROVE FreshInv'
  OBVIOUS
<1>1. box' = box
  BY SameBox
<1>2. CASE UNCHANGED <<values, fed>>
  BY <1>1, <1>2 DEF FreshInv, PrefixesFresh
<1>3. CASE ParseBodyOf
  <2> DEFINE mail == Head(work)
             h == ParseHeaders(box, values, ParseHeader(mail.head))
  <2>1. PICK own : fed' = Append(fed, [mail |-> mail, headers |-> h.feed, own |-> own])
    BY <1>3 DEF ParseBodyOf
  <2>2. Grown(box, h.values) /\ values' = h.values
    BY <1>3, GrowsFurther DEF ParseBodyOf, FreshInv
  <2>3. h.feed = ParseHeaders(box, StartValues(box.headers), ParseHeader(mail.head)).feed
    BY SameFeed DEF FreshInv
  <2>4. PICK S : fed \in Seq(S)
    BY DEF FreshInv
  <2> DEFINE new == [mail |-> mail, headers |-> h.feed, own |-> own]
  <2>5. new.mail = mail /\ new.headers = h.feed
    OBVIOUS
  <2> HIDE DEF new, h, mail
  <2>6. fed \in Seq(S \union {new}) /\ fed' = Append(fed, new)
    BY <2>1, <2>4 DEF new
  <2>7. /\ fed' \in Seq(S \union {new})
        /\ \A i \in DOMAIN fed' : (i \in DOMAIN fed /\ fed'[i] = fed[i]) \/ fed'[i] = new
    BY <2>6
  <2>8. ASSUME NEW i \in DOMAIN fed'
        PROVE  fed'[i].headers = ParseHeaders(box, StartValues(box.headers),
                                   ParseHeader(fed'[i].mail.head)).feed
    BY <2>3, <2>5, <2>7 DEF FreshInv, PrefixesFresh
  <2> QED
    BY <1>1, <2>2, <2>7, <2>8 DEF FreshInv, PrefixesFresh
<1> QED
  BY <1>2, <1>3 DEF MailNext, vars, Read, BeginMessage, EndMessage, Stop

\* The prefix a header gets depends on the headers before it in its own part, and not on
\* the messages that the command read before.
THEOREM PrefixesAlwaysFresh == MailSpec => []PrefixesFresh
<1>1. FreshInv => PrefixesFresh
  BY DEF FreshInv
<1> QED
  BY <1>1, FreshInit, FreshStep, PTL DEF MailSpec
-----------------------------------------------------------------------------
(* Flattening: what FlattenSeq does to a sequence that grows at its end *)

\* A nonempty set of naturals has a smallest element.
LEMMA Smallest == ASSUME NEW T, T \subseteq Nat, T # {}
                  PROVE  \E i \in T : \A j \in T : i <= j
<1>1. PICK x \in T : \A y \in T : ~ (<<y, x>> \in OpToRel(<, Nat))
  BY WFMin, NatLessThanWellFounded, Zenon
<1>2. \A y \in T : ~ (y < x)
  BY <1>1 DEF OpToRel
<1> QED
  BY <1>2

\* The function that FlattenSeq is computed with.
\* Flattening sequences one after the other.
LEMMA FlatExists ==
  ASSUME NEW ss, NEW n \in Nat
  PROVE  \E f : f = [i \in 1 .. n |-> IF i = 1 THEN ss[i] ELSE f[i - 1] \o ss[i]]
<1> DEFINE Flat(f, k) == f = [i \in 1 .. k |-> IF i = 1 THEN ss[i]
                                               ELSE f[i - 1] \o ss[i]]
           Lacking == {k \in Nat : ~ \E f : Flat(f, k)}
<1> SUFFICES ASSUME Lacking # {} PROVE FALSE
  OBVIOUS
<1>1. PICK k \in Lacking : \A j \in Lacking : k <= j
  BY Smallest
<1>2. k \in Nat /\ ~ \E f : Flat(f, k)
  OBVIOUS
<1>3. k # 0
  <2>1. Flat([i \in 1 .. 0 |-> 0], 0)
    OBVIOUS
  <2> QED
    BY <1>2, <2>1
<1>4. k - 1 \in Nat /\ k - 1 \notin Lacking
  <2>1. k - 1 \in Nat /\ ~(k <= k - 1)
    BY <1>2, <1>3
  <2> HIDE DEF Lacking
  <2> QED
    BY <1>1, <2>1
<1>5. PICK f : Flat(f, k - 1)
  BY <1>4
<1> DEFINE g == [i \in 1 .. k |-> IF i # k THEN f[i]
                                  ELSE IF k = 1 THEN ss[k] ELSE f[k - 1] \o ss[k]]
<1>6. ASSUME NEW i \in 1 .. k
      PROVE  g[i] = IF i = 1 THEN ss[i] ELSE g[i - 1] \o ss[i]
  <2>1. CASE i = k
    BY <1>2, <1>3, <2>1
  <2>2. CASE i # k
    <3>1. i \in 1 .. (k - 1) /\ (i # 1 => i - 1 \in 1 .. k /\ i - 1 # k)
      BY <1>2, <2>2
    <3>2. f[i] = IF i = 1 THEN ss[i] ELSE f[i - 1] \o ss[i]
      BY <1>5, <3>1
    <3> QED
      BY <2>2, <3>1, <3>2
  <2> QED
    BY <2>1, <2>2
<1>7. g = [i \in 1 .. k |-> g[i]]
  OBVIOUS
<1> HIDE DEF g
<1>8. Flat(g, k)
  BY <1>6, <1>7
<1> QED
  BY <1>2, <1>8

LEMMA FlatIsFlat ==
  ASSUME NEW ss, Len(ss) \in Nat, Len(ss) # 0
  PROVE  \E f : /\ \A i \in 1 .. Len(ss) : f[i] = IF i = 1 THEN ss[i] ELSE f[i - 1] \o ss[i]
                /\ FlattenSeq(ss) = f[Len(ss)]
<1> DEFINE Flat(f) == f = [i \in 1 .. Len(ss) |-> IF i = 1 THEN ss[i]
                                                  ELSE f[i - 1] \o ss[i]]
           f == CHOOSE f : Flat(f)
<1>1. Flat(f)
  <2>1. \E g : Flat(g)
    BY FlatExists
  <2> QED
    BY <2>1, Zenon
<1>2. FlattenSeq(ss) = f[Len(ss)]
  BY DEF FlattenSeq
<1> HIDE DEF f
<1> QED
  BY <1>1, <1>2

LEMMA FlatNothing == FlattenSeq(<<>>) = <<>>
  BY DEF FlattenSeq

\* Everything but the last, and the last.
LEMMA FlatAppend ==
  ASSUME NEW S, NEW ss \in Seq(Seq(S)), NEW s \in Seq(S)
  PROVE  FlattenSeq(Append(ss, s)) = FlattenSeq(ss) \o s
<1> DEFINE n == Len(ss)
           tt == Append(ss, s)
<1>1. /\ n \in Nat /\ Len(tt) = n + 1 /\ tt[n + 1] = s
      /\ \A i \in 1 .. n : tt[i] = ss[i]
  OBVIOUS
<1> HIDE DEF tt
<1>0. Len(tt) \in Nat /\ Len(tt) # 0
  BY <1>1
<1>2. CASE n = 0
  <2>1. PICK g : /\ \A i \in 1 .. Len(tt) : g[i] = IF i = 1 THEN tt[i] ELSE g[i - 1] \o tt[i]
                 /\ FlattenSeq(tt) = g[Len(tt)]
    BY <1>0, FlatIsFlat, Zenon
  <2>2. FlattenSeq(tt) = s
    BY <1>1, <1>2, <2>1
  <2>3. ss = <<>>
    BY <1>2
  <2>4. <<>> \o s = s
    OBVIOUS
  <2> QED
    BY <2>2, <2>3, <2>4, FlatNothing DEF tt
<1>3. CASE n # 0
  <2>1. PICK g : /\ \A i \in 1 .. Len(tt) : g[i] = IF i = 1 THEN tt[i] ELSE g[i - 1] \o tt[i]
                 /\ FlattenSeq(tt) = g[Len(tt)]
    BY <1>0, FlatIsFlat, Zenon
  <2>2. PICK f : /\ \A i \in 1 .. n : f[i] = IF i = 1 THEN ss[i] ELSE f[i - 1] \o ss[i]
                 /\ FlattenSeq(ss) = f[n]
    BY <1>1, <1>3, FlatIsFlat
  <2> DEFINE Wrong == {i \in 1 .. n : f[i] # g[i]}
  <2>3. ASSUME Wrong # {} PROVE FALSE
    <3>0. Wrong \subseteq Nat
      OBVIOUS
    <3>1. PICK i \in Wrong : \A j \in Wrong : i <= j
      <4> HIDE DEF Wrong
      <4> QED
        BY <2>3, <3>0, Smallest
    <3>2. i \in 1 .. n /\ i \in 1 .. Len(tt) /\ f[i] # g[i] /\ tt[i] = ss[i]
      BY <1>1
    <3>3. CASE i = 1
      BY <2>1, <2>2, <3>2, <3>3
    <3>4. CASE i # 1
      <4>1. i - 1 \in 1 .. n /\ i - 1 \notin Wrong
        BY <1>1, <3>1, <3>2, <3>4
      <4>2. f[i - 1] = g[i - 1]
        BY <4>1
      <4> QED
        BY <2>1, <2>2, <3>2, <3>4, <4>2
    <3> QED
      BY <3>3, <3>4
  <2>4. f[n] = g[n]
    BY <1>1, <1>3, <2>3
  <2>5. n + 1 \in 1 .. Len(tt) /\ n + 1 # 1 /\ (n + 1) - 1 = n
    BY <1>1, <1>3
  <2>6. g[n + 1] = g[n] \o tt[n + 1]
    BY <2>1, <2>5
  <2>7. FlattenSeq(tt) = FlattenSeq(ss) \o s
    BY <1>1, <2>1, <2>2, <2>4, <2>6
  <2> QED
    BY <2>7 DEF tt
<1> QED
  BY <1>1, <1>2, <1>3

LEMMA FlatLast ==
  ASSUME NEW S, NEW ss \in Seq(Seq(S)), ss # <<>>
  PROVE  /\ Front(ss) \in Seq(Seq(S)) /\ Last(ss) \in Seq(S)
         /\ ss = Append(Front(ss), Last(ss))
         /\ Len(Front(ss)) = Len(ss) - 1
         /\ FlattenSeq(ss) = FlattenSeq(Front(ss)) \o Last(ss)
<1> DEFINE T == Seq(S)
<1>0. ss \in Seq(T)
  OBVIOUS
<1> HIDE DEF T
<1>1. /\ Front(ss) \in Seq(T) /\ Last(ss) \in T
      /\ Len(Front(ss)) = Len(ss) - 1
  <2>1. Len(ss) \in 1 .. Len(ss) /\ Len(ss) \in Nat \ {0}
    BY <1>0, EmptySeq
  <2>2. \A i \in 1 .. Len(ss) - 1 : ss[i] \in T
    BY <1>0, <2>1
  <2>3. Last(ss) \in T
    BY <1>0, <2>1 DEF Last
  <2>4. /\ SubSeq(ss, 1, Len(ss) - 1) \in Seq(T)
        /\ Len(SubSeq(ss, 1, Len(ss) - 1)) = Len(ss) - 1
    <3> DEFINE k == Len(ss) - 1
    <3>1. k \in Nat /\ 1 \in Int /\ k \in Int
      BY <2>1
    <3>2. \A i \in 1 .. k : ss[i] \in T
      BY <2>2
    <3> HIDE DEF k
    <3>3. SubSeq(ss, 1, k) \in Seq(T) /\ Len(SubSeq(ss, 1, k)) = IF 1 <= k THEN k - 1 + 1 ELSE 0
      BY <3>1, <3>2, SubSeqProperties
    <3>4. Len(SubSeq(ss, 1, k)) = k
      BY <3>1, <3>3
    <3> QED
      BY <3>3, <3>4 DEF k
  <2> QED
    BY <2>3, <2>4 DEF Front
<1>2. ss = Append(Front(ss), Last(ss))
  BY <1>0 DEF Front, Last
<1> USE DEF T
<1> QED
  BY <1>1, <1>2, FlatAppend

LEMMA FlatType ==
  ASSUME NEW S, NEW ss \in Seq(Seq(S))
  PROVE  FlattenSeq(ss) \in Seq(S)
<1> DEFINE Wrong == {n \in Nat : \E tt \in Seq(Seq(S)) :
                                   Len(tt) = n /\ FlattenSeq(tt) \notin Seq(S)}
<1> SUFFICES ASSUME Wrong # {} PROVE FALSE
  <2>1. Len(ss) \in Nat
    OBVIOUS
  <2> QED
    BY <2>1
<1>1. PICK n \in Wrong : \A j \in Wrong : n <= j
  <2>1. Wrong \subseteq Nat
    OBVIOUS
  <2> HIDE DEF Wrong
  <2> QED
    BY <2>1, Smallest
<1>2. PICK tt \in Seq(Seq(S)) : Len(tt) = n /\ FlattenSeq(tt) \notin Seq(S)
  OBVIOUS
<1>3. tt # <<>>
  BY <1>2, FlatNothing
<1>4. FlattenSeq(Front(tt)) \in Seq(S)
  <2>1. /\ Front(tt) \in Seq(Seq(S)) /\ Len(Front(tt)) = n - 1 /\ n \in Nat
        /\ Len(Front(tt)) \in Nat
    BY <1>2, <1>3, FlatLast
  <2>2. n - 1 \in Nat /\ ~(n <= n - 1)
    BY <2>1
  <2>3. n - 1 \notin Wrong
    <3> HIDE DEF Wrong
    <3> QED
      BY <1>1, <2>2
  <2> QED
    BY <2>1, <2>2, <2>3
<1>5. FlattenSeq(tt) = FlattenSeq(Front(tt)) \o Last(tt) /\ Last(tt) \in Seq(S)
  BY <1>3, FlatLast
<1> QED
  BY <1>2, <1>4, <1>5

-----------------------------------------------------------------------------
(* One line of a file *)

\* What is left of the first n characters of a file without the ends of lines.
Piece(c) == IF c \in Terminators THEN <<>> ELSE <<c>>
Cut(file, n) == FlattenSeq([i \in 1 .. n |-> Piece(file[i])])

LEMMA CutNothing == ASSUME NEW file, NEW n \in Int, n <= 0 PROVE Cut(file, n) = <<>>
<1>1. [i \in 1 .. n |-> Piece(file[i])] = <<>>
  OBVIOUS
<1> QED
  BY <1>1, FlatNothing DEF Cut

LEMMA PiecesType ==
  ASSUME NEW S, NEW file \in Seq(S), NEW n \in 0 .. Len(file)
  PROVE  /\ [i \in 1 .. n |-> Piece(file[i])] \in Seq(Seq(S))
         /\ Cut(file, n) \in Seq(S)
<1>1. \A i \in 1 .. n : file[i] \in S
  OBVIOUS
<1>2. \A c \in S : Piece(c) \in Seq(S)
  BY DEF Piece
<1> DEFINE T == Seq(S)
           ss == [i \in 1 .. n |-> Piece(file[i])]
<1>3. \A i \in 1 .. n : Piece(file[i]) \in T
  BY <1>1, <1>2
<1> HIDE DEF T
<1>4. ss \in Seq(T)
  BY <1>3
<1> HIDE DEF ss
<1>5. ss \in Seq(Seq(S))
  BY <1>4 DEF T
<1>6. FlattenSeq(ss) \in Seq(S)
  BY <1>5, FlatType
<1> QED
  BY <1>5, <1>6 DEF ss, Cut

LEMMA CutNext ==
  ASSUME NEW S, NEW file \in Seq(S), NEW n \in 0 .. Len(file) - 1
  PROVE  Cut(file, n + 1) = Cut(file, n) \o Piece(file[n + 1])
<1> DEFINE ss == [i \in 1 .. n |-> Piece(file[i])]
           tt == [i \in 1 .. n + 1 |-> Piece(file[i])]
           T == Seq(S)
<1>1. ss \in Seq(T) /\ tt \in Seq(T)
  <2>1. n \in 0 .. Len(file) /\ n + 1 \in 0 .. Len(file)
    OBVIOUS
  <2> QED
    BY <2>1, PiecesType
<1>2. Piece(file[n + 1]) \in T
  BY DEF Piece
<1>3. n \in Nat
  OBVIOUS
<1> HIDE DEF T
<1>4. tt = Append(ss, Piece(file[n + 1]))
  <2>1. Len(ss) = n /\ Len(tt) = n + 1
    BY <1>3
  <2>2. \A i \in 1 .. n : ss[i] = tt[i]
    OBVIOUS
  <2>3. tt[n + 1] = Piece(file[n + 1])
    BY <1>3
  <2> HIDE DEF ss, tt
  <2> QED
    BY <1>1, <1>2, <1>3, <2>1, <2>2, <2>3
<1> HIDE DEF ss, tt
<1>5. FlattenSeq(tt) = FlattenSeq(ss) \o Piece(file[n + 1])
  BY <1>1, <1>2, <1>4, FlatAppend DEF T
<1> QED
  BY <1>5 DEF Cut, ss, tt

\* A run of characters within a line.
LEMMA CutRun ==
  ASSUME NEW S, NEW file \in Seq(S), NEW p \in 1 .. Len(file) + 1,
         NEW q \in p - 1 .. Len(file), \A i \in p .. q : file[i] \notin Terminators
  PROVE  Cut(file, q) = Cut(file, p - 1) \o SubSeq(file, p, q)
<1> DEFINE Right(n) == Cut(file, n) = Cut(file, p - 1) \o SubSeq(file, p, n)
           Wrong == {n \in p - 1 .. q : ~Right(n)}
<1>0. p \in Nat /\ q \in Nat /\ p - 1 \in 0 .. Len(file) /\ Len(file) \in Nat
  OBVIOUS
<1> HIDE DEF Right
<1> SUFFICES ASSUME Wrong # {} PROVE FALSE
  <2>1. q \in p - 1 .. q
    BY <1>0
  <2> QED
    BY <2>1 DEF Right
<1>1. PICK n \in Wrong : \A j \in Wrong : n <= j
  <2>1. Wrong \subseteq Nat
    BY <1>0
  <2> HIDE DEF Wrong
  <2> QED
    BY <2>1, Smallest
<1>2. n \in p - 1 .. q /\ n \in Nat /\ ~Right(n)
  BY <1>0
<1>3. n # p - 1
  <2>1. SubSeq(file, p, p - 1) = <<>>
    BY <1>0
  <2>2. Cut(file, p - 1) \in Seq(S)
    BY <1>0, PiecesType
  <2>3. Cut(file, p - 1) \o <<>> = Cut(file, p - 1)
    BY <2>2
  <2> QED
    BY <1>2, <2>1, <2>3 DEF Right
<1>4. n \in p .. q /\ n - 1 \in p - 1 .. q /\ ~(n <= n - 1)
  BY <1>0, <1>2, <1>3
<1>5. Cut(file, n - 1) = Cut(file, p - 1) \o SubSeq(file, p, n - 1)
  <2>1. n - 1 \notin Wrong
    <3> HIDE DEF Wrong
    <3> QED
      BY <1>1, <1>4
  <2> QED
    BY <1>4, <2>1 DEF Right
<1> HIDE DEF Wrong
<1>6. Cut(file, n) = Cut(file, n - 1) \o <<file[n]>>
  <2>1. n - 1 \in 0 .. Len(file) - 1 /\ (n - 1) + 1 = n
    BY <1>0, <1>4
  <2>2. Cut(file, n) = Cut(file, n - 1) \o Piece(file[n])
    BY <2>1, CutNext
  <2> QED
    BY <1>4, <2>2 DEF Piece
<1>7. SubSeq(file, p, n) = SubSeq(file, p, n - 1) \o <<file[n]>>
  BY <1>0, <1>4, SubSeqRecursiveSecond
<1>8. /\ Cut(file, p - 1) \in Seq(S) /\ SubSeq(file, p, n - 1) \in Seq(S)
      /\ <<file[n]>> \in Seq(S)
  <2>1. n \in 1 .. Len(file)
    BY <1>0, <1>4
  <2>2. SubSeq(file, p, n - 1) \in Seq(S)
    BY <1>0, <1>4
  <2> QED
    BY <1>0, <2>1, <2>2, PiecesType
<1>9. (Cut(file, p - 1) \o SubSeq(file, p, n - 1)) \o <<file[n]>>
        = Cut(file, p - 1) \o (SubSeq(file, p, n - 1) \o <<file[n]>>)
  <2> DEFINE a == Cut(file, p - 1)
             b == SubSeq(file, p, n - 1)
             c == <<file[n]>>
  <2>1. a \in Seq(S) /\ b \in Seq(S) /\ c \in Seq(S)
    BY <1>8
  <2> HIDE DEF a, b, c
  <2>2. (a \o b) \o c = a \o (b \o c)
    BY <2>1
  <2> QED
    BY <2>2 DEF a, b, c
<1> QED
  BY <1>2, <1>5, <1>6, <1>7, <1>9, Zenon DEF Right

\* What a call of forward reads: it does not pass the end, and what it takes from the file
\* is the line, without its end.
TakesLine(f, p, r) ==
  /\ f.ok \in BOOLEAN /\ f.pos \in Nat /\ f.pos <= Len(File)
  /\ f.remaining \in Int /\ f.line \in Seq(STRING)
  /\ f.pos = 0 => Len(File) = 0
  /\ Cut(File, f.pos - 1) = Cut(File, p - 1) \o f.line
  /\ ~f.ok => f.pos = p /\ f.line = <<>> /\ (r <= 0 \/ AtEnd(p))

LEMMA ForwardReads ==
  ASSUME File \in Seq(STRING), NEW p \in Nat, p <= Len(File), p = 0 => Len(File) = 0,
         NEW r \in Int
  PROVE  TakesLine(Forward(p, r), p, r)
<1> DEFINE f == Forward(p, r)
           n == Len(File)
<1>0. n \in Nat
  OBVIOUS
<1>1. CASE r <= 0 \/ AtEnd(p)
  <2>1. f = NoLine(p, r)
    BY <1>1 DEF Forward
  <2>2. f.ok = FALSE /\ f.pos = p /\ f.remaining = r /\ f.line = <<>>
    BY <2>1 DEF NoLine
  <2>3. Cut(File, p - 1) \in Seq(STRING)
    <3>1. CASE p = 0
      <4>1. Cut(File, p - 1) = <<>>
        BY <3>1, CutNothing
      <4> QED
        BY <4>1, EmptySeq
    <3>2. CASE p # 0
      BY <3>2, PiecesType
    <3> QED
      BY <3>1, <3>2
  <2>4. Cut(File, p - 1) \o <<>> = Cut(File, p - 1)
    BY <2>3
  <2> HIDE DEF f
  <2>5. Cut(File, f.pos - 1) = Cut(File, p - 1) \o f.line
    BY <2>2, <2>4, Zenon
  <2>6. f.ok \in BOOLEAN /\ (~f.ok => f.pos = p /\ f.line = <<>> /\ (r <= 0 \/ AtEnd(p)))
    BY <1>1, <2>2, Zenon
  <2>7. f.pos \in Nat /\ f.pos <= Len(File) /\ (f.pos = 0 => Len(File) = 0)
    BY <2>2
  <2>8. f.remaining \in Int /\ f.line \in Seq(STRING)
    BY <2>2, EmptySeq
  <2> QED
    BY <2>5, <2>6, <2>7, <2>8, Zenon DEF TakesLine, f
<1>2. CASE r > 0 /\ ~AtEnd(p)
  <2>0. p < n /\ p > 0
    BY <1>0, <1>2 DEF AtEnd
  <2> DEFINE Ends == {i \in p .. n - 1 : \/ File[i] \in Terminators
                                         \/ i - p + 1 = r
                                         \/ i = n - 1}
             stop == EndOfLine(p, r)
  <2>1. /\ stop \in Ends /\ \A j \in Ends : stop <= j
    <3>1. Ends \subseteq Nat /\ n - 1 \in Ends
      BY <1>0, <2>0
    <3>2. stop = CHOOSE i \in Ends : \A j \in Ends : i <= j
      BY DEF EndOfLine
    <3> HIDE DEF Ends, stop
    <3>3. \E i \in Ends : \A j \in Ends : i <= j
      BY <3>1, Smallest
    <3> QED
      BY <3>2, <3>3, Zenon
  <2>2. stop \in p .. n - 1 /\ stop \in Nat
    BY <1>0, <2>1
  <2>3. \A i \in p .. stop - 1 : File[i] \notin Terminators
    <3> SUFFICES ASSUME NEW i \in p .. stop - 1, File[i] \in Terminators PROVE FALSE
      OBVIOUS
    <3>1. i \in Ends /\ ~(stop <= i)
      BY <1>0, <2>0, <2>2
    <3> QED
      BY <2>1, <3>1
  <2> DEFINE both == /\ File[stop] = CR
                     /\ ~AtEnd(stop + 1)
                     /\ File[stop + 1] = LF
                     /\ stop - p + 1 < r
             next == IF both THEN stop + 2 ELSE stop + 1
             l == SubSeq(File, p, IF File[stop] \in Terminators THEN stop - 1 ELSE stop)
  <2>4. f.ok = TRUE /\ f.pos = next /\ f.line = l /\ f.remaining = r - (next - p)
    <3>1. f = [ok |-> TRUE, pos |-> next, line |-> l, remaining |-> r - (next - p)]
      BY <1>2 DEF Forward
    <3> HIDE DEF f, next, l
    <3> QED
      BY <3>1
  <2>5. next \in Nat /\ next <= n /\ next # 0
    BY <1>0, <2>2 DEF AtEnd
  <2>6. l \in Seq(STRING)
    BY <1>0, <2>0, <2>2
  <2> HIDE DEF f, Ends, stop
  <2>10. /\ f.ok \in BOOLEAN /\ f.pos \in Nat /\ f.pos <= Len(File)
         /\ f.remaining \in Int /\ f.line \in Seq(STRING)
         /\ f.pos = 0 => Len(File) = 0
         /\ ~f.ok => f.pos = p /\ f.line = <<>> /\ (r <= 0 \/ AtEnd(p))
    <3> HIDE DEF next, l
    <3>1. f.ok = TRUE
      BY <2>4
    <3>2. f.pos \in Nat /\ f.pos <= Len(File) /\ (f.pos = 0 => Len(File) = 0)
      BY <2>4, <2>5
    <3>3. f.line \in Seq(STRING)
      BY <2>4, <2>6
    <3>4. f.remaining \in Int
      BY <2>4, <2>5
    <3> QED
      BY <3>1, <3>2, <3>3, <3>4, Zenon
  <2>7. stop \in 1 .. n /\ p - 1 \in 0 .. n /\ p \in 1 .. n + 1
    BY <1>0, <2>0, <2>2
  <2>8. CASE File[stop] \notin Terminators
    <3>1. next = stop + 1 /\ l = SubSeq(File, p, stop)
      BY <2>8 DEF CR, LF, Terminators
    <3>2. \A i \in p .. stop : File[i] \notin Terminators
      BY <2>2, <2>3, <2>8
    <3>3. stop \in p - 1 .. n
      BY <1>0, <2>0, <2>2
    <3>4. Cut(File, stop) = Cut(File, p - 1) \o SubSeq(File, p, stop)
      BY <2>7, <3>2, <3>3, CutRun
    <3>5. next - 1 = stop
      BY <2>2, <3>1
    <3> HIDE DEF next, l
    <3>6. Cut(File, f.pos - 1) = Cut(File, p - 1) \o f.line
      BY <2>4, <3>1, <3>4, <3>5, Zenon
    <3> QED
      BY <2>10, <3>6, Zenon DEF TakesLine, f
  <2>9. CASE File[stop] \in Terminators
    <3>1. l = SubSeq(File, p, stop - 1)
      BY <2>9
    <3>2. Cut(File, stop - 1) = Cut(File, p - 1) \o SubSeq(File, p, stop - 1)
      <4>1. stop - 1 \in p - 1 .. n
        BY <1>0, <2>0, <2>2
      <4> QED
        BY <2>3, <2>7, <4>1, CutRun
    <3>3. \A k \in 1 .. n : File[k] \in Terminators => Cut(File, k) = Cut(File, k - 1)
      <4> SUFFICES ASSUME NEW k \in 1 .. n, File[k] \in Terminators
                   PROVE  Cut(File, k) = Cut(File, k - 1)
        OBVIOUS
      <4>1. k - 1 \in 0 .. n - 1 /\ (k - 1) + 1 = k
        BY <1>0
      <4>2. Cut(File, k) = Cut(File, k - 1) \o Piece(File[k])
        BY <4>1, CutNext
      <4>3. Piece(File[k]) = <<>>
        BY DEF Piece
      <4>4. Cut(File, k - 1) \in Seq(STRING)
        <5>1. k - 1 \in 0 .. n
          BY <1>0
        <5> QED
          BY <5>1, PiecesType
      <4>5. Cut(File, k - 1) \o <<>> = Cut(File, k - 1)
        BY <4>4
      <4> QED
        BY <4>2, <4>3, <4>5
    <3>4. Cut(File, stop) = Cut(File, stop - 1)
      BY <2>7, <2>9, <3>3
    <3>5. Cut(File, next - 1) = Cut(File, stop)
      <4>1. CASE both
        <5>1. /\ next - 1 = stop + 1 /\ stop + 1 \in 1 .. n
              /\ File[stop + 1] \in Terminators /\ (stop + 1) - 1 = stop
          BY <1>0, <2>2, <4>1 DEF AtEnd, Terminators
        <5> QED
          BY <3>3, <5>1
      <4>2. CASE ~both
        <5>1. next - 1 = stop
          BY <2>2, <4>2
        <5> QED
          BY <5>1
      <4> QED
        BY <4>1, <4>2
    <3> HIDE DEF next, l
    <3>6. Cut(File, f.pos - 1) = Cut(File, p - 1) \o f.line
      BY <2>4, <3>1, <3>2, <3>4, <3>5, Zenon
    <3> QED
      BY <2>10, <3>6, Zenon DEF TakesLine, f
  <2> QED
    BY <2>8, <2>9
<1> QED
  BY <1>0, <1>1, <1>2

-----------------------------------------------------------------------------
(* The readers of one message and of mbox files: what is delivered, what is *)
(* collected and the current line are together what was read so far. *)

Line == Seq(STRING)
Message == Seq(Line)
Delivered(messages) == FlattenSeq([i \in DOMAIN messages |-> Characters(messages[i])])
Closed == stage = "ready" \/ stage = "done"
Collected == IF Closed THEN <<>> ELSE Characters(text)
Current == IF hasLine /\ stage # "content" THEN line ELSE <<>>

ReaderShape ==
  /\ pos \in Nat /\ pos <= Len(File)
  /\ stage # "open" => (pos = 0 => Len(File) = 0)
  /\ line \in Line /\ hasLine \in BOOLEAN
  /\ text \in Message /\ out \in Seq(Message)
  /\ length \in Int
  /\ format \in {"mbox", "plain"}
  /\ stage \in {"open", "ready", "head", "length", "content", "body", "done"}
  /\ stage = "open" => pos = 0 /\ text = <<>> /\ out = <<>> /\ ~hasLine /\ ~prevBlank

ReaderPlace ==
  /\ stage # "open" => hasLine \/ AtEnd(pos)
  /\ stage = "length" => ~hasLine \/ line = <<>>
  /\ stage = "content" => text # <<>>
  /\ hasLine /\ prevBlank => text # <<>> /\ stage # "ready"
  /\ stage = "done" => AtEnd(pos)

Balanced == Delivered(out) \o Collected \o Current = Cut(File, pos - 1)

ReaderInv == ReaderShape /\ ReaderPlace /\ Balanced
LostInv == format # "mbx" => ReaderInv

LEMMA Lines ==
  ASSUME NEW a \in Line, NEW b \in Line, NEW c \in Line
  PROVE  /\ a \o b \in Line
         /\ (a \o b) \o c = a \o (b \o c)
         /\ a \o <<>> = a /\ <<>> \o a = a
BY DEF Line

LEMMA CharactersNext ==
  ASSUME NEW t \in Message, NEW l \in Line
  PROVE  /\ Characters(t) \in Line
         /\ Append(t, l) \in Message /\ Append(t, l) # <<>>
         /\ Characters(Append(t, l)) = Characters(t) \o l
<1>1. t \in Seq(Seq(STRING)) /\ l \in Seq(STRING)
  BY DEF Message, Line
<1>2. FlattenSeq(t) \in Seq(STRING)
  BY <1>1, FlatType
<1>3. FlattenSeq(Append(t, l)) = FlattenSeq(t) \o l
  BY <1>1, FlatAppend
<1>4. Append(t, l) \in Seq(Line) /\ Append(t, l) # <<>>
  <2>1. t \in Seq(Line)
    BY DEF Message
  <2>2. Append(t, l) \in Seq(Line) /\ Len(Append(t, l)) = Len(t) + 1 /\ Len(t) \in Nat
    BY <2>1
  <2> QED
    BY <2>2
<1> QED
  BY <1>2, <1>3, <1>4 DEF Characters, Message, Line

LEMMA CharactersNone == Characters(<<>>) = <<>> /\ <<>> \in Line /\ <<>> \in Message
<1>1. <<>> \in Line
  BY DEF Line
<1>2. <<>> \in Message
  BY DEF Message
<1> QED
  BY <1>1, <1>2, FlatNothing DEF Characters

LEMMA CharactersJoined ==
  ASSUME NEW t \in Message, NEW l \in Line
  PROVE  /\ AppendToLastLine(t, l) \in Message /\ AppendToLastLine(t, l) # <<>>
         /\ Characters(AppendToLastLine(t, l)) = Characters(t) \o l
<1>1. CASE t = <<>>
  <2>1. AppendToLastLine(t, l) = <<l>> /\ <<l>> = Append(t, l)
    BY <1>1 DEF AppendToLastLine
  <2> QED
    BY <2>1, CharactersNext, Zenon
<1>2. CASE t # <<>>
  <2>1. t \in Seq(Seq(STRING))
    BY DEF Message, Line
  <2>2. /\ Front(t) \in Seq(Seq(STRING)) /\ Last(t) \in Seq(STRING)
        /\ Characters(t) = Characters(Front(t)) \o Last(t)
    BY <1>2, <2>1, FlatLast DEF Characters
  <2>3. Front(t) \in Message /\ Last(t) \in Line /\ Last(t) \o l \in Line
    <3>1. Front(t) \in Message /\ Last(t) \in Line
      BY <2>2, Zenon DEF Message, Line
    <3> QED
      BY <3>1, Lines
  <2>4. AppendToLastLine(t, l) = Append(Front(t), Last(t) \o l)
    <3> DEFINE front == Front(t)
               last == Last(t) \o l
    <3>1. front \in Message
      BY <2>3
    <3>2. AppendToLastLine(t, l) = front \o <<last>>
      BY <1>2 DEF AppendToLastLine
    <3> HIDE DEF front, last
    <3>3. front \o <<last>> = Append(front, last)
      BY <3>1 DEF Message
    <3> QED
      BY <3>2, <3>3 DEF front, last
  <2>5. /\ Append(Front(t), Last(t) \o l) \in Message
        /\ Append(Front(t), Last(t) \o l) # <<>>
        /\ Characters(Append(Front(t), Last(t) \o l)) = Characters(Front(t)) \o (Last(t) \o l)
        /\ Characters(Front(t)) \in Line
    BY <2>3, CharactersNext
  <2>6. Characters(Front(t)) \o (Last(t) \o l) = (Characters(Front(t)) \o Last(t)) \o l
    <3> DEFINE a == Characters(Front(t))
               b == Last(t)
    <3>1. a \in Line /\ b \in Line
      BY <2>3, <2>5
    <3> HIDE DEF a, b
    <3>2. a \o (b \o l) = (a \o b) \o l
      BY <3>1 DEF Line
    <3> QED
      BY <3>2, Zenon DEF a, b
  <2> QED
    BY <2>2, <2>4, <2>5, <2>6, Zenon
<1> QED
  BY <1>1, <1>2

LEMMA DeliveredNext ==
  ASSUME NEW o \in Seq(Message), NEW t \in Message
  PROVE  /\ Delivered(o) \in Line
         /\ Append(o, t) \in Seq(Message)
         /\ Delivered(Append(o, t)) = Delivered(o) \o Characters(t)
<1> DEFINE ss == [i \in DOMAIN o |-> Characters(o[i])]
           oo == Append(o, t)
           tt == [i \in DOMAIN oo |-> Characters(oo[i])]
<1>1. \A m \in Message : Characters(m) \in Line
  BY CharactersNext, CharactersNone
<1>2. ss \in Seq(Line)
  <2>1. \A i \in 1 .. Len(o) : Characters(o[i]) \in Line
    BY <1>1
  <2> QED
    BY <2>1
<1>3. tt = Append(ss, Characters(t))
  <2>1. Len(oo) = Len(o) + 1 /\ oo[Len(o) + 1] = t /\ \A i \in 1 .. Len(o) : oo[i] = o[i]
    OBVIOUS
  <2>2. Len(ss) = Len(o) /\ Len(o) \in Nat /\ DOMAIN oo = 1 .. Len(o) + 1
    OBVIOUS
  <2>3. /\ DOMAIN tt = 1 .. Len(o) + 1
        /\ \A i \in 1 .. Len(o) : tt[i] = ss[i]
        /\ tt[Len(o) + 1] = Characters(t)
    BY <2>1, <2>2
  <2>4. tt = [i \in 1 .. Len(o) + 1 |-> tt[i]]
    BY <2>2
  <2>5. \A i \in 1 .. Len(o) : tt[i] \in Line
    BY <1>2, <2>2, <2>3
  <2>6. tt \in Seq(Line)
    BY <1>1, <2>3, <2>4, <2>5
  <2>7. Characters(t) \in Line
    BY <1>1
  <2>8. Len(tt) = Len(o) + 1
    BY <2>2, <2>3, <2>6
  <2> HIDE DEF tt, ss, oo
  <2>9. Len(Append(ss, Characters(t))) = Len(o) + 1
    BY <1>2, <2>2, <2>7
  <2> QED
    BY <1>2, <2>2, <2>3, <2>6, <2>7, <2>8, <2>9
<1> HIDE DEF ss, tt
<1>4. ss \in Seq(Seq(STRING)) /\ Characters(t) \in Seq(STRING)
  BY <1>1, <1>2 DEF Line
<1>5. FlattenSeq(ss) \in Seq(STRING) /\ FlattenSeq(tt) = FlattenSeq(ss) \o Characters(t)
  BY <1>3, <1>4, FlatType, FlatAppend
<1>6. Delivered(o) = FlattenSeq(ss) /\ Delivered(oo) = FlattenSeq(tt)
  BY DEF Delivered, ss, tt
<1>7. oo \in Seq(Message)
  OBVIOUS
<1> HIDE DEF oo
<1>8. Delivered(o) \in Line /\ Delivered(oo) = Delivered(o) \o Characters(t)
  BY <1>5, <1>6 DEF Line
<1> QED
  BY <1>7, <1>8 DEF oo

LEMMA BalancedSoFar == Balanced <=> Delivered(out) \o Collected \o Current = ReadSoFar
BY Zenon DEF Balanced, ReadSoFar, Cut, Piece

\* One more line is taken: what was current joins what is collected.
LEMMA Moves ==
  ASSUME NEW a \in Line, NEW b \in Line, NEW c \in Line, NEW d \in Line
  PROVE  /\ a \o (b \o c) \o d = (a \o b \o c) \o d
         /\ (a \o b) \o <<>> \o c = a \o b \o c
         /\ a \o b \o <<>> = a \o b
         /\ a \o (b \o c) \o <<>> = a \o b \o c
BY DEF Line

LEMMA FileOfBox ==
  ASSUME box \in Box
  PROVE  File \in Seq(STRING) /\ Infinity \in Int /\ Infinity > 0 /\ Len(File) < Infinity
<1>1. File \in Seq(STRING) /\ Len(File) < Infinity /\ Infinity \in Nat
  BY MailboxAssumption DEF IsBox, File
<1> QED
  BY <1>1

\* What a step that reads a line finds in the file.
Taken(p, l, h) == /\ p \in Nat /\ p <= Len(File) /\ (p = 0 => Len(File) = 0)
                  /\ l \in Line /\ h \in BOOLEAN
                  /\ Cut(File, p - 1) = Cut(File, pos - 1) \o l
                  /\ ~h => l = <<>>

LEMMA ReadsTakes ==
  ASSUME box \in Box, NEW r \in Int, pos \in Nat, pos <= Len(File), pos = 0 => Len(File) = 0,
         Reads(Forward(pos, r))
  PROVE  /\ Taken(pos', line', hasLine')
         /\ ~hasLine' => r <= 0 \/ pos' >= Len(File)
         /\ Forward(pos, r).ok = hasLine' /\ Forward(pos, r).line = line'
         /\ Forward(pos, r).remaining \in Int
<1> DEFINE f == Forward(pos, r)
<1>1. TakesLine(f, pos, r)
  BY FileOfBox, ForwardReads
<1>2. pos' = f.pos /\ line' = f.line /\ hasLine' = f.ok
  BY DEF Reads
<1> HIDE DEF f
<1>3. Taken(pos', line', hasLine')
  BY <1>1, <1>2, Zenon DEF TakesLine, Taken, Line
<1>4. ~hasLine' => r <= 0 \/ pos' >= Len(File)
  BY <1>1, <1>2, Zenon DEF TakesLine, AtEnd
<1>5. f.remaining \in Int
  BY <1>1, Zenon DEF TakesLine
<1> QED
  BY <1>2, <1>3, <1>4, <1>5, Zenon DEF f

\* The file is the same after every step.
LEMMA SameFile ==
  ASSUME box' = box
  PROVE  File' = File /\ (box \in Box => box' \in Box)
BY DEF File

-----------------------------------------------------------------------------
LEMMA LostSetStream ==
  ASSUME box \in Box, ReaderInv, SetStream PROVE format' # "mbx" => ReaderInv'
<1> SUFFICES ASSUME format' # "mbx" PROVE ReaderInv'
  OBVIOUS
<1> DEFINE p == SkipChars(0, 1)
<1>1. ~IsMbxFile /\ stage = "open" /\ stage' = "ready" /\ Reads(Forward(p, Infinity))
      /\ box' = box /\ prevBlank' = prevBlank /\ length' = length /\ text' = text /\ out' = out
      /\ (format' = "mbox" \/ format' = "plain")
  BY DEF SetStream
<1>2. p \in Nat /\ p <= Len(File) /\ (p = 0 => Len(File) = 0) /\ p <= 1
  <2>1. Len(File) \in Nat
    BY FileOfBox
  <2> QED
    BY <2>1 DEF SkipChars
<1>3. pos = 0 /\ text = <<>> /\ out = <<>> /\ ~prevBlank /\ length \in Int
  BY <1>1 DEF ReaderInv, ReaderShape
<1>4. TakesLine(Forward(p, Infinity), p, Infinity)
  BY <1>2, FileOfBox, ForwardReads
<1>5. Cut(File, p - 1) = <<>>
  BY <1>2, CutNothing
<1> DEFINE f == Forward(p, Infinity)
<1>6. pos' = f.pos /\ line' = f.line /\ hasLine' = f.ok
  BY <1>1 DEF Reads
<1> HIDE DEF p, f
<1>7. /\ pos' \in Nat /\ pos' <= Len(File) /\ (pos' = 0 => Len(File) = 0)
      /\ line' \in Line /\ hasLine' \in BOOLEAN
      /\ Cut(File, pos' - 1) = <<>> \o line'
      /\ ~hasLine' => line' = <<>> /\ pos' = p /\ (Infinity <= 0 \/ AtEnd(p))
  BY <1>4, <1>5, <1>6, Zenon DEF TakesLine, Line, f
<1>8. hasLine' \/ pos' >= Len(File)
  BY <1>7, FileOfBox DEF AtEnd
<1>9. Delivered(<<>>) = <<>>
  <2>1. [i \in DOMAIN <<>> |-> Characters(<<>>[i])] = <<>>
    OBVIOUS
  <2> QED
    BY <2>1, FlatNothing DEF Delivered
<1>10. File' = File
  BY <1>1, SameFile
<1>11. ReaderShape'
  BY <1>1, <1>3, <1>7, <1>10, CharactersNone DEF ReaderShape, Line
<1>12. ReaderPlace'
  BY <1>1, <1>3, <1>8, <1>10 DEF ReaderPlace, AtEnd
<1>13. Balanced'
  <2>1. Collected' = <<>> /\ Delivered(out') = <<>>
    BY <1>1, <1>3, <1>9 DEF Collected, Closed
  <2>2. Current' = line'
    BY <1>1, <1>7 DEF Current
  <2>3. <<>> \o <<>> \o line' = <<>> \o line'
    BY <1>7 DEF Line
  <2>4. Delivered(out)' \o Collected' \o Current' = Cut(File, pos' - 1)
    BY <1>7, <2>1, <2>2, <2>3, Zenon
  <2> QED
    BY <2>4, <1>10, Zenon DEF Balanced
<1> QED
  BY <1>11, <1>12, <1>13, Zenon DEF ReaderInv

LEMMA LostReadMessage ==
  ASSUME box \in Box, ReaderInv, ReadMessage PROVE format' # "mbx" => ReaderInv'
<1>1. /\ stage = "ready" /\ text' = <<>> /\ length' = 0 /\ stage' \in {"mbx", "head", "body"}
      /\ stage' = "mbx" => format = "mbx"
      /\ pos' = pos /\ line' = line /\ hasLine' = hasLine
      /\ box' = box /\ format' = format /\ prevBlank' = prevBlank /\ out' = out
  BY DEF ReadMessage, KeepLine
<1>2. File' = File
  BY <1>1, SameFile
<1>3. ReaderShape'
  BY <1>1, <1>2, CharactersNone DEF ReaderInv, ReaderShape
<1>4. ReaderPlace'
  BY <1>1, <1>2 DEF ReaderInv, ReaderShape, ReaderPlace, AtEnd
<1>5. Balanced'
  <2>1. Collected' = Collected /\ Current' = Current /\ Delivered(out)' = Delivered(out)
    <3>1. Collected' = <<>> /\ Collected = <<>>
      BY <1>1, CharactersNone DEF Collected, Closed
    <3>2. Current' = Current
      BY <1>1 DEF Current
    <3> QED
      BY <1>1, <3>1, <3>2
  <2>2. Cut(File, pos - 1)' = Cut(File, pos - 1)
    BY <1>1, <1>2
  <2> QED
    BY <2>1, <2>2, Zenon DEF ReaderInv, Balanced
<1> QED
  BY <1>3, <1>4, <1>5, Zenon DEF ReaderInv

\* A step that takes a line when everything that was current is collected.
LEMMA TakesBalanced ==
  ASSUME box \in Box, ReaderInv, box' = box, Taken(pos', line', hasLine'), out' = out,
         stage \notin {"ready", "done"}, stage' \notin {"ready", "done", "content"},
         Characters(text') = Characters(text) \o Current
  PROVE  Balanced'
<1>1. /\ Delivered(out) \in Line /\ Characters(text) \in Line /\ Current \in Line
      /\ line' \in Line
  <2>1. out \in Seq(Message) /\ text \in Message /\ line \in Line
    BY DEF ReaderInv, ReaderShape
  <2>2. Current \in Line
    BY <2>1, CharactersNone DEF Current
  <2> QED
    BY <2>1, <2>2, CharactersNext, CharactersNone, DeliveredNext DEF Taken
<1>2. Collected = Characters(text) /\ Collected' = Characters(text') /\ Current' = line'
  BY DEF Collected, Closed, Current, Taken
<1>3. Delivered(out) \o Characters(text) \o Current = Cut(File, pos - 1)
  BY <1>2, Zenon DEF ReaderInv, Balanced
<1>4. Delivered(out) \o (Characters(text) \o Current) \o line'
        = (Delivered(out) \o Characters(text) \o Current) \o line'
  BY <1>1, Moves
<1>5. Cut(File, pos' - 1) = Cut(File, pos - 1) \o line'
  BY DEF Taken
<1>6. File' = File /\ Delivered(out)' = Delivered(out)
  BY SameFile
<1> QED
  BY <1>2, <1>3, <1>4, <1>5, <1>6, Zenon DEF Balanced

\* The same for the step to the content, which leaves its blank line current.
LEMMA LostHeadLine ==
  ASSUME box \in Box, ReaderInv, HeadLine PROVE format' # "mbx" => ReaderInv'
<1>1. /\ stage = "head" /\ length' = length /\ box' = box /\ format' = format
      /\ prevBlank' = prevBlank /\ out' = out
      /\ text' = IF hasLine THEN Append(text, line) ELSE text
  BY DEF HeadLine
<1>2. File' = File
  BY <1>1, SameFile
<1>3. /\ pos \in Nat /\ pos <= Len(File) /\ (pos = 0 => Len(File) = 0)
      /\ line \in Line /\ hasLine \in BOOLEAN /\ text \in Message
  BY <1>1 DEF ReaderInv, ReaderShape
<1>4. text' \in Message /\ (hasLine => text' # <<>>)
  BY <1>1, <1>3, CharactersNext
<1>5. CASE hasLine /\ line # <<>>
  <2>1. Reads(Forward(pos, Infinity)) /\ stage' = "head"
    BY <1>1, <1>5 DEF HeadLine
  <2>2. Taken(pos', line', hasLine') /\ (hasLine' \/ pos' >= Len(File))
    BY <1>3, <2>1, FileOfBox, ReadsTakes
  <2>3. ReaderShape'
    BY <1>1, <1>2, <1>4, <2>1, <2>2 DEF ReaderInv, ReaderShape, Taken
  <2>4. ReaderPlace'
    BY <1>1, <1>2, <1>4, <1>5, <2>1, <2>2 DEF ReaderInv, ReaderPlace, AtEnd
  <2>5. Balanced'
    <3>1. Characters(text') = Characters(text) \o Current
      <4>1. Current = line
        BY <1>1, <1>5 DEF Current
      <4> QED
        BY <1>1, <1>3, <1>5, <4>1, CharactersNext
    <3> QED
      BY <1>1, <2>1, <2>2, <3>1, TakesBalanced
  <2> QED
    BY <2>3, <2>4, <2>5, Zenon DEF ReaderInv
<1>6. CASE ~(hasLine /\ line # <<>>)
  <2>1. pos' = pos /\ line' = line /\ hasLine' = hasLine /\ stage' = "length"
    BY <1>1, <1>6 DEF HeadLine, KeepLine
  <2>2. ReaderShape'
    BY <1>1, <1>2, <1>4, <2>1 DEF ReaderInv, ReaderShape
  <2>3. ReaderPlace'
    BY <1>1, <1>2, <1>4, <1>6, <2>1 DEF ReaderInv, ReaderPlace, AtEnd
  <2>4. Balanced'
    <3>1. Current' = Current /\ Current = <<>>
      BY <1>1, <1>6, <2>1 DEF Current
    <3>2. Characters(text') = Characters(text)
      <4>1. CASE hasLine
        <5>1. line = <<>> /\ Characters(text') = Characters(text) \o line
          BY <1>1, <1>3, <1>6, <4>1, CharactersNext
        <5>2. Characters(text) \in Line
          BY <1>3, CharactersNext
        <5>3. Characters(text) \o <<>> = Characters(text)
          BY <5>2, Lines, CharactersNone
        <5> QED
          BY <5>1, <5>3
      <4>2. CASE ~hasLine
        BY <1>1, <4>2
      <4> QED
        BY <1>3, <4>1, <4>2
    <3>3. Collected' = Collected
      BY <1>1, <2>1, <3>2 DEF Collected, Closed
    <3>4. Delivered(out)' = Delivered(out) /\ Cut(File, pos - 1)' = Cut(File, pos - 1)
      BY <1>1, <1>2, <2>1
    <3> QED
      BY <3>1, <3>3, <3>4, Zenon DEF ReaderInv, Balanced
  <2> QED
    BY <2>2, <2>3, <2>4, Zenon DEF ReaderInv
<1> QED
  BY <1>5, <1>6

LEMMA DigitValue ==
  ASSUME NEW l, l[2] \in ToSet(Digit) PROVE LengthIn(l) \in 0 .. 9
<1>1. DOMAIN Digit = 1 .. 10
  BY DEF Digit
<1>2. PICK i \in 1 .. 10 : l[2] = Digit[i]
  BY <1>1 DEF ToSet
<1>3. i - 1 \in 0 .. 9 /\ Digit[(i - 1) + 1] = l[2]
  BY <1>2
<1>4. \E n \in 0 .. 9 : Digit[n + 1] = l[2]
  BY <1>3
<1> QED
  BY <1>4, Zenon DEF LengthIn

LEMMA LostFindContentLength ==
  ASSUME box \in Box, ReaderInv, FindContentLength PROVE format' # "mbx" => ReaderInv'
<1>1. /\ stage = "length" /\ stage' \in {"body", "content"}
      /\ pos' = pos /\ line' = line /\ hasLine' = hasLine
      /\ box' = box /\ format' = format /\ prevBlank' = prevBlank /\ text' = text
      /\ out' = out
  BY DEF FindContentLength, KeepLine
<1>2. text \in Message /\ length \in Int
  BY DEF ReaderInv, ReaderShape
<1>3. length' \in Int /\ (stage' = "content" => text # <<>>)
  <2>1. CASE LengthLines = {}
    BY <1>1, <1>2, <2>1 DEF FindContentLength
  <2>2. CASE LengthLines # {}
    <3> DEFINE i == CHOOSE i \in LengthLines : \A j \in LengthLines : i <= j
               n == LengthIn(text[i])
    <3>1. length' = IF n > Padding THEN n - Padding ELSE 0
      BY <2>2, Zenon DEF FindContentLength
    <3>2. LengthLines \subseteq Nat
      <4>1. DOMAIN text \subseteq Nat
        BY <1>2 DEF Message
      <4> QED
        BY <4>1 DEF LengthLines
    <3>3. i \in LengthLines
      <4>1. \E k \in LengthLines : \A j \in LengthLines : k <= j
        BY <2>2, <3>2, Smallest
      <4> QED
        BY <4>1, Zenon
    <3>4. text[i][2] \in ToSet(Digit) /\ i \in DOMAIN text
      BY <3>3, Zenon DEF LengthLines, IsLengthLine
    <3> HIDE DEF i
    <3>5. n \in 0 .. 9
      BY <3>4, DigitValue
    <3>6. text # <<>>
      BY <3>4
    <3> HIDE DEF n
    <3>7. length' \in Int
      BY <3>1, <3>5, MailboxAssumption
    <3> QED
      BY <3>6, <3>7
  <2> QED
    BY <2>1, <2>2
<1>4. File' = File
  BY <1>1, SameFile
<1>5. ReaderShape'
  BY <1>1, <1>3, <1>4 DEF ReaderInv, ReaderShape
<1>6. ReaderPlace'
  BY <1>1, <1>3, <1>4 DEF ReaderInv, ReaderPlace, AtEnd
<1>7. Balanced'
  <2>1. hasLine => line = <<>>
    BY <1>1 DEF ReaderInv, ReaderPlace
  <2>2. Current' = Current
    BY <1>1, <2>1 DEF Current
  <2>3. Collected' = Collected
    BY <1>1 DEF Collected, Closed
  <2>4. Delivered(out)' = Delivered(out) /\ Cut(File, pos - 1)' = Cut(File, pos - 1)
    BY <1>1, <1>4
  <2> QED
    BY <2>2, <2>3, <2>4, Zenon DEF ReaderInv, Balanced
<1> QED
  BY <1>5, <1>6, <1>7, Zenon DEF ReaderInv

LEMMA LostContentLine ==
  ASSUME box \in Box, ReaderInv, ContentLine PROVE format' # "mbx" => ReaderInv'
<1> DEFINE f == Forward(pos, length)
<1>1. /\ stage = "content" /\ box' = box /\ format' = format /\ prevBlank' = prevBlank
      /\ out' = out
  BY DEF ContentLine
<1>2. File' = File
  BY <1>1, SameFile
<1>3. /\ pos \in Nat /\ pos <= Len(File) /\ (pos = 0 => Len(File) = 0)
      /\ text \in Message /\ length \in Int /\ text # <<>>
  BY <1>1 DEF ReaderInv, ReaderShape, ReaderPlace
<1>4. Current = <<>>
  BY <1>1 DEF Current
<1>5. CASE f.ok
  <2>1. Reads(f) /\ length' = f.remaining /\ text' = Append(text, f.line) /\ stage' = stage
    BY <1>5 DEF ContentLine
  <2>2. /\ Taken(pos', line', hasLine') /\ f.ok = hasLine' /\ f.line = line'
        /\ f.remaining \in Int
    BY <1>3, <2>1, ReadsTakes
  <2> HIDE DEF f
  <2>3. /\ text' \in Message /\ text' # <<>>
        /\ Characters(text') = Characters(text) \o line'
        /\ Characters(text) \in Line /\ line' \in Line
    BY <1>3, <2>1, <2>2, CharactersNext DEF Taken
  <2>4. ReaderShape'
    BY <1>1, <1>2, <2>1, <2>2, <2>3 DEF ReaderInv, ReaderShape, Taken
  <2>5. ReaderPlace'
    BY <1>1, <1>2, <1>5, <2>1, <2>2, <2>3 DEF ReaderInv, ReaderPlace, AtEnd
  <2>6. Balanced'
    <3>1. Collected = Characters(text) /\ Collected' = Characters(text')
      BY <1>1, <2>1 DEF Collected, Closed
    <3>2. Current' = <<>>
      BY <1>1, <2>1 DEF Current
    <3>3. Delivered(out) \in Line
      <4>1. out \in Seq(Message)
        BY DEF ReaderInv, ReaderShape
      <4> QED
        BY <4>1, DeliveredNext, CharactersNone
    <3>4. Delivered(out) \o Characters(text) \o <<>> = Cut(File, pos - 1)
      BY <1>4, <3>1, Zenon DEF ReaderInv, Balanced
    <3>5. Delivered(out) \o (Characters(text) \o line') \o <<>>
            = (Delivered(out) \o Characters(text)) \o line'
      BY <2>3, <3>3, Moves
    <3>6. Delivered(out) \o Characters(text) \o <<>> = Delivered(out) \o Characters(text)
      BY <2>3, <3>3, Moves
    <3>7. Cut(File, pos' - 1) = Cut(File, pos - 1) \o line'
      BY <2>2 DEF Taken
    <3>8. Delivered(out)' = Delivered(out)
      BY <1>1
    <3> QED
      BY <1>2, <2>3, <3>1, <3>2, <3>4, <3>5, <3>6, <3>7, <3>8, Zenon DEF Balanced
  <2> QED
    BY <2>4, <2>5, <2>6, Zenon DEF ReaderInv
<1>6. CASE ~f.ok
  <2>1. Reads(Forward(pos, Infinity)) /\ stage' = "body" /\ length' = length /\ text' = text
    BY <1>6 DEF ContentLine
  <2>2. Taken(pos', line', hasLine') /\ (hasLine' \/ pos' >= Len(File))
    BY <1>3, <2>1, FileOfBox, ReadsTakes
  <2> HIDE DEF f
  <2>3. ReaderShape'
    BY <1>1, <1>2, <2>1, <2>2 DEF ReaderInv, ReaderShape, Taken
  <2>4. ReaderPlace'
    BY <1>1, <1>2, <1>3, <2>1, <2>2 DEF ReaderInv, ReaderPlace, AtEnd
  <2>5. Characters(text') = Characters(text) \o Current
    <3>1. Characters(text) \in Line
      BY <1>3, CharactersNext, CharactersNone
    <3> QED
      BY <1>4, <2>1, <3>1, Lines
  <2>6. Balanced'
    BY <1>1, <2>1, <2>2, <2>5, TakesBalanced
  <2> QED
    BY <2>3, <2>4, <2>6, Zenon DEF ReaderInv
<1> QED
  BY <1>5, <1>6

LEMMA LostBodyLine ==
  ASSUME box \in Box, ReaderInv, BodyLine PROVE format' # "mbx" => ReaderInv'
<1>1. /\ stage = "body" /\ box' = box /\ format' = format /\ length' = length
      /\ prevBlank' = IF hasLine /\ format = "mbox" THEN line = <<>> ELSE prevBlank
  BY DEF BodyLine
<1>2. File' = File
  BY <1>1, SameFile
<1>3. /\ pos \in Nat /\ pos <= Len(File) /\ (pos = 0 => Len(File) = 0)
      /\ line \in Line /\ hasLine \in BOOLEAN /\ text \in Message /\ out \in Seq(Message)
      /\ hasLine /\ prevBlank => text # <<>>
      /\ hasLine \/ AtEnd(pos)
  BY <1>1 DEF ReaderInv, ReaderShape, ReaderPlace
<1>4. CASE hasLine /\ ~IsBoundary
  <2>1. /\ text' = IF joins THEN AppendToLastLine(text, line) ELSE Append(text, line)
        /\ Reads(Forward(pos, Infinity))
        /\ stage' = stage /\ out' = out
    BY <1>4 DEF BodyLine
  <2>2. Taken(pos', line', hasLine') /\ (hasLine' \/ pos' >= Len(File))
    BY <1>3, <2>1, FileOfBox, ReadsTakes
  <2>3. Current = line
    BY <1>1, <1>4 DEF Current
  <2>4. /\ text' \in Message /\ text' # <<>>
        /\ Characters(text') = Characters(text) \o Current
    <3>1. CASE joins
      <4>1. text' = AppendToLastLine(text, line)
        BY <2>1, <3>1
      <4> QED
        BY <1>3, <2>3, <4>1, CharactersJoined
    <3>2. CASE ~joins
      <4>1. text' = Append(text, line)
        BY <2>1, <3>2
      <4> QED
        BY <1>3, <2>3, <4>1, CharactersNext
    <3> QED
      BY <3>1, <3>2
  <2>5. ReaderShape'
    BY <1>1, <1>2, <2>1, <2>2, <2>4 DEF ReaderInv, ReaderShape, Taken
  <2>6. ReaderPlace'
    BY <1>1, <1>2, <2>1, <2>2, <2>4 DEF ReaderInv, ReaderPlace, AtEnd
  <2>7. Balanced'
    BY <1>1, <2>1, <2>2, <2>4, TakesBalanced
  <2> QED
    BY <2>5, <2>6, <2>7, Zenon DEF ReaderInv
<1>5. CASE ~(hasLine /\ ~IsBoundary)
  <2>1. Deliver /\ pos' = pos /\ line' = line /\ hasLine' = hasLine /\ text' = text
    BY <1>5 DEF BodyLine, KeepLine
  <2>2. hasLine => text # <<>> /\ ~prevBlank'
    <3> SUFFICES ASSUME hasLine PROVE text # <<>> /\ ~prevBlank'
      OBVIOUS
    <3>1. format = "mbox" /\ prevBlank /\ Len(line) > 0
      BY <1>5 DEF IsBoundary
    <3>2. line # <<>>
      BY <3>1
    <3> QED
      BY <1>1, <1>3, <3>1, <3>2
  <2>3. Current' = Current
    BY <1>1, <2>1 DEF Current, Deliver
  <2>4. Collected = Characters(text) /\ Collected' = <<>>
    BY <1>1, <2>1 DEF Collected, Closed, Deliver
  <2>5. Characters(text) \in Line /\ Delivered(out) \in Line /\ Current \in Line
    <3>1. Current \in Line
      BY <1>3, CharactersNone DEF Current
    <3> QED
      BY <1>3, <3>1, CharactersNext, CharactersNone, DeliveredNext
  <2>6. CASE text # <<>>
    <3>1. out' = Append(out, text) /\ stage' = "ready"
      <4>1. Len(text) > 0
        BY <1>3, <2>6 DEF Message
      <4> QED
        BY <2>1, <4>1 DEF Deliver
    <3>2. out' \in Seq(Message) /\ Delivered(out') = Delivered(out) \o Characters(text)
      BY <1>3, <3>1, DeliveredNext
    <3>3. ReaderShape'
      BY <1>1, <1>2, <2>1, <3>1, <3>2 DEF ReaderInv, ReaderShape
    <3>4. ReaderPlace'
      BY <1>1, <1>2, <1>3, <2>1, <2>2, <3>1 DEF ReaderPlace, AtEnd
    <3>5. Balanced'
      <4>1. Delivered(out) \o Characters(text) \o <<>> \o Current
              = Delivered(out) \o Characters(text) \o Current
        BY <2>5, Moves
      <4>2. Cut(File, pos - 1)' = Cut(File, pos - 1)
        BY <1>2, <2>1
      <4> QED
        BY <2>3, <2>4, <3>2, <4>1, <4>2, Zenon DEF ReaderInv, Balanced
    <3> QED
      BY <3>3, <3>4, <3>5, Zenon DEF ReaderInv
  <2>7. CASE text = <<>>
    <3>1. out' = out /\ stage' = "done" /\ ~hasLine
      BY <2>1, <2>2, <2>7 DEF Deliver
    <3>2. ReaderShape'
      BY <1>1, <1>2, <2>1, <3>1 DEF ReaderInv, ReaderShape
    <3>3. ReaderPlace'
      BY <1>1, <1>2, <1>3, <2>1, <3>1 DEF ReaderPlace, AtEnd
    <3>4. Balanced'
      <4>1. Characters(text) = <<>>
        BY <2>7, CharactersNone
      <4>2. Cut(File, pos - 1)' = Cut(File, pos - 1) /\ Delivered(out)' = Delivered(out)
        BY <1>2, <2>1, <3>1
      <4> QED
        BY <2>3, <2>4, <4>1, <4>2, Zenon DEF ReaderInv, Balanced
    <3> QED
      BY <3>2, <3>3, <3>4, Zenon DEF ReaderInv
  <2> QED
    BY <2>6, <2>7
<1> QED
  BY <1>4, <1>5

LEMMA LostInit == Init => ReaderInv
<1> SUFFICES ASSUME Init PROVE ReaderInv
  OBVIOUS
<1>1. /\ box \in Box /\ format = "plain" /\ pos = 0 /\ line = <<>> /\ hasLine = FALSE
      /\ prevBlank = FALSE /\ stage = "open" /\ length = 0 /\ text = <<>> /\ out = <<>>
  BY DEF Init
<1>2. Len(File) \in Nat
  BY <1>1, FileOfBox
<1>3. ReaderShape
  <2>1. <<>> \in Seq(Message) /\ <<>> \in Message /\ <<>> \in Line
    BY CharactersNone, EmptySeq, Zenon
  <2>2. pos \in Nat /\ pos <= Len(File) /\ length \in Int
    BY <1>1, <1>2
  <2>3. hasLine \in BOOLEAN /\ line \in Line /\ text \in Message /\ out \in Seq(Message)
    BY <1>1, <2>1, Zenon
  <2> QED
    BY <1>1, <2>2, <2>3, Zenon DEF ReaderShape
<1>4. ReaderPlace
  BY <1>1 DEF ReaderPlace
<1>5. Balanced
  <2>1. [i \in DOMAIN <<>> |-> Characters(<<>>[i])] = <<>>
    OBVIOUS
  <2>2. Delivered(out) = <<>>
    BY <1>1, <2>1, FlatNothing DEF Delivered
  <2>3. Collected = <<>> /\ Current = <<>>
    BY <1>1, CharactersNone DEF Collected, Closed, Current
  <2>4. Cut(File, pos - 1) = <<>>
    BY <1>1, CutNothing
  <2>5. <<>> \o <<>> \o <<>> = <<>>
    OBVIOUS
  <2> QED
    BY <2>2, <2>3, <2>4, <2>5, Zenon DEF Balanced
<1> QED
  BY <1>3, <1>4, <1>5, Zenon DEF ReaderInv

LostIInv == /\ box \in Box
            /\ format # "mbx" => ReaderInv
            /\ stage = "open" => format = "plain"

LEMMA LostStep == LostIInv /\ [MailNext]_vars => LostIInv'
<1> SUFFICES ASSUME LostIInv, [MailNext]_vars PROVE LostIInv'
  OBVIOUS
<1>1. CASE UNCHANGED readerVars
  <2>1. /\ box' = box /\ format' = format /\ pos' = pos /\ line' = line /\ hasLine' = hasLine
        /\ prevBlank' = prevBlank /\ stage' = stage /\ length' = length /\ text' = text
        /\ out' = out
    BY <1>1 DEF readerVars
  <2>2. File' = File
    BY <2>1, SameFile
  <2>3. ReaderShape' = ReaderShape /\ ReaderPlace' = ReaderPlace
    BY <2>1, <2>2 DEF ReaderShape, ReaderPlace, AtEnd
  <2>4. Collected' = Collected /\ Current' = Current /\ Delivered(out)' = Delivered(out)
    BY <2>1 DEF Collected, Current, Closed
  <2>5. Balanced' = Balanced
    BY <2>1, <2>2, <2>4 DEF Balanced
  <2> QED
    BY <2>1, <2>3, <2>5 DEF LostIInv, ReaderInv
<1>2. CASE ReaderNext
  <2>1. box' = box /\ box \in Box
    BY <1>2 DEF LostIInv, ReaderNext, SetStream, ReadMessage, HeadLine, FindContentLength,
                ContentLine, BodyLine, RecordHeader, RecordLine
  <2>2. format # "mbx" => ReaderInv
    BY DEF LostIInv
  <2>3. SetStream => format = "plain"
    BY DEF LostIInv, SetStream
  <2>4. stage' # "open"
    <3>1. SetStream => stage' # "open"
      BY DEF SetStream
    <3>2. ReadMessage => stage' # "open"
      BY DEF ReadMessage
    <3>3. HeadLine \/ FindContentLength \/ ContentLine => stage' # "open"
      BY DEF HeadLine, FindContentLength, ContentLine
    <3>4. BodyLine \/ RecordLine => stage' # "open"
      BY DEF BodyLine, RecordLine, Deliver
    <3>5. RecordHeader => stage' # "open"
      BY DEF RecordHeader
    <3> QED
      BY <1>2, <3>1, <3>2, <3>3, <3>4, <3>5 DEF ReaderNext
  <2>5. ~SetStream => format' = format
    BY <1>2 DEF ReaderNext, ReadMessage, HeadLine, FindContentLength, ContentLine, BodyLine,
                RecordHeader, RecordLine
  <2>6. format' # "mbx" => ReaderInv'
    <3> SUFFICES ASSUME format' # "mbx" PROVE ReaderInv'
      OBVIOUS
    <3>1. ReaderInv
      BY <2>2, <2>3, <2>5
    <3>2. stage \notin {"mbx", "record"}
      BY <3>1 DEF ReaderInv, ReaderShape
    <3>3. ~RecordHeader /\ ~RecordLine
      BY <3>2 DEF RecordHeader, RecordLine
    <3> QED
      BY <1>2, <2>1, <3>1, <3>3, LostSetStream, LostReadMessage, LostHeadLine,
         LostFindContentLength, LostContentLine, LostBodyLine, Zenon DEF ReaderNext
  <2> QED
    BY <2>1, <2>4, <2>6 DEF LostIInv
<1> QED
  BY <1>1, <1>2, Zenon DEF MailNext, Read, BeginMessage, ParseBodyOf, EndMessage, Stop, vars,
                          readerVars

\* Every character of a mailbox that was read is in a message, in its place, once, and
\* nothing else is: the loops of LineReader and of the readers neither lose a line at a
\* boundary or at a length nor take one twice.
THEOREM NothingEverLost == MailSpec => []NothingLost
<1>1. MailInit => LostIInv
  BY LostInit, Zenon DEF MailInit, LostIInv, Init
<1>2. LostIInv => NothingLost
  <2> SUFFICES ASSUME LostIInv, format # "mbx"
               PROVE  /\ Delivered(out) \o Collected \o Current = ReadSoFar
                      /\ stage = "done" => AtEnd(pos)
    BY Zenon DEF NothingLost, Delivered, Collected, Closed, Current
  <2>1. Balanced /\ (stage = "done" => AtEnd(pos))
    BY DEF LostIInv, ReaderInv, ReaderPlace
  <2> QED
    BY <2>1, Zenon DEF Balanced, ReadSoFar, Cut, Piece
<1> QED
  BY <1>1, <1>2, LostStep, PTL DEF MailSpec

-----------------------------------------------------------------------------
(* More about flattening *)

LEMMA FlatConcat ==
  ASSUME NEW S, NEW ss \in Seq(Seq(S)), NEW tt \in Seq(Seq(S))
  PROVE  FlattenSeq(ss \o tt) = FlattenSeq(ss) \o FlattenSeq(tt)
<1> DEFINE T == Seq(S)
           Right(uu) == FlattenSeq(ss \o uu) = FlattenSeq(ss) \o FlattenSeq(uu)
           Wrong == {n \in Nat : \E uu \in Seq(Seq(S)) : Len(uu) = n /\ ~Right(uu)}
<1> SUFFICES ASSUME Wrong # {} PROVE FALSE
  <2>1. Len(tt) \in Nat
    OBVIOUS
  <2> QED
    BY <2>1
<1>1. PICK n \in Wrong : \A m \in Wrong : n <= m
  <2>1. Wrong \subseteq Nat
    OBVIOUS
  <2> HIDE DEF Wrong
  <2> QED
    BY <2>1, Smallest
<1>2. PICK uu \in Seq(Seq(S)) : Len(uu) = n /\ ~Right(uu)
  BY <1>1
<1>3. FlattenSeq(ss) \in T
  BY FlatType
<1>4. uu # <<>>
  <2> SUFFICES ASSUME uu = <<>> PROVE FALSE
    OBVIOUS
  <2>1. ss \o uu = ss
    BY EmptySeq
  <2>2. FlattenSeq(ss) \o <<>> = FlattenSeq(ss)
    BY <1>3
  <2> QED
    BY <1>2, <2>1, <2>2, FlatNothing
<1> DEFINE front == Front(uu)
           last == Last(uu)
<1>5. /\ front \in Seq(Seq(S)) /\ last \in Seq(S) /\ uu = Append(front, last)
      /\ Len(front) = Len(uu) - 1 /\ FlattenSeq(uu) = FlattenSeq(front) \o last
  BY <1>4, FlatLast
<1> HIDE DEF front, last
<1>6. Right(front)
  <2>1. Len(front) \in Nat /\ ~(n <= Len(front))
    <3>1. Len(front) \in Nat
      BY <1>5, LenProperties
    <3> HIDE DEF Right, Wrong
    <3> QED
      BY <1>2, <1>5, <3>1
  <2>2. Len(front) \notin Wrong
    <3> HIDE DEF Wrong
    <3> QED
      BY <1>1, <2>1
  <2> QED
    BY <1>5, <2>1, <2>2
<1> HIDE DEF T, Wrong, Right
<1>7. ss \in Seq(T) /\ front \in Seq(T) /\ last \in T /\ FlattenSeq(front) \in T
  BY <1>5, FlatType DEF T
<1>8. ss \o uu = Append(ss \o front, last) /\ ss \o front \in Seq(T)
  BY <1>5, <1>7
<1>9. FlattenSeq(ss \o uu) = FlattenSeq(ss \o front) \o last
  BY <1>7, <1>8, FlatAppend DEF T
<1>10. (FlattenSeq(ss) \o FlattenSeq(front)) \o last = FlattenSeq(ss) \o (FlattenSeq(front) \o last)
  <2> DEFINE a == FlattenSeq(ss)
             b == FlattenSeq(front)
  <2>1. a \in Seq(S) /\ b \in Seq(S) /\ last \in Seq(S)
    BY <1>3, <1>7 DEF T
  <2> HIDE DEF a, b
  <2>2. (a \o b) \o last = a \o (b \o last)
    BY <2>1
  <2> QED
    BY <2>2 DEF a, b
<1> QED
  BY <1>2, <1>5, <1>6, <1>9, <1>10, Zenon DEF Right

LEMMA FlatEmpties ==
  ASSUME NEW S, NEW ss \in Seq(Seq(S)), \A i \in 1 .. Len(ss) : ss[i] = <<>>
  PROVE  FlattenSeq(ss) = <<>>
<1> DEFINE T == Seq(S)
           Empty(uu) == \A i \in 1 .. Len(uu) : uu[i] = <<>>
           Wrong == {n \in Nat : \E uu \in Seq(Seq(S)) :
                                   Len(uu) = n /\ Empty(uu) /\ FlattenSeq(uu) # <<>>}
<1> SUFFICES ASSUME Wrong # {} PROVE FALSE
  <2>1. Len(ss) \in Nat
    OBVIOUS
  <2> QED
    BY <2>1
<1>1. PICK n \in Wrong : \A m \in Wrong : n <= m
  <2>1. Wrong \subseteq Nat
    OBVIOUS
  <2> HIDE DEF Wrong
  <2> QED
    BY <2>1, Smallest
<1>2. PICK uu \in Seq(Seq(S)) : Len(uu) = n /\ Empty(uu) /\ FlattenSeq(uu) # <<>>
  BY <1>1
<1>3. uu # <<>>
  BY <1>2, FlatNothing
<1> DEFINE front == Front(uu)
           last == Last(uu)
<1>4. /\ front \in Seq(Seq(S)) /\ last \in Seq(S) /\ uu = Append(front, last)
      /\ Len(front) = Len(uu) - 1 /\ FlattenSeq(uu) = FlattenSeq(front) \o last
  BY <1>3, FlatLast
<1> HIDE DEF front, last
<1>5. last = <<>> /\ Empty(front)
  <2>1. front \in Seq(T) /\ last \in T
    BY <1>4
  <2> HIDE DEF T
  <2>2. Len(uu) \in 1 .. Len(uu) /\ uu[Len(uu)] = last
    BY <1>4, <2>1
  <2>3. \A i \in 1 .. Len(front) : i \in 1 .. Len(uu) /\ front[i] = uu[i]
    BY <1>4, <2>1
  <2> QED
    BY <1>2, <2>2, <2>3
<1>6. FlattenSeq(front) = <<>>
  <2>1. Len(front) \in Nat /\ ~(n <= Len(front))
    BY <1>2, <1>4
  <2>2. Len(front) \notin Wrong
    <3> HIDE DEF Wrong
    <3> QED
      BY <1>1, <2>1
  <2> HIDE DEF Empty
  <2> QED
    BY <1>4, <1>5, <2>1, <2>2
<1> QED
  BY <1>2, <1>4, <1>5, <1>6

\* A sequence is flattened piece by piece.
LEMMA FlatSplit ==
  ASSUME NEW S, NEW ss \in Seq(Seq(S)), NEW l \in Nat, NEW m \in l .. Len(ss),
         NEW n \in m .. Len(ss)
  PROVE  /\ SubSeq(ss, l + 1, n) \in Seq(Seq(S))
         /\ FlattenSeq(SubSeq(ss, l + 1, n))
              = FlattenSeq(SubSeq(ss, l + 1, m)) \o FlattenSeq(SubSeq(ss, m + 1, n))
<1> DEFINE T == Seq(S)
<1>1. ss \in Seq(T)
  OBVIOUS
<1> HIDE DEF T
<1>2. SubSeq(ss, l + 1, m) \in Seq(T) /\ SubSeq(ss, m + 1, n) \in Seq(T)
  BY <1>1
<1>3. SubSeq(ss, l + 1, n) = SubSeq(ss, l + 1, m) \o SubSeq(ss, m + 1, n)
  BY <1>1
<1>4. SubSeq(ss, l + 1, n) \in Seq(T)
  BY <1>1
<1> QED
  BY <1>2, <1>3, <1>4, FlatConcat DEF T

-----------------------------------------------------------------------------
(* The lines of a part *)

\* The lines that are not blank, each in a sequence of its own.
Fill(lines) == [k \in DOMAIN lines |-> IF lines[k] # Blank THEN <<lines[k]>> ELSE <<>>]

LEMMA FillIs ==
  ASSUME NEW S, NEW lines \in Seq(S)
  PROVE  /\ Fill(lines) \in Seq(Seq(S)) /\ Len(Fill(lines)) = Len(lines)
         /\ \A k \in 1 .. Len(lines) :
              Fill(lines)[k] = IF lines[k] # Blank THEN <<lines[k]>> ELSE <<>>
         /\ Filled(lines) = FlattenSeq(Fill(lines))
<1> DEFINE T == Seq(S)
           n == Len(lines)
           piece(k) == IF lines[k] # Blank THEN <<lines[k]>> ELSE <<>>
<1>1. n \in Nat /\ DOMAIN lines = 1 .. n
  OBVIOUS
<1>2. \A k \in 1 .. n : piece(k) \in T
  OBVIOUS
<1> HIDE DEF T, piece
<1>3. Fill(lines) = [k \in 1 .. n |-> piece(k)]
  BY <1>1 DEF Fill, piece
<1>4. Fill(lines) \in Seq(T) /\ Len(Fill(lines)) = n
  BY <1>1, <1>2, <1>3
<1>5. \A k \in 1 .. n : Fill(lines)[k] = piece(k)
  BY <1>3
<1>6. Filled(lines) = FlattenSeq(Fill(lines))
  BY Zenon DEF Filled, Fill
<1> QED
  BY <1>4, <1>5, <1>6, Zenon DEF T, piece

LEMMA FilledCut ==
  ASSUME NEW S, NEW lines \in Seq(S), NEW l \in 0 .. Len(lines), NEW n \in l .. Len(lines)
  PROVE  Filled(SubSeq(lines, l + 1, n)) = FlattenSeq(SubSeq(Fill(lines), l + 1, n))
<1> DEFINE T == Seq(S)
           cut == SubSeq(lines, l + 1, n)
           piece(k) == IF lines[k] # Blank THEN <<lines[k]>> ELSE <<>>
<1>1. /\ cut \in Seq(S) /\ Len(cut) = n - l
      /\ \A k \in 1 .. n - l : cut[k] = lines[l + k]
  OBVIOUS
<1> HIDE DEF cut
<1>2. /\ Fill(cut) \in Seq(T) /\ Len(Fill(cut)) = n - l
      /\ \A k \in 1 .. n - l : Fill(cut)[k] = IF cut[k] # Blank THEN <<cut[k]>> ELSE <<>>
      /\ Filled(cut) = FlattenSeq(Fill(cut))
  BY <1>1, FillIs
<1>3. /\ Fill(lines) \in Seq(T) /\ Len(Fill(lines)) = Len(lines)
      /\ \A k \in 1 .. Len(lines) : Fill(lines)[k] = piece(k)
  BY FillIs
<1>4. \A k \in 1 .. n - l : Fill(cut)[k] = Fill(lines)[l + k]
  <2> SUFFICES ASSUME NEW k \in 1 .. n - l PROVE Fill(cut)[k] = Fill(lines)[l + k]
    OBVIOUS
  <2>1. l + k \in 1 .. Len(lines)
    OBVIOUS
  <2> QED
    BY <1>1, <1>2, <1>3, <2>1
<1> HIDE DEF T, piece
<1>5. Fill(cut) = SubSeq(Fill(lines), l + 1, n)
  <2> DEFINE f == Fill(lines)
             g == Fill(cut)
  <2>1. f \in Seq(T) /\ g \in Seq(T) /\ Len(f) = Len(lines) /\ Len(g) = n - l
        /\ \A k \in 1 .. n - l : g[k] = f[l + k]
    BY <1>2, <1>3, <1>4
  <2>2. Len(lines) \in Nat
    OBVIOUS
  <2> HIDE DEF f, g
  <2>3. g = SubSeq(f, l + 1, n)
    BY <2>1, <2>2
  <2> QED
    BY <2>3 DEF f, g
<1> QED
  BY <1>2, <1>5 DEF cut

LEMMA NextLineIs ==
  ASSUME NEW S, NEW lines \in Seq(S), NEW start \in 0 .. Len(lines), NEW blank
  PROVE  /\ NextLine(lines, start, blank) \in start .. Len(lines)
         /\ \A j \in start .. NextLine(lines, start, blank) - 1 :
              (lines[j + 1] = Blank) # blank
<1> DEFINE Fits == {i \in start .. Len(lines) - 1 : (lines[i + 1] = Blank) = blank}
           next == NextLine(lines, start, blank)
<1>0. Len(lines) \in Nat
  OBVIOUS
<1>1. CASE Fits = {}
  <2>1. ~ \E i \in start .. Len(lines) - 1 : (lines[i + 1] = Blank) = blank
    BY <1>1
  <2>2. next = Len(lines)
    BY <2>1 DEF NextLine
  <2> QED
    BY <1>0, <2>1, <2>2
<1>2. CASE Fits # {}
  <2>1. PICK i \in Fits : \A j \in Fits : i <= j
    <3>1. Fits \subseteq Nat
      BY <1>0
    <3> HIDE DEF Fits
    <3> QED
      BY <1>2, <3>1, Smallest
  <2>2. \A j \in start .. i - 1 : (lines[j + 1] = Blank) # blank
    BY <1>0, <2>1
  <2>3. next = CHOOSE k \in start .. Len(lines) - 1 :
                 /\ (lines[k + 1] = Blank) = blank
                 /\ \A j \in start .. k - 1 : (lines[j + 1] = Blank) # blank
    BY <1>2 DEF NextLine
  <2>4. /\ next \in start .. Len(lines) - 1
        /\ \A j \in start .. next - 1 : (lines[j + 1] = Blank) # blank
    BY <2>1, <2>2, <2>3, Zenon
  <2> QED
    BY <1>0, <2>4
<1> QED
  BY <1>1, <1>2

\* A part is its lines without the blank ones around its header.
LEMMA FilledPartOf ==
  ASSUME NEW S, NEW lines \in Seq(S)
  PROVE  FilledPart(PartOf(lines)) = Filled(lines)
<1> DEFINE n == Len(lines)
           hs == SkipToNonBlank(lines, 0)
           he == SkipToBlank(lines, hs)
           bs == SkipToNonBlank(lines, he)
           f == Fill(lines)
           Flat(i, j) == FlattenSeq(SubSeq(f, i + 1, j))
<1>1. n \in Nat
  OBVIOUS
<1>2. hs \in 0 .. n /\ \A j \in 0 .. hs - 1 : lines[j + 1] = Blank
  <2>1. 0 \in 0 .. n
    BY <1>1
  <2>2. /\ NextLine(lines, 0, FALSE) \in 0 .. n
        /\ \A j \in 0 .. NextLine(lines, 0, FALSE) - 1 : (lines[j + 1] = Blank) # FALSE
    BY <2>1, NextLineIs
  <2> QED
    BY <2>2 DEF SkipToNonBlank
<1> HIDE DEF hs
<1>3. he \in hs .. n
  <2>1. NextLine(lines, hs, TRUE) \in hs .. n
    BY <1>2, NextLineIs
  <2> QED
    BY <2>1 DEF SkipToBlank
<1> HIDE DEF he
<1>4. bs \in he .. n /\ \A j \in he .. bs - 1 : lines[j + 1] = Blank
  <2>1. he \in 0 .. n
    BY <1>1, <1>2, <1>3
  <2>2. /\ NextLine(lines, he, FALSE) \in he .. n
        /\ \A j \in he .. NextLine(lines, he, FALSE) - 1 : (lines[j + 1] = Blank) # FALSE
    BY <2>1, NextLineIs
  <2> QED
    BY <2>2 DEF SkipToNonBlank
<1> HIDE DEF bs
<1>5. /\ f \in Seq(Seq(S)) /\ Len(f) = n
      /\ \A k \in 1 .. n : f[k] = IF lines[k] # Blank THEN <<lines[k]>> ELSE <<>>
      /\ Filled(lines) = FlattenSeq(f)
  BY FillIs
<1>6. /\ PartOf(lines).head = SubSeq(lines, hs + 1, he)
      /\ PartOf(lines).body = SubSeq(lines, bs + 1, n)
  <2>1. PartOf(lines) = [head |-> SubLines(lines, hs, he), body |-> SubLines(lines, bs, n)]
    BY Zenon DEF PartOf, hs, he, bs
  <2>2. (IF he < n THEN he ELSE n) = he /\ (IF n < n THEN n ELSE n) = n
    BY <1>1, <1>2, <1>3
  <2>3. SubLines(lines, hs, he) = SubSeq(lines, hs + 1, he)
    BY <2>2 DEF SubLines
  <2>4. SubLines(lines, bs, n) = SubSeq(lines, bs + 1, n)
    BY <2>2 DEF SubLines
  <2> DEFINE p == PartOf(lines)
             h == SubLines(lines, hs, he)
             t == SubLines(lines, bs, n)
  <2>5. p = [head |-> h, body |-> t]
    BY <2>1
  <2> HIDE DEF p, h, t
  <2>6. p.head = h /\ p.body = t
    BY <2>5
  <2> QED
    BY <2>3, <2>4, <2>6, Zenon DEF p, h, t
<1> HIDE DEF f
<1>7. \A i \in 0 .. n, j \in 0 .. n :
        i <= j /\ (\A k \in i .. j - 1 : lines[k + 1] = Blank) => Flat(i, j) = <<>>
  <2> SUFFICES ASSUME NEW i \in 0 .. n, NEW j \in 0 .. n, i <= j,
                      \A k \in i .. j - 1 : lines[k + 1] = Blank
               PROVE  Flat(i, j) = <<>>
    OBVIOUS
  <2> DEFINE T == Seq(S)
             g == SubSeq(f, i + 1, j)
  <2>1. f \in Seq(T)
    BY <1>5
  <2> HIDE DEF T
  <2>2. g \in Seq(T) /\ Len(g) = j - i /\ \A k \in 1 .. j - i : g[k] = f[i + k]
    BY <1>1, <1>5, <2>1
  <2> HIDE DEF g
  <2>3. \A k \in 1 .. Len(g) : g[k] = <<>>
    <3> SUFFICES ASSUME NEW k \in 1 .. j - i PROVE g[k] = <<>>
      BY <2>2
    <3>1. i + k - 1 \in i .. j - 1 /\ (i + k - 1) + 1 = i + k /\ i + k \in 1 .. n
      BY <1>1
    <3>2. lines[i + k] = Blank
      BY <3>1
    <3> QED
      BY <1>5, <2>2, <3>1, <3>2
  <2>4. FlattenSeq(g) = <<>>
    BY <2>2, <2>3, FlatEmpties DEF T
  <2> QED
    BY <2>4 DEF g
<1>8. \A i, j, k \in 0 .. n :
        i <= j /\ j <= k => Flat(i, k) = Flat(i, j) \o Flat(j, k) /\ Flat(i, k) \in Seq(S)
  <2> SUFFICES ASSUME NEW i \in 0 .. n, NEW j \in 0 .. n, NEW k \in 0 .. n, i <= j, j <= k
               PROVE  Flat(i, k) = Flat(i, j) \o Flat(j, k) /\ Flat(i, k) \in Seq(S)
    OBVIOUS
  <2>1. i \in Nat /\ j \in i .. Len(f) /\ k \in j .. Len(f)
    BY <1>1, <1>5
  <2>2. SubSeq(f, i + 1, k) \in Seq(Seq(S)) /\ Flat(i, k) = Flat(i, j) \o Flat(j, k)
    BY <1>5, <2>1, FlatSplit
  <2>3. Flat(i, k) \in Seq(S)
    BY <2>2, FlatType
  <2> QED
    BY <2>2, <2>3
<1> HIDE DEF Flat
<1>9. hs \in 0 .. n /\ he \in 0 .. n /\ bs \in 0 .. n /\ 0 \in 0 .. n /\ n \in 0 .. n
      /\ 0 <= hs /\ hs <= he /\ he <= bs /\ bs <= n /\ he <= n /\ hs <= n
  BY <1>1, <1>2, <1>3, <1>4
<1>10. Flat(0, hs) = <<>> /\ Flat(he, bs) = <<>>
  BY <1>2, <1>4, <1>7, <1>9
<1>11. Flat(0, n) = <<>> \o Flat(hs, n) /\ Flat(hs, n) \in Seq(S)
  <2>1. Flat(0, n) = Flat(0, hs) \o Flat(hs, n)
    BY <1>8, <1>9
  <2>2. Flat(hs, n) \in Seq(S)
    BY <1>8, <1>9
  <2> QED
    BY <1>10, <2>1, <2>2, Zenon
<1>12. Flat(hs, n) = Flat(hs, he) \o Flat(he, n)
  BY <1>8, <1>9
<1>13. Flat(he, n) = <<>> \o Flat(bs, n) /\ Flat(bs, n) \in Seq(S)
  <2>1. Flat(he, n) = Flat(he, bs) \o Flat(bs, n)
    BY <1>8, <1>9
  <2>2. Flat(bs, n) \in Seq(S)
    BY <1>8, <1>9
  <2> QED
    BY <1>10, <2>1, <2>2, Zenon
<1>14. Flat(0, n) = Flat(hs, he) \o Flat(bs, n)
  BY <1>11, <1>12, <1>13
<1>15. Filled(PartOf(lines).head) = Flat(hs, he) /\ Filled(PartOf(lines).body) = Flat(bs, n)
  <2>1. Filled(SubSeq(lines, hs + 1, he)) = FlattenSeq(SubSeq(f, hs + 1, he))
    BY <1>2, <1>3, FilledCut DEF f
  <2>2. bs \in 0 .. n /\ n \in bs .. n
    BY <1>1, <1>9
  <2>3. Filled(SubSeq(lines, bs + 1, n)) = FlattenSeq(SubSeq(f, bs + 1, n))
    BY <2>2, FilledCut DEF f
  <2> QED
    BY <1>6, <2>1, <2>3 DEF Flat
<1>16. Flat(0, n) = Filled(lines)
  <2> DEFINE T == Seq(S)
  <2>1. f \in Seq(T)
    BY <1>5
  <2> HIDE DEF T
  <2>2. SubSeq(f, 0 + 1, n) = f
    BY <1>5, <2>1
  <2> QED
    BY <1>5, <2>2 DEF Flat
<1> QED
  BY <1>14, <1>15, <1>16 DEF FilledPart

-----------------------------------------------------------------------------
(* Where a part ends, and the parts of a body.  PartsForBoundary looks at each line *)
(* once; what it has after n lines is what is kept up to the next boundary. *)

LEMMA UntilIs ==
  ASSUME NEW S, NEW lines \in Seq(S), NEW b, NEW i \in 0 .. Len(lines)
  PROVE  /\ Until(lines, b, i) \in i .. Len(lines)
         /\ \A j \in i .. Until(lines, b, i) - 1 : ~Marker(lines[j + 1], b)
         /\ Until(lines, b, i) < Len(lines) => Marker(lines[Until(lines, b, i) + 1], b)
<1> DEFINE Fits == {j \in i .. Len(lines) - 1 : Marker(lines[j + 1], b)}
           u == Until(lines, b, i)
<1>0. Len(lines) \in Nat
  OBVIOUS
<1>1. CASE Fits = {}
  <2>1. \A j \in i .. Len(lines) - 1 : ~Marker(lines[j + 1], b)
    BY <1>1
  <2>2. u = Len(lines)
    BY <2>1, Zenon DEF Until
  <2> QED
    BY <1>0, <2>1, <2>2
<1>2. CASE Fits # {}
  <2>1. PICK j \in Fits : \A k \in Fits : j <= k
    <3>1. Fits \subseteq Nat
      BY <1>0
    <3> HIDE DEF Fits
    <3> QED
      BY <1>2, <3>1, Smallest
  <2>2. \A k \in i .. j - 1 : ~Marker(lines[k + 1], b)
    BY <1>0, <2>1
  <2>3. u = CHOOSE k \in i .. Len(lines) - 1 :
                 /\ Marker(lines[k + 1], b)
                 /\ \A l \in i .. k - 1 : ~Marker(lines[l + 1], b)
    BY <1>2, Zenon DEF Until
  <2>4. /\ u \in i .. Len(lines) - 1 /\ Marker(lines[u + 1], b)
        /\ \A k \in i .. u - 1 : ~Marker(lines[k + 1], b)
    BY <2>1, <2>2, <2>3, Zenon
  <2> QED
    BY <1>0, <2>4
<1> QED
  BY <1>1, <1>2

LEMMA UntilNext ==
  ASSUME NEW S, NEW lines \in Seq(S), NEW b, NEW n \in 1 .. Len(lines)
  PROVE  Until(lines, b, n - 1) = IF Marker(lines[n], b) THEN n - 1 ELSE Until(lines, b, n)
<1> DEFINE u == Until(lines, b, n - 1)
           v == Until(lines, b, n)
           m == Len(lines)
           mark(k) == Marker(lines[k], b)
<1>1. m \in Nat /\ n - 1 \in 0 .. m /\ n \in 0 .. m /\ (n - 1) + 1 = n
  OBVIOUS
<1>2. /\ u \in n - 1 .. m /\ \A j \in n - 1 .. u - 1 : ~mark(j + 1)
      /\ u < m => mark(u + 1)
  BY <1>1, UntilIs
<1>3. /\ v \in n .. m /\ \A j \in n .. v - 1 : ~mark(j + 1)
      /\ v < m => mark(v + 1)
  BY <1>1, UntilIs
<1> HIDE DEF u, v, m, mark
<1>4. CASE mark(n)
  <2>1. u = n - 1
    <3> SUFFICES ASSUME u # n - 1 PROVE FALSE
      OBVIOUS
    <3>1. n - 1 \in n - 1 .. u - 1
      BY <1>1, <1>2
    <3> QED
      BY <1>1, <1>2, <1>4, <3>1
  <2> QED
    BY <1>4, <2>1 DEF u, v, mark
<1>5. CASE ~mark(n)
  <2>1. u \in n .. m
    <3> SUFFICES ASSUME u = n - 1 PROVE FALSE
      BY <1>1, <1>2
    <3> QED
      BY <1>1, <1>2, <1>5
  <2>2. ~(u < v)
    <3> SUFFICES ASSUME u < v PROVE FALSE
      OBVIOUS
    <3>1. u \in n .. v - 1 /\ u < m
      BY <1>1, <1>3, <2>1
    <3> QED
      BY <1>2, <1>3, <3>1
  <2>3. ~(v < u)
    <3> SUFFICES ASSUME v < u PROVE FALSE
      OBVIOUS
    <3>1. v \in n - 1 .. u - 1 /\ v < m
      BY <1>1, <1>2, <1>3
    <3> QED
      BY <1>2, <1>3, <3>1
  <2>4. u = v
    BY <1>1, <1>3, <2>1, <2>2, <2>3
  <2> QED
    BY <1>5, <2>4 DEF u, v, mark
<1> QED
  BY <1>4, <1>5

-----------------------------------------------------------------------------
StartsPart(lines, b, i) == /\ lines[i] = PartLine(b)
                           /\ \A k \in 1 .. i : lines[k] # EndLine(b)
                           /\ Until(lines, b, i) > i
PartFrom(lines, b, i) == PartOf(SubLines(lines, i, Until(lines, b, i)))
Starting(lines, b) == [i \in DOMAIN lines |->
                         IF StartsPart(lines, b, i) THEN <<PartFrom(lines, b, i)>> ELSE <<>>]
Keeping(lines, b) == [k \in DOMAIN lines |->
                        IF Between(lines, b, k) THEN <<lines[k]>> ELSE <<>>]

LEMMA FlatOne == ASSUME NEW S, NEW s \in Seq(S) PROVE FlattenSeq(<<s>>) = s
<1> DEFINE T == Seq(S)
<1>1. <<>> \in Seq(T)
  BY EmptySeq
<1>2. s \in T
  OBVIOUS
<1>3. <<>> \o s = s
  OBVIOUS
<1> HIDE DEF T
<1>4. Append(<<>>, s) = <<s>>
  BY <1>2
<1>5. FlattenSeq(Append(<<>>, s)) = FlattenSeq(<<>>) \o s
  BY <1>1, <1>2, FlatAppend DEF T
<1> QED
  BY <1>3, <1>4, <1>5, FlatNothing

LEMMA OneLong ==
  ASSUME NEW T, NEW s \in Seq(T), NEW n \in 1 .. Len(s)
  PROVE  SubSeq(s, n, n) = <<s[n]>>
<1>1. SubSeq(s, n, n) = SubSeq(s, n, n - 1) \o <<s[n]>>
  BY SubSeqRecursiveSecond
<1>2. SubSeq(s, n, n - 1) = <<>>
  OBVIOUS
<1>3. <<>> \o <<s[n]>> = <<s[n]>>
  <2>1. <<s[n]>> \in Seq(T)
    OBVIOUS
  <2> QED
    BY <2>1
<1> QED
  BY <1>1, <1>2, <1>3

\* What a sequence of pieces flattens to, one piece further.
LEMMA FlatStep ==
  ASSUME NEW S, NEW ss \in Seq(Seq(S)), NEW n \in 1 .. Len(ss)
  PROVE  /\ FlattenSeq(SubSeq(ss, 1, n - 1)) \in Seq(S)
         /\ ss[n] \in Seq(S)
         /\ FlattenSeq(SubSeq(ss, 1, n)) = FlattenSeq(SubSeq(ss, 1, n - 1)) \o ss[n]
<1> DEFINE T == Seq(S)
<1>0. ss \in Seq(T)
  OBVIOUS
<1> HIDE DEF T
<1>1. 0 \in Nat /\ n - 1 \in 0 .. Len(ss) /\ n \in n - 1 .. Len(ss) /\ 0 + 1 = 1 /\ (n - 1) + 1 = n
      /\ 0 \in 0 .. Len(ss)
  BY <1>0
<1>2. FlattenSeq(SubSeq(ss, 1, n)) = FlattenSeq(SubSeq(ss, 1, n - 1)) \o FlattenSeq(SubSeq(ss, n, n))
  <2> DEFINE z == 0
             k == n - 1
  <2>1. z \in Nat /\ k \in z .. Len(ss) /\ n \in k .. Len(ss)
    BY <1>1
  <2>2. z + 1 = 1 /\ k + 1 = n
    BY <1>1
  <2> HIDE DEF z, k
  <2>3. FlattenSeq(SubSeq(ss, z + 1, n))
          = FlattenSeq(SubSeq(ss, z + 1, k)) \o FlattenSeq(SubSeq(ss, k + 1, n))
    BY <2>1, FlatSplit
  <2>4. FlattenSeq(SubSeq(ss, 1, n))
          = FlattenSeq(SubSeq(ss, 1, k)) \o FlattenSeq(SubSeq(ss, n, n))
    BY <2>2, <2>3
  <2> QED
    BY <2>4 DEF k
<1>3. SubSeq(ss, n, n) = <<ss[n]>> /\ ss[n] \in T /\ SubSeq(ss, 1, n - 1) \in Seq(T)
  <2>1. Len(ss) \in Nat /\ n \in Nat /\ n - 1 <= Len(ss)
    BY <1>0
  <2>2. ss[n] \in T
    BY <1>0
  <2>3. SubSeq(ss, n, n) = <<ss[n]>>
    BY <1>0, OneLong
  <2>4. SubSeq(ss, 1, n - 1) \in Seq(T)
    BY <1>0, <2>1
  <2> QED
    BY <2>2, <2>3, <2>4
<1>4. FlattenSeq(<<ss[n]>>) = ss[n]
  BY <1>3, FlatOne DEF T
<1>5. FlattenSeq(SubSeq(ss, 1, n - 1)) \in Seq(S)
  BY <1>3, FlatType DEF T
<1> QED
  BY <1>2, <1>3, <1>4, <1>5 DEF T

FilledIn(Q, S) == \A q \in Q : FilledPart(q) \in Seq(S)

LEMMA FilledPartsNext ==
  ASSUME NEW S, NEW Q, FilledIn(Q, S),
         NEW ps \in Seq(Q), NEW p \in Q
  PROVE  /\ FilledParts(ps) \in Seq(S)
         /\ FilledParts(Append(ps, p)) = FilledParts(ps) \o FilledPart(p)
<1> DEFINE T == Seq(S)
           oo == Append(ps, p)
           ss == [i \in DOMAIN ps |-> FilledPart(ps[i])]
           tt == [i \in DOMAIN oo |-> FilledPart(oo[i])]
<1>1. \A q \in Q : FilledPart(q) \in T
  BY DEF FilledIn
<1> HIDE DEF T
<1>2. ss \in Seq(T) /\ Len(ss) = Len(ps) /\ Len(ps) \in Nat
  <2>1. \A i \in 1 .. Len(ps) : FilledPart(ps[i]) \in T
    BY <1>1
  <2>2. DOMAIN ps = 1 .. Len(ps) /\ Len(ps) \in Nat
    OBVIOUS
  <2>3. ss = [i \in 1 .. Len(ps) |-> FilledPart(ps[i])]
    BY <2>2
  <2> QED
    BY <2>1, <2>2, <2>3
<1>3. tt = Append(ss, FilledPart(p))
  <2>1. /\ Len(oo) = Len(ps) + 1 /\ oo[Len(ps) + 1] = p
        /\ \A i \in 1 .. Len(ps) : oo[i] = ps[i]
        /\ DOMAIN oo = 1 .. Len(ps) + 1
    OBVIOUS
  <2>2. /\ DOMAIN tt = 1 .. Len(ps) + 1
        /\ \A i \in 1 .. Len(ps) : tt[i] = ss[i]
        /\ tt[Len(ps) + 1] = FilledPart(p)
    BY <1>2, <2>1
  <2>3. tt = [i \in 1 .. Len(ps) + 1 |-> tt[i]]
    BY <2>1
  <2>4. FilledPart(p) \in T
    BY <1>1
  <2>5. \A i \in 1 .. Len(ps) : tt[i] \in T
    <3> HIDE DEF ss, tt
    <3>1. \A i \in 1 .. Len(ps) : ss[i] \in T
      BY <1>2
    <3> QED
      BY <2>2, <3>1
  <2>6. tt \in Seq(T)
    BY <1>2, <2>2, <2>3, <2>4, <2>5
  <2>7. Len(tt) = Len(ps) + 1
    BY <1>2, <2>2, <2>6
  <2> HIDE DEF tt, ss, oo
  <2>8. Len(Append(ss, FilledPart(p))) = Len(ps) + 1
    BY <1>2, <2>4
  <2> QED
    BY <1>2, <2>2, <2>4, <2>6, <2>7, <2>8
<1> HIDE DEF ss, tt
<1>4. FilledPart(p) \in T
  BY <1>1
<1>5. FlattenSeq(ss) \in Seq(S) /\ FlattenSeq(tt) = FlattenSeq(ss) \o FilledPart(p)
  BY <1>2, <1>3, <1>4, FlatType, FlatAppend DEF T
<1>6. FilledParts(ps) = FlattenSeq(ss) /\ FilledParts(oo) = FlattenSeq(tt)
  BY Zenon DEF FilledParts, ss, tt
<1> HIDE DEF oo
<1>7. FilledParts(ps) \in Seq(S) /\ FilledParts(oo) = FilledParts(ps) \o FilledPart(p)
  BY <1>5, <1>6
<1> QED
  BY <1>7 DEF oo

LEMMA KeepingIs ==
  ASSUME NEW S, NEW lines \in Seq(S), NEW b
  PROVE  /\ Keeping(lines, b) \in Seq(Seq(S)) /\ Len(Keeping(lines, b)) = Len(lines)
         /\ \A k \in 1 .. Len(lines) :
              Keeping(lines, b)[k] = IF Between(lines, b, k) THEN <<lines[k]>> ELSE <<>>
         /\ LinesBetween(lines, b) = FlattenSeq(Keeping(lines, b))
<1> DEFINE T == Seq(S)
           n == Len(lines)
           piece(k) == IF Between(lines, b, k) THEN <<lines[k]>> ELSE <<>>
<1>1. n \in Nat /\ DOMAIN lines = 1 .. n
  OBVIOUS
<1>2. \A k \in 1 .. n : piece(k) \in T
  OBVIOUS
<1> HIDE DEF T, piece
<1>3. Keeping(lines, b) = [k \in 1 .. n |-> piece(k)]
  BY <1>1 DEF Keeping, piece
<1>4. Keeping(lines, b) \in Seq(T) /\ Len(Keeping(lines, b)) = n
  BY <1>1, <1>2, <1>3
<1>5. \A k \in 1 .. n : Keeping(lines, b)[k] = piece(k)
  BY <1>3
<1>6. LinesBetween(lines, b) = FlattenSeq(Keeping(lines, b))
  BY Zenon DEF LinesBetween, Keeping
<1> QED
  BY <1>4, <1>5, <1>6, Zenon DEF T, piece

LEMMA StartingIs ==
  ASSUME NEW S, NEW lines \in Seq(S), NEW b
  PROVE  LET Q == {PartFrom(lines, b, i) : i \in 1 .. Len(lines)}
         IN /\ Starting(lines, b) \in Seq(Seq(Q)) /\ Len(Starting(lines, b)) = Len(lines)
            /\ \A k \in 1 .. Len(lines) :
                 Starting(lines, b)[k] = IF StartsPart(lines, b, k)
                                         THEN <<PartFrom(lines, b, k)>> ELSE <<>>
            /\ PartsForBoundary(lines, b) = FlattenSeq(Starting(lines, b))
<1> DEFINE Q == {PartFrom(lines, b, i) : i \in 1 .. Len(lines)}
           T == Seq(Q)
           n == Len(lines)
           piece(k) == IF StartsPart(lines, b, k) THEN <<PartFrom(lines, b, k)>> ELSE <<>>
<1>1. n \in Nat /\ DOMAIN lines = 1 .. n
  OBVIOUS
<1>2. \A k \in 1 .. n : PartFrom(lines, b, k) \in Q
  OBVIOUS
<1> HIDE DEF Q
<1>3. \A k \in 1 .. n : piece(k) \in T
  BY <1>2
<1> HIDE DEF T, piece
<1>4. Starting(lines, b) = [k \in 1 .. n |-> piece(k)]
  BY <1>1 DEF Starting, piece
<1>5. Starting(lines, b) \in Seq(T) /\ Len(Starting(lines, b)) = n
  BY <1>1, <1>3, <1>4
<1>6. \A k \in 1 .. n : Starting(lines, b)[k] = piece(k)
  BY <1>4
<1>7. PartsForBoundary(lines, b) = FlattenSeq(Starting(lines, b))
  BY Zenon DEF PartsForBoundary, Starting, StartsPart, PartFrom
<1> QED
  BY <1>5, <1>6, <1>7, Zenon DEF Q, T, piece

\* What the part that starts at a boundary has of the lines.
LEMMA FilledPartFrom ==
  ASSUME NEW S, NEW lines \in Seq(S), NEW b, NEW i \in 1 .. Len(lines)
  PROVE  /\ FilledPart(PartFrom(lines, b, i))
              = FlattenSeq(SubSeq(Fill(lines), i + 1, Until(lines, b, i)))
         /\ FilledPart(PartFrom(lines, b, i)) \in Seq(S)
<1> DEFINE u == Until(lines, b, i)
           cut == SubSeq(lines, i + 1, u)
<1>1. Len(lines) \in Nat /\ i \in 0 .. Len(lines)
  OBVIOUS
<1>2. u \in i .. Len(lines)
  BY <1>1, UntilIs
<1>3. SubLines(lines, i, u) = cut
  <2>1. (IF u < Len(lines) THEN u ELSE Len(lines)) = u
    BY <1>1, <1>2
  <2> QED
    BY <2>1 DEF SubLines
<1>4. cut \in Seq(S)
  BY <1>1, <1>2
<1>5. FilledPart(PartOf(cut)) = Filled(cut)
  BY <1>4, FilledPartOf
<1>6. Filled(cut) = FlattenSeq(SubSeq(Fill(lines), i + 1, u))
  BY <1>1, <1>2, FilledCut
<1>7. Filled(cut) \in Seq(S)
  <2>1. Fill(cut) \in Seq(Seq(S)) /\ Filled(cut) = FlattenSeq(Fill(cut))
    BY <1>4, FillIs
  <2> QED
    BY <2>1, FlatType
<1> QED
  BY <1>3, <1>5, <1>6, <1>7 DEF PartFrom

\* A boundary is kept in no part.  After one the lines to the next are all kept, or none.
LEMMA KeptFromBoundary ==
  ASSUME NEW S, NEW lines \in Seq(S), NEW b, NEW n \in 1 .. Len(lines), Marker(lines[n], b)
  PROVE  FlattenSeq(SubSeq(Keeping(lines, b), n, Until(lines, b, n)))
           = IF StartsPart(lines, b, n) THEN FilledPart(PartFrom(lines, b, n)) ELSE <<>>
<1> DEFINE T == Seq(S)
           m == Len(lines)
           u == Until(lines, b, n)
           g == Keeping(lines, b)
           f == Fill(lines)
<1>1. m \in Nat /\ n \in 0 .. m /\ n - 1 \in Nat
  OBVIOUS
<1>2. u \in n .. m /\ \A j \in n .. u - 1 : ~Marker(lines[j + 1], b)
  BY <1>1, UntilIs
<1>3. /\ g \in Seq(Seq(S)) /\ Len(g) = m
      /\ \A k \in 1 .. m : g[k] = IF Between(lines, b, k) THEN <<lines[k]>> ELSE <<>>
  BY KeepingIs
<1>4. /\ f \in Seq(Seq(S)) /\ Len(f) = m
      /\ \A k \in 1 .. m : f[k] = IF lines[k] # Blank THEN <<lines[k]>> ELSE <<>>
  BY FillIs
<1> HIDE DEF u, m, g, f
<1>5. \A k \in n + 1 .. u : k \in 1 .. m /\ ~Marker(lines[k], b)
  <2> SUFFICES ASSUME NEW k \in n + 1 .. u PROVE k \in 1 .. m /\ ~Marker(lines[k], b)
    OBVIOUS
  <2>1. k - 1 \in n .. u - 1 /\ (k - 1) + 1 = k
    BY <1>1, <1>2
  <2>2. ~Marker(lines[(k - 1) + 1], b)
    BY <1>2, <2>1
  <2> QED
    BY <1>1, <1>2, <2>1, <2>2
<1>6. g[n] = <<>>
  <2>1. ~Between(lines, b, n)
    <3>1. n \in 1 .. n
      BY <1>1
    <3> QED
      BY <3>1, Zenon DEF Between, Marker
  <2>2. n \in 1 .. m
    BY DEF m
  <2> QED
    BY <1>3, <2>1, <2>2
<1>7. FlattenSeq(SubSeq(g, n, u)) = FlattenSeq(SubSeq(g, n + 1, u))
      /\ SubSeq(g, n + 1, u) \in Seq(Seq(S))
  <2>1. n - 1 \in Nat /\ n \in n - 1 .. Len(g) /\ u \in n .. Len(g) /\ (n - 1) + 1 = n
        /\ n \in Nat /\ n \in n .. Len(g) /\ n \in 1 .. Len(g)
    BY <1>1, <1>2, <1>3
  <2>2. FlattenSeq(SubSeq(g, n, u)) = FlattenSeq(SubSeq(g, n, n)) \o FlattenSeq(SubSeq(g, n + 1, u))
    <3> DEFINE k == n - 1
    <3>1. k \in Nat /\ n \in k .. Len(g) /\ k + 1 = n
      BY <2>1
    <3> HIDE DEF k
    <3>2. FlattenSeq(SubSeq(g, k + 1, u))
            = FlattenSeq(SubSeq(g, k + 1, n)) \o FlattenSeq(SubSeq(g, n + 1, u))
      <4>1. /\ g \in Seq(Seq(S)) /\ k \in Nat /\ n \in k .. Len(g)
            /\ u \in n .. Len(g)
        BY <1>3, <2>1, <3>1
      <4> QED
        BY <4>1, FlatSplit
    <3> QED
      BY <3>1, <3>2
  <2>3. SubSeq(g, n, n) = <<g[n]>>
    BY <1>3, <2>1, OneLong
  <2>4. FlattenSeq(<<g[n]>>) = <<>>
    <3>1. <<>> \in Seq(S)
      BY EmptySeq
    <3> QED
      BY <1>6, <3>1, FlatOne
  <2>5. SubSeq(g, n + 1, u) \in Seq(Seq(S))
    BY <1>3, <2>1, FlatSplit
  <2>6. FlattenSeq(SubSeq(g, n + 1, u)) \in Seq(S)
    BY <2>5, FlatType
  <2>7. <<>> \o FlattenSeq(SubSeq(g, n + 1, u)) = FlattenSeq(SubSeq(g, n + 1, u))
    BY <2>6
  <2> QED
    BY <2>2, <2>3, <2>4, <2>5, <2>7
<1>8. CASE StartsPart(lines, b, n)
  <2>1. \A k \in n + 1 .. u : Between(lines, b, k) <=> lines[k] # Blank
    <3> SUFFICES ASSUME NEW k \in n + 1 .. u
                 PROVE  Between(lines, b, k) <=> lines[k] # Blank
      OBVIOUS
    <3>1. lines[k] # PartLine(b)
      BY <1>5 DEF Marker
    <3>2. n \in 1 .. k /\ lines[n] = PartLine(b)
      BY <1>1, <1>5, <1>8 DEF StartsPart
    <3>3. \A e \in 1 .. k : lines[e] # EndLine(b)
      <4> SUFFICES ASSUME NEW e \in 1 .. k PROVE lines[e] # EndLine(b)
        OBVIOUS
      <4>1. CASE e \in 1 .. n
        BY <1>8, <4>1 DEF StartsPart
      <4>2. CASE e \notin 1 .. n
        <5>1. e \in n + 1 .. u
          BY <1>1, <1>2, <4>2
        <5> QED
          BY <1>5, <5>1 DEF Marker
      <4> QED
        BY <4>1, <4>2
    <3> QED
      BY <3>1, <3>2, <3>3, Zenon DEF Between
  <2>2. SubSeq(g, n + 1, u) = SubSeq(f, n + 1, u)
    <3>1. \A k \in n + 1 .. u : g[k] = f[k]
      BY <1>3, <1>4, <1>5, <2>1
    <3>2. g \in Seq(T) /\ f \in Seq(T)
      BY <1>3, <1>4
    <3> HIDE DEF T
    <3> DEFINE x == SubSeq(g, n + 1, u)
               y == SubSeq(f, n + 1, u)
    <3>3. x \in Seq(T) /\ y \in Seq(T) /\ Len(x) = u - n /\ Len(y) = u - n
      BY <1>1, <1>2, <1>3, <1>4, <3>2
    <3>4. \A i \in 1 .. u - n : x[i] = g[n + i] /\ y[i] = f[n + i]
      BY <1>1, <1>2, <1>3, <1>4, <3>2
    <3>5. \A i \in 1 .. u - n : n + i \in n + 1 .. u
      BY <1>1, <1>2
    <3>6. \A i \in 1 .. u - n : x[i] = y[i]
      BY <3>1, <3>4, <3>5
    <3> HIDE DEF x, y
    <3>7. x = y
      BY <3>3, <3>6
    <3> QED
      BY <3>7 DEF x, y
  <2>3. FilledPart(PartFrom(lines, b, n)) = FlattenSeq(SubSeq(f, n + 1, u))
    BY FilledPartFrom DEF f, u
  <2> QED
    BY <1>7, <1>8, <2>2, <2>3 DEF g, u
<1>9. CASE ~StartsPart(lines, b, n)
  <2>1. \A k \in n + 1 .. u : ~Between(lines, b, k)
    <3> SUFFICES ASSUME NEW k \in n + 1 .. u PROVE ~Between(lines, b, k)
      OBVIOUS
    <3>1. u > n
      BY <1>1, <1>2
    <3>2. \E e \in 1 .. n : lines[e] = EndLine(b)
      <4>1. CASE lines[n] = PartLine(b)
        BY <1>9, <3>1, <4>1 DEF StartsPart, u
      <4>2. CASE lines[n] = EndLine(b)
        <5>1. n \in 1 .. n
          BY <1>1
        <5> QED
          BY <4>2, <5>1
      <4> QED
        BY <4>1, <4>2 DEF Marker
    <3>3. \A e \in 1 .. n : e \in 1 .. k
      BY <1>1, <1>2
    <3> QED
      BY <3>2, <3>3 DEF Between
  <2>2. FlattenSeq(SubSeq(g, n + 1, u)) = <<>>
    <3> DEFINE x == SubSeq(g, n + 1, u)
    <3>1. g \in Seq(T)
      BY <1>3
    <3> HIDE DEF T
    <3>2. Len(x) = u - n /\ \A i \in 1 .. u - n : x[i] = g[n + i]
      <4>1. u <= Len(g) /\ u \in Nat /\ n \in Nat /\ n <= u
        BY <1>1, <1>2, <1>3
      <4> QED
        BY <3>1, <4>1
    <3>3. \A i \in 1 .. u - n : n + i \in n + 1 .. u /\ n + i \in 1 .. m
      BY <1>1, <1>2
    <3>4. \A i \in 1 .. u - n : x[i] = <<>>
      BY <1>3, <2>1, <3>2, <3>3
    <3> HIDE DEF x
    <3>5. x \in Seq(Seq(S))
      BY <1>7 DEF x
    <3>6. FlattenSeq(x) = <<>>
      <4>1. \A i \in 1 .. Len(x) : x[i] = <<>>
        BY <3>2, <3>4
      <4> QED
        BY <3>5, <4>1, FlatEmpties
    <3> QED
      BY <3>6 DEF x
  <2> QED
    BY <1>7, <1>9, <2>2 DEF g, u
<1> QED
  BY <1>8, <1>9

\* The parts that start in the first n lines hold what is kept of the lines up to the
\* boundary after them.
LEMMA PartsHoldLines ==
  ASSUME NEW S, NEW lines \in Seq(S), NEW b
  PROVE  FilledParts(PartsForBoundary(lines, b)) = LinesBetween(lines, b)
<1> DEFINE m == Len(lines)
           Q == {PartFrom(lines, b, i) : i \in 1 .. Len(lines)}
           f == Starting(lines, b)
           g == Keeping(lines, b)
           parts(n) == FlattenSeq(SubSeq(f, 1, n))
           kept(n) == FlattenSeq(SubSeq(g, 1, n))
           u(n) == Until(lines, b, n)
           Right(n) == parts(n) \in Seq(Q) /\ FilledParts(parts(n)) = kept(u(n))
           Wrong == {n \in 0 .. m : ~Right(n)}
<1>1. m \in Nat
  OBVIOUS
<1>2. /\ f \in Seq(Seq(Q)) /\ Len(f) = m /\ PartsForBoundary(lines, b) = FlattenSeq(f)
      /\ \A k \in 1 .. m : f[k] = IF StartsPart(lines, b, k)
                                   THEN <<PartFrom(lines, b, k)>> ELSE <<>>
  BY StartingIs
<1>3. /\ g \in Seq(Seq(S)) /\ Len(g) = m /\ LinesBetween(lines, b) = FlattenSeq(g)
      /\ \A k \in 1 .. m : g[k] = IF Between(lines, b, k) THEN <<lines[k]>> ELSE <<>>
  BY KeepingIs
<1>4. \A n \in 0 .. m : u(n) \in n .. m /\ \A j \in n .. u(n) - 1 : ~Marker(lines[j + 1], b)
  BY UntilIs
<1>5. \A n \in 1 .. m : u(n - 1) = IF Marker(lines[n], b) THEN n - 1 ELSE u(n)
  BY UntilNext
<1>6. \A q \in Q : FilledPart(q) \in Seq(S)
  BY FilledPartFrom
<1>7. \A n \in 1 .. m : PartFrom(lines, b, n) \in Q
  OBVIOUS
<1> HIDE DEF m, Q, f, g, u, Wrong
<1>8. Right(0)
  <2>1. SubSeq(f, 1, 0) = <<>>
    <3> DEFINE T == Seq(Q)
    <3>1. f \in Seq(T)
      BY <1>2
    <3> HIDE DEF T
    <3> QED
      BY <3>1
  <2>2. parts(0) = <<>> /\ <<>> \in Seq(Q)
    BY <2>1, FlatNothing, EmptySeq
  <2>3. FilledParts(<<>>) = <<>>
    <3>1. [k \in DOMAIN <<>> |-> FilledPart(<<>>[k])] = <<>>
      OBVIOUS
    <3> QED
      BY <3>1, FlatNothing DEF FilledParts
  <2>4. kept(u(0)) = <<>>
    <3> DEFINE x == SubSeq(g, 1, u(0))
               T == Seq(S)
    <3>1. u(0) \in 0 .. m /\ \A j \in 0 .. u(0) - 1 : ~Marker(lines[j + 1], b)
      BY <1>1, <1>4
    <3>2. g \in Seq(T)
      BY <1>3
    <3> HIDE DEF T
    <3>3. x \in Seq(T) /\ Len(x) = u(0) /\ \A i \in 1 .. u(0) : x[i] = g[i]
      BY <1>1, <1>3, <3>1, <3>2
    <3>4. \A i \in 1 .. u(0) : ~Marker(lines[i], b)
      <4> SUFFICES ASSUME NEW i \in 1 .. u(0) PROVE ~Marker(lines[i], b)
        OBVIOUS
      <4>1. i - 1 \in 0 .. u(0) - 1 /\ (i - 1) + 1 = i
        BY <1>1, <3>1
      <4>2. ~Marker(lines[(i - 1) + 1], b)
        BY <3>1, <4>1
      <4> QED
        BY <4>1, <4>2
    <3>5. \A i \in 1 .. u(0) : i \in 1 .. m /\ ~Between(lines, b, i)
      <4> SUFFICES ASSUME NEW i \in 1 .. u(0) PROVE i \in 1 .. m /\ ~Between(lines, b, i)
        OBVIOUS
      <4>1. \A c \in 1 .. i : c \in 1 .. u(0)
        BY <1>1, <3>1
      <4>2. \A c \in 1 .. i : lines[c] # PartLine(b)
        BY <3>4, <4>1 DEF Marker
      <4>3. i \in 1 .. m
        BY <1>1, <3>1
      <4> QED
        BY <4>2, <4>3 DEF Between
    <3> HIDE DEF x
    <3>6. \A i \in 1 .. Len(x) : x[i] = <<>>
      BY <1>3, <3>3, <3>5
    <3>7. FlattenSeq(x) = <<>>
      BY <3>3, <3>6, FlatEmpties DEF T
    <3> QED
      BY <3>7 DEF x
  <2> QED
    BY <2>2, <2>3, <2>4
<1>9. \A n \in 1 .. m : Right(n - 1) => Right(n)
  <2> SUFFICES ASSUME NEW n \in 1 .. m, Right(n - 1) PROVE Right(n)
    OBVIOUS
  <2>0. n \in 0 .. m /\ n - 1 \in 0 .. m /\ n \in Nat
    BY <1>1
  <2>1. parts(n) = parts(n - 1) \o f[n] /\ parts(n - 1) \in Seq(Q)
    <3>1. n \in 1 .. Len(f)
      BY <1>2
    <3> QED
      BY <1>2, <3>1, FlatStep
  <2>2. f[n] = IF StartsPart(lines, b, n) THEN <<PartFrom(lines, b, n)>> ELSE <<>>
    BY <1>2
  <2> DEFINE p == PartFrom(lines, b, n)
  <2>3. p \in Q
    BY <1>7
  <2> HIDE DEF p
  <2>4. /\ parts(n) \in Seq(Q)
        /\ FilledParts(parts(n)) = FilledParts(parts(n - 1))
                                     \o (IF StartsPart(lines, b, n) THEN FilledPart(p) ELSE <<>>)
    <3> DEFINE ps == parts(n - 1)
    <3>1. ps \in Seq(Q)
      BY <2>1
    <3> HIDE DEF ps
    <3>2. FilledParts(ps) \in Seq(S) /\ FilledParts(Append(ps, p)) = FilledParts(ps) \o FilledPart(p)
      <4> HIDE DEF parts, kept
      <4>1. ps \in Seq(Q) /\ p \in Q /\ FilledIn(Q, S)
        BY <1>6, <2>3, <3>1 DEF FilledIn
      <4> QED
        BY <4>1, FilledPartsNext
    <3>3. CASE StartsPart(lines, b, n)
      <4>1. parts(n) = ps \o <<p>>
        BY <2>1, <2>2, <3>3 DEF p, ps
      <4>2. ps \o <<p>> = Append(ps, p) /\ Append(ps, p) \in Seq(Q)
        BY <2>3, <3>1
      <4> HIDE DEF parts
      <4> QED
        BY <3>2, <3>3, <4>1, <4>2 DEF ps
    <3>4. CASE ~StartsPart(lines, b, n)
      <4>1. parts(n) = ps \o <<>>
        BY <2>1, <2>2, <3>4 DEF ps
      <4>2. ps \o <<>> = ps
        BY <3>1
      <4>3. FilledParts(ps) \o <<>> = FilledParts(ps)
        BY <3>2
      <4> HIDE DEF parts
      <4> QED
        BY <3>1, <3>4, <4>1, <4>2, <4>3 DEF ps
    <3> QED
      BY <3>3, <3>4
  <2>5. kept(u(n)) = kept(u(n - 1)) \o (IF StartsPart(lines, b, n) THEN FilledPart(p) ELSE <<>>)
    <3>1. CASE ~Marker(lines[n], b)
      <4>1. u(n - 1) = u(n) /\ ~StartsPart(lines, b, n)
        BY <1>5, <3>1 DEF Marker, StartsPart
      <4>2. kept(u(n)) \in Seq(S)
        <5>1. u(n) \in 0 .. m
          BY <1>1, <1>4, <2>0
        <5>2. 0 \in Nat /\ 0 \in 0 .. Len(g) /\ u(n) \in 0 .. Len(g) /\ 0 + 1 = 1
          BY <1>3, <5>1, <1>1
        <5> DEFINE z == 0
                   v == u(n)
        <5>3. z \in Nat /\ v \in z .. Len(g) /\ z \in z .. Len(g) /\ z + 1 = 1
          BY <5>2
        <5> HIDE DEF z, v
        <5>5. SubSeq(g, z + 1, v) \in Seq(Seq(S))
          <6>1. g \in Seq(Seq(S)) /\ z \in Nat /\ z \in z .. Len(g) /\ v \in z .. Len(g)
            BY <1>3, <5>3
          <6> QED
            BY <6>1, FlatSplit
        <5>4. SubSeq(g, 1, u(n)) \in Seq(Seq(S))
          BY <5>3, <5>5 DEF v
        <5> QED
          BY <5>4, FlatType
      <4>3. kept(u(n)) \o <<>> = kept(u(n))
        BY <4>2
      <4> QED
        BY <4>1, <4>3
    <3>2. CASE Marker(lines[n], b)
      <4>1. u(n - 1) = n - 1
        BY <1>5, <3>2
      <4>2. FlattenSeq(SubSeq(g, n, u(n)))
              = IF StartsPart(lines, b, n) THEN FilledPart(p) ELSE <<>>
        <5>1. n \in 1 .. Len(lines)
          BY DEF m
        <5> QED
          BY <3>2, <5>1, KeptFromBoundary DEF g, u, p
      <4>3. kept(u(n)) = kept(n - 1) \o FlattenSeq(SubSeq(g, n, u(n)))
        <5>1. /\ 0 \in Nat /\ n - 1 \in 0 .. Len(g) /\ u(n) \in n - 1 .. Len(g)
              /\ 0 + 1 = 1 /\ (n - 1) + 1 = n
          BY <1>1, <1>3, <1>4, <2>0
        <5> DEFINE z == 0
                   k == n - 1
                   v == u(n)
        <5>2. z \in Nat /\ k \in z .. Len(g) /\ v \in k .. Len(g) /\ z + 1 = 1 /\ k + 1 = n
          BY <5>1
        <5> HIDE DEF z, k, v
        <5>3. FlattenSeq(SubSeq(g, z + 1, v))
                = FlattenSeq(SubSeq(g, z + 1, k)) \o FlattenSeq(SubSeq(g, k + 1, v))
          <6>1. g \in Seq(Seq(S)) /\ z \in Nat /\ k \in z .. Len(g) /\ v \in k .. Len(g)
            BY <1>3, <5>2
          <6> QED
            BY <6>1, FlatSplit
        <5>4. FlattenSeq(SubSeq(g, 1, v))
                = FlattenSeq(SubSeq(g, 1, k)) \o FlattenSeq(SubSeq(g, n, v))
          BY <5>2, <5>3
        <5> QED
          BY <5>4 DEF k, v
      <4> QED
        BY <4>1, <4>2, <4>3
    <3> QED
      BY <3>1, <3>2
  <2> HIDE DEF parts, kept
  <2>6. FilledParts(parts(n - 1)) = kept(u(n - 1))
    OBVIOUS
  <2> QED
    BY <2>4, <2>5, <2>6, Zenon
<1> HIDE DEF Right
<1>10. Wrong = {}
  <2> SUFFICES ASSUME Wrong # {} PROVE FALSE
    OBVIOUS
  <2>1. Wrong \subseteq Nat
    BY <1>1 DEF Wrong
  <2>2. PICK n \in Wrong : \A k \in Wrong : n <= k
    BY <2>1, Smallest
  <2>3. n \in 0 .. m /\ ~Right(n)
    BY DEF Wrong
  <2>4. n \in 1 .. m
    BY <1>1, <1>8, <2>3
  <2>5. n - 1 \in 0 .. m /\ ~(n <= n - 1)
    BY <1>1, <2>4
  <2>6. n - 1 \notin Wrong
    BY <2>2, <2>5
  <2> QED
    BY <1>9, <2>3, <2>4, <2>5, <2>6 DEF Wrong
<1>11. Right(m)
  BY <1>1, <1>10 DEF Wrong
<1>12. u(m) = m
  <2>1. m \in 0 .. m
    BY <1>1
  <2> QED
    BY <1>1, <1>4, <2>1
<1>13. SubSeq(f, 1, m) = f /\ SubSeq(g, 1, m) = g
  BY <1>2, <1>3, SubSeqFull
<1> QED
  BY <1>2, <1>3, <1>11, <1>12, <1>13 DEF Right

-----------------------------------------------------------------------------
(* The messages and parts that the parser visits have lines *)

LEMMA PartBody == ASSUME NEW S, NEW lines \in Seq(S) PROVE PartOf(lines).body \in Seq(S)
<1> DEFINE n == Len(lines)
           hs == SkipToNonBlank(lines, 0)
           he == SkipToBlank(lines, hs)
           bs == SkipToNonBlank(lines, he)
<1>1. n \in Nat /\ 0 \in 0 .. n
  OBVIOUS
<1>2. hs \in 0 .. n
  BY <1>1, NextLineIs DEF SkipToNonBlank
<1> HIDE DEF hs
<1>3. he \in hs .. n
  BY <1>2, NextLineIs DEF SkipToBlank
<1>4. he \in 0 .. n
  BY <1>1, <1>2, <1>3
<1> HIDE DEF he
<1>5. bs \in he .. n
  BY <1>4, NextLineIs DEF SkipToNonBlank
<1> HIDE DEF bs
<1> DEFINE h == SubLines(lines, hs, he)
           t == SubLines(lines, bs, n)
           p == PartOf(lines)
<1>6. p = [head |-> h, body |-> t]
  BY Zenon DEF PartOf, hs, he, bs
<1>7. t \in Seq(S)
  <2>1. t = SubSeq(lines, bs + 1, n)
    BY <1>1 DEF SubLines
  <2> QED
    BY <1>1, <1>4, <1>5, <2>1
<1> HIDE DEF p, h, t
<1>8. p.body = t
  BY <1>6
<1> QED
  BY <1>7, <1>8 DEF p

LEMMA MailBody == ASSUME NEW S, NEW full \in Seq(S) PROVE MailMessage(full).body \in Seq(S)
<1> DEFINE n == Len(full)
           blank == SkipToBlank(full, 0)
           h == SubLines(full, 0, blank)
           t == SubLines(full, blank + 1, n)
           p == MailMessage(full)
<1>1. n \in Nat /\ 0 \in 0 .. n
  OBVIOUS
<1>2. blank \in 0 .. n
  BY <1>1, NextLineIs DEF SkipToBlank
<1>3. p = [head |-> h, body |-> t]
  BY Zenon DEF MailMessage
<1> HIDE DEF blank
<1>4. t \in Seq(S)
  <2>1. t = SubSeq(full, blank + 1 + 1, n)
    <3>1. (IF n < n THEN n ELSE n) = n
      OBVIOUS
    <3> HIDE DEF n
    <3>2. t = SubSeq(full, blank + 1 + 1, IF n < n THEN n ELSE n)
      BY Zenon DEF SubLines, n
    <3> QED
      BY <3>1, <3>2
  <2>2. CASE blank + 1 + 1 <= n
    <3>1. blank + 1 + 1 \in 1 .. Len(full) + 1 /\ n \in (blank + 1 + 1) - 1 .. Len(full)
      BY <1>1, <1>2, <2>2
    <3>2. SubSeq(full, blank + 1 + 1, n) \in Seq(S)
      BY <3>1, SubSeqProperties
    <3> QED
      BY <2>1, <3>2
  <2>3. CASE ~(blank + 1 + 1 <= n)
    <3>1. blank + 1 + 1 \in Int /\ n \in Int /\ blank + 1 + 1 > n
      BY <1>1, <1>2, <2>3
    <3>2. t = <<>>
      BY <2>1, <3>1, SubSeqEmpty
    <3> QED
      BY <3>2, EmptySeq
  <2> QED
    BY <2>2, <2>3
<1> HIDE DEF p, h, t
<1>5. p.body = t
  BY <1>3
<1> QED
  BY <1>4, <1>5 DEF p

WithBody(S, w) == \E W : w \in Seq(W) /\ \A m \in W : m.body \in Seq(S)

LEMMA PartsOfBodies ==
  ASSUME NEW S, NEW mail, mail.body \in Seq(S) PROVE WithBody(S, PartsOf(mail))
<1> DEFINE lines == mail.body
           b == BoundaryString(ParseHeader(mail.head))
           Q == {PartFrom(lines, b, i) : i \in 1 .. Len(lines)}
<1>1. PartsOf(mail) \in {<<>>, PartsForBoundary(lines, b), <<PartOf(lines)>>}
  BY Zenon DEF PartsOf, BodyOf, ParseBody
<1> HIDE DEF b, lines
<1>2. lines \in Seq(S)
  BY DEF lines
<1>3. WithBody(S, <<>>)
  <2>1. <<>> \in Seq({PartOf(lines)})
    BY EmptySeq
  <2>2. PartOf(lines).body \in Seq(S)
    BY <1>2, PartBody
  <2> QED
    BY <2>1, <2>2, Zenon DEF WithBody
<1>4. WithBody(S, <<PartOf(lines)>>)
  <2>1. <<PartOf(lines)>> \in Seq({PartOf(lines)})
    OBVIOUS
  <2>2. PartOf(lines).body \in Seq(S)
    BY <1>2, PartBody
  <2> QED
    BY <2>1, <2>2, Zenon DEF WithBody
<1>5. WithBody(S, PartsForBoundary(lines, b))
  <2>1. /\ Starting(lines, b) \in Seq(Seq(Q))
        /\ PartsForBoundary(lines, b) = FlattenSeq(Starting(lines, b))
    BY <1>2, StartingIs
  <2>2. \A m \in Q : m.body \in Seq(S)
    <3> SUFFICES ASSUME NEW i \in 1 .. Len(lines) PROVE PartFrom(lines, b, i).body \in Seq(S)
      OBVIOUS
    <3> DEFINE u == Until(lines, b, i)
    <3>1. Len(lines) \in Nat /\ i \in 0 .. Len(lines)
      BY <1>2
    <3>2. u \in i .. Len(lines)
      BY <1>2, <3>1, UntilIs
    <3> HIDE DEF u
    <3>3. SubLines(lines, i, u) \in Seq(S)
      BY <1>2, <3>1, <3>2 DEF SubLines
    <3> QED
      BY <3>3, PartBody DEF PartFrom, u
  <2> HIDE DEF Q
  <2>3. PartsForBoundary(lines, b) \in Seq(Q)
    BY <2>1, FlatType
  <2> QED
    BY <2>2, <2>3, Zenon DEF WithBody
<1> QED
  BY <1>1, <1>3, <1>4, <1>5

LEMMA WithBodyMore ==
  ASSUME NEW S, NEW T, S \subseteq T, NEW w, WithBody(S, w) PROVE WithBody(T, w)
<1>1. PICK W : w \in Seq(W) /\ \A m \in W : m.body \in Seq(S)
  BY DEF WithBody
<1>2. \A s \in Seq(S) : s \in Seq(T)
  OBVIOUS
<1>3. \A m \in W : m.body \in Seq(T)
  BY <1>1, <1>2
<1> QED
  BY <1>1, <1>3, Zenon DEF WithBody

LEMMA WithBodyJoined ==
  ASSUME NEW S, NEW v, NEW w, WithBody(S, v), WithBody(S, w) PROVE WithBody(S, v \o w)
<1>1. PICK V : v \in Seq(V) /\ \A m \in V : m.body \in Seq(S)
  BY DEF WithBody
<1>2. PICK W : w \in Seq(W) /\ \A m \in W : m.body \in Seq(S)
  BY DEF WithBody
<1>3. v \o w \in Seq(V \union W)
  <2>1. v \in Seq(V \union W) /\ w \in Seq(V \union W)
    BY <1>1, <1>2
  <2> QED
    BY <2>1
<1>4. \A m \in V \union W : m.body \in Seq(S)
  BY <1>1, <1>2
<1> QED
  BY <1>3, <1>4, Zenon DEF WithBody

\* What is read so far is lines, whatever they are made of.
PartsInv ==
  /\ begun \in Nat /\ ended \in Nat /\ ended <= begun /\ begun <= Len(out)
  /\ \E S : /\ text \in Seq(S) /\ out \in Seq(Seq(S))
            /\ WithBody(S, work)
            /\ \E F : fed \in Seq(F) /\ \A r \in F : r.mail.body \in Seq(S)

\* How a step of a reader changes the text and the messages.
LEMMA TextGrows ==
  ASSUME ReaderNext
  PROVE  /\ \E v : \/ text' \in {text, <<>>, <<v>>, Append(text, v)}
                   \/ text # <<>> /\ text' = Front(text) \o <<v>>
         /\ out' \in {out, Append(out, text)}
<1> DEFINE Grows(t) == \E v : \/ t \in {text, <<>>, <<v>>, Append(text, v)}
                              \/ text # <<>> /\ t = Front(text) \o <<v>>
<1>0. Grows(text) /\ Grows(<<>>) /\ \A v : Grows(Append(text, v))
  BY SMT
<1>1. \A v : Grows(AppendToLastLine(text, v))
  <2> SUFFICES ASSUME NEW v PROVE Grows(AppendToLastLine(text, v))
    OBVIOUS
  <2>1. CASE text = <<>>
    <3>1. AppendToLastLine(text, v) = <<v>>
      BY <2>1 DEF AppendToLastLine
    <3> QED
      BY <3>1, Zenon
  <2>2. CASE text # <<>>
    <3>1. AppendToLastLine(text, v) = Front(text) \o <<Last(text) \o v>>
      BY <2>2, Zenon DEF AppendToLastLine
    <3> QED
      BY <2>2, <3>1, Zenon
  <2> QED
    BY <2>1, <2>2
<1> SUFFICES Grows(text') /\ out' \in {out, Append(out, text)}
  OBVIOUS
<1> HIDE DEF Grows
<1>2. CASE SetStream
  BY <1>0, <1>2 DEF SetStream
<1>3. CASE ReadMessage
  BY <1>0, <1>3 DEF ReadMessage
<1>4. CASE HeadLine
  BY <1>0, <1>4 DEF HeadLine
<1>5. CASE FindContentLength
  BY <1>0, <1>5 DEF FindContentLength
<1>6. CASE ContentLine
  BY <1>0, <1>6 DEF ContentLine
<1>7. CASE BodyLine
  BY <1>0, <1>1, <1>7 DEF BodyLine, Deliver
<1>8. CASE RecordHeader
  BY <1>0, <1>8 DEF RecordHeader
<1>9. CASE RecordLine
  BY <1>0, <1>9 DEF RecordLine, Deliver
<1> QED
  BY <1>2, <1>3, <1>4, <1>5, <1>6, <1>7, <1>8, <1>9 DEF ReaderNext

LEMMA LinesGrow ==
  ASSUME NEW S, NEW t \in Seq(S), NEW o \in Seq(Seq(S)), NEW v, NEW u, NEW p,
         \/ u \in {t, <<>>, <<v>>, Append(t, v)}
         \/ t # <<>> /\ u = Front(t) \o <<v>>,
         p \in {o, Append(o, t)}
  PROVE  /\ u \in Seq(S \union {v}) /\ p \in Seq(Seq(S \union {v}))
         /\ Len(p) \in Nat /\ Len(o) \in Nat /\ Len(o) <= Len(p)
<1> DEFINE V == S \union {v}
           T == Seq(S)
           TT == Seq(V)
<1>1. t \in Seq(V) /\ v \in V
  OBVIOUS
<1>2. u \in Seq(V)
  <2>1. CASE u \in {t, <<>>, <<v>>, Append(t, v)}
    <3> HIDE DEF V
    <3>1. <<>> \in Seq(V) /\ <<v>> \in Seq(V)
      BY <1>1, EmptySeq
    <3>2. Append(t, v) \in Seq(V)
      BY <1>1
    <3> QED
      BY <1>1, <2>1, <3>1, <3>2, Zenon
  <2>2. CASE t # <<>> /\ u = Front(t) \o <<v>>
    <3>1. Front(t) \in Seq(V)
      <4> HIDE DEF V
      <4> QED
        BY <1>1, <2>2 DEF Front
    <3> HIDE DEF V
    <3> QED
      BY <1>1, <2>2, <3>1
  <2> QED
    BY <2>1, <2>2
<1>3. \A s \in T : s \in TT
  OBVIOUS
<1>4. o \in Seq(T) /\ t \in T
  OBVIOUS
<1> HIDE DEF T, TT
<1>5. o \in Seq(TT) /\ t \in TT
  BY <1>3, <1>4
<1>6. Append(o, t) \in Seq(TT) /\ Len(o) \in Nat /\ Len(Append(o, t)) = Len(o) + 1
  BY <1>5
<1>7. p \in Seq(TT) /\ Len(p) \in Nat /\ Len(o) <= Len(p)
  <2>1. CASE p = o
    BY <1>5, <1>6, <2>1
  <2>2. CASE p = Append(o, t)
    <3>1. Len(Append(o, t)) \in Nat /\ Len(o) <= Len(Append(o, t))
      BY <1>6
    <3> QED
      BY <1>6, <2>2, <3>1, Zenon
  <2> QED
    BY <2>1, <2>2
<1> QED
  BY <1>2, <1>6, <1>7 DEF TT

LEMMA PartsStep == PartsInv /\ [MailNext]_vars => PartsInv'
<1> SUFFICES ASSUME PartsInv, [MailNext]_vars PROVE PartsInv'
  OBVIOUS
<1>1. PICK S : /\ text \in Seq(S) /\ out \in Seq(Seq(S))
               /\ WithBody(S, work)
               /\ \E F : fed \in Seq(F) /\ \A r \in F : r.mail.body \in Seq(S)
  BY Zenon DEF PartsInv
<1>2. begun \in Nat /\ ended \in Nat /\ ended <= begun /\ begun <= Len(out)
  BY DEF PartsInv
<1>3. Len(out) \in Nat
  BY <1>1, LenProperties
<1>4. PICK F : fed \in Seq(F) /\ \A r \in F : r.mail.body \in Seq(S)
  BY <1>1
<1>5. CASE Read
  <2>1. ReaderNext /\ UNCHANGED <<values, work, begun, ended, digests, fed>>
    BY <1>5 DEF Read
  <2>2. PICK v : \/ text' \in {text, <<>>, <<v>>, Append(text, v)}
                 \/ text # <<>> /\ text' = Front(text) \o <<v>>
    BY <2>1, TextGrows
  <2>3. out' \in {out, Append(out, text)}
    BY <2>1, TextGrows
  <2> DEFINE V == S \union {v}
  <2>4. /\ text' \in Seq(V) /\ out' \in Seq(Seq(V))
        /\ Len(out') \in Nat /\ Len(out) <= Len(out')
    BY <1>1, <2>2, <2>3, LinesGrow
  <2>5. WithBody(V, work')
    <3>1. S \subseteq V
      OBVIOUS
    <3> HIDE DEF V
    <3> QED
      BY <1>1, <2>1, <3>1, WithBodyMore
  <2>6. fed' \in Seq(F) /\ \A r \in F : r.mail.body \in Seq(V)
    <3>1. \A s \in Seq(S) : s \in Seq(V)
      OBVIOUS
    <3> HIDE DEF V
    <3> QED
      BY <1>4, <2>1, <3>1
  <2> HIDE DEF V
  <2>7. begun' \in Nat /\ ended' \in Nat /\ ended' <= begun' /\ begun' <= Len(out')
    BY <1>2, <1>3, <2>1, <2>4
  <2> QED
    BY <2>4, <2>5, <2>6, <2>7, Zenon DEF PartsInv
<1>6. CASE BeginMessage
  <2>1. /\ begun = ended /\ ended # Len(out) /\ begun' = begun + 1
        /\ work' = <<MailMessage(out[begun + 1])>>
        /\ ended' = ended /\ fed' = fed /\ text' = text /\ out' = out
    BY <1>6 DEF BeginMessage, Idle, readerVars
  <2>2. begun' \in Nat /\ ended' <= begun' /\ begun' <= Len(out') /\ begun + 1 \in 1 .. Len(out)
    BY <1>2, <1>3, <2>1
  <2>3. out[begun + 1] \in Seq(S)
    BY <1>1, <2>2, ElementOfSeq
  <2>4. MailMessage(out[begun + 1]).body \in Seq(S)
    BY <2>3, MailBody
  <2>5. WithBody(S, work')
    <3> DEFINE m == MailMessage(out[begun + 1])
    <3>1. m.body \in Seq(S)
      BY <2>4
    <3> HIDE DEF m
    <3>2. <<m>> \in Seq({m}) /\ \A q \in {m} : q.body \in Seq(S)
      BY <3>1
    <3> QED
      BY <2>1, <3>2, Zenon DEF WithBody, m
  <2> QED
    BY <1>1, <1>2, <2>1, <2>2, <2>5, Zenon DEF PartsInv
<1>7. CASE ParseBodyOf
  <2> DEFINE mail == Head(work)
  <2>1. /\ work # <<>> /\ work' = PartsOf(mail) \o Tail(work)
        /\ begun' = begun /\ ended' = ended /\ text' = text /\ out' = out
    BY <1>7, Zenon DEF ParseBodyOf, readerVars
  <2>2. PICK x, y : fed' = Append(fed, [mail |-> mail, headers |-> x, own |-> y])
    BY <1>7, Zenon DEF ParseBodyOf
  <2>3. PICK W : work \in Seq(W) /\ \A m \in W : m.body \in Seq(S)
    BY <1>1 DEF WithBody
  <2>4. mail \in W /\ Tail(work) \in Seq(W)
    BY <2>1, <2>3
  <2>5. mail.body \in Seq(S)
    BY <2>3, <2>4
  <2> HIDE DEF mail
  <2>6. WithBody(S, PartsOf(mail)) /\ WithBody(S, Tail(work))
    BY <2>3, <2>4, <2>5, PartsOfBodies, Zenon DEF WithBody
  <2>7. WithBody(S, work')
    BY <2>1, <2>6, WithBodyJoined
  <2>8. \E G : fed' \in Seq(G) /\ \A r \in G : r.mail.body \in Seq(S)
    <3> DEFINE new == [mail |-> mail, headers |-> x, own |-> y]
    <3>1. new.mail = mail
      OBVIOUS
    <3>2. fed' = Append(fed, new)
      BY <2>2
    <3> HIDE DEF new
    <3>3. fed' \in Seq(F \union {new})
      BY <1>4, <3>2
    <3>4. \A r \in F \union {new} : r.mail.body \in Seq(S)
      BY <1>4, <2>5, <3>1
    <3> QED
      BY <3>3, <3>4, Zenon
  <2> QED
    BY <1>1, <1>2, <2>1, <2>7, <2>8, Zenon DEF PartsInv
<1>8. CASE EndMessage
  <2>1. ended' = begun /\ begun' = begun /\ UNCHANGED <<work, fed, text, out>>
    BY <1>8 DEF EndMessage, readerVars
  <2>2. ended' \in Nat /\ ended' <= begun'
    BY <1>2, <2>1
  <2> QED
    BY <1>1, <1>2, <2>1, <2>2, Zenon DEF PartsInv
<1>9. CASE UNCHANGED vars
  BY <1>1, <1>2, <1>9, Zenon DEF PartsInv, vars
<1> QED
  BY <1>5, <1>6, <1>7, <1>8, <1>9 DEF MailNext, Stop

LEMMA PartsInit == MailInit => PartsInv
<1> SUFFICES ASSUME MailInit PROVE PartsInv
  OBVIOUS
<1>1. text = <<>> /\ out = <<>> /\ work = <<>> /\ begun = 0 /\ ended = 0 /\ fed = <<>>
  BY DEF MailInit, Init
<1> DEFINE mail == PartOf(<<>>)
           r == [mail |-> mail]
<1>2. mail.body \in Seq({}) /\ r.mail = mail
  <2>1. <<>> \in Seq({})
    BY EmptySeq
  <2> QED
    BY <2>1, PartBody
<1> HIDE DEF mail, r
<1>3. <<>> \in Seq({}) /\ <<>> \in Seq(Seq({})) /\ <<>> \in Seq({mail}) /\ <<>> \in Seq({r})
  BY EmptySeq
<1>4. WithBody({}, work)
  BY <1>1, <1>2, <1>3, Zenon DEF WithBody
<1>5. begun \in Nat /\ ended \in Nat /\ ended <= begun /\ begun <= Len(out)
  BY <1>1
<1>6. \A q \in {r} : q.mail.body \in Seq({})
  BY <1>2
<1> QED
  BY <1>1, <1>3, <1>4, <1>5, <1>6, Zenon DEF PartsInv

LEMMA PartsKept == PartsInv => PartsKeepEveryLine
<1> SUFFICES ASSUME PartsInv, NEW i \in DOMAIN fed,
                    BoundaryString(ParseHeader(fed[i].mail.head)) # <<>>,
                    fed[i].mail.body # <<>>, ~box.ignoreBody
             PROVE  FilledParts(PartsOf(fed[i].mail))
                      = LinesBetween(fed[i].mail.body,
                                     BoundaryString(ParseHeader(fed[i].mail.head)))
  BY Zenon DEF PartsKeepEveryLine
<1> DEFINE mail == fed[i].mail
           b == BoundaryString(ParseHeader(mail.head))
<1>1. PICK S, F : fed \in Seq(F) /\ \A r \in F : r.mail.body \in Seq(S)
  BY Zenon DEF PartsInv
<1>2. mail.body \in Seq(S)
  <2>1. fed[i] \in F
    BY <1>1
  <2> QED
    BY <1>1, <2>1
<1>3. PartsOf(mail) = PartsForBoundary(mail.body, b)
  BY Zenon DEF PartsOf, BodyOf, IsMultiPart, ParseBody
<1> HIDE DEF mail, b
<1>4. FilledParts(PartsForBoundary(mail.body, b)) = LinesBetween(mail.body, b)
  BY <1>2, PartsHoldLines
<1> QED
  BY <1>3, <1>4, Zenon DEF mail, b

\* However many parts and boundaries a body has, every line of it that is not blank and
\* stands between its first boundary and the last is in exactly one part, in its place:
\* addPartsForBoundary and addPart lose none and give none to two parts.
THEOREM PartsAlwaysKeepEveryLine == MailSpec => []PartsKeepEveryLine
BY PartsInit, PartsStep, PartsKept, PTL DEF MailSpec
===============================================================================
