------------------------------ MODULE Settings ------------------------------
(* The settings of one run: ParserConfig, HeaderPrefixList, FilterConfig,   *)
(* DatabaseConfig and CommandConfig as one record, and what the setters,    *)
(* the test cases and the extended options of main() do to it.  Numbers    *)
(* with a fraction are counted in ten-millionths; a file name stands for    *)
(* the directory it is in, "" for none.                                     *)
EXTENDS Integers, Sequences

One == 10000000
Thousandths(n) == n * 10000

(* The operators of TLC.tla, whose definitions the proof system cannot see. *)
m :> v == [n \in {m} |-> v]
f @@ g == [m \in DOMAIN f \cup DOMAIN g |-> IF m \in DOMAIN f THEN f[m] ELSE g[m]]

(* The function of its pairs of an argument and a value. *)
Table(pairs) ==
  [n \in {p[1] : p \in pairs} |-> (CHOOSE p \in pairs : p[1] = n)[2]]

------------------------------------------------------------------------------
(* HeaderPrefixList: which headers are read and the prefix of their terms. *)

NoHeaders == [all |-> FALSE, noX |-> FALSE, blank |-> FALSE, values |-> <<>>]
AllHeaders == [NoHeaders EXCEPT !.all = TRUE]
NonXHeaders == [NoHeaders EXCEPT !.all = TRUE, !.noX = TRUE]

(* insert() of the map keeps the entry a name already has. *)
AddHeaderPrefix(h, name, first, other) ==
  [h EXCEPT !.values = @ @@ (name :> <<first, other>>)]

AddSimpleHeaderPrefix(h, name) == AddHeaderPrefix(h, name, name, name)

RemoveHeaderPrefix(h, name) ==
  [h EXCEPT !.values = [n \in DOMAIN @ \ {name} |-> @[n]]]

Simply(names) == [n \in names |-> <<n, n>>]

DefaultHeaders ==
  [NoHeaders EXCEPT !.values =
     Simply({"reply-to", "sender", "originator", "subject", "from", "to",
             "cc", "message-id"})
     @@ ("received" :> <<"recv", "recvx">>)
     @@ ("content-type" :> <<"", "">>)]

------------------------------------------------------------------------------
(* FilterConfig: the setters that touch more than one member. *)

SetScoreMode(s, mode) ==
  LET bias == IF mode = "alt1" THEN 1 ELSE 2
      count == IF mode = "alt1" THEN 1 ELSE s.defaultMinWordCount
      threshold == CASE mode = "alt1" -> 6000000
                     [] mode = "original" -> 9000000
                     [] mode = "normal" -> s.defaultThreshold
  IN [s EXCEPT !.scoreMode = mode, !.goodBias = bias,
               !.minWordCount = count, !.spamThreshold = threshold]

(* Mutant: only the value in force is set, not the one a change of the     *)
(* score mode goes back to.                                                 *)
SetMinWordCountInForce(s, n) == [s EXCEPT !.minWordCount = n]

SetMinWordCount(s, n) ==
  [s EXCEPT !.minWordCount = n, !.defaultMinWordCount = n]

SetSpamThreshold(s, v) ==
  [s EXCEPT !.spamThreshold = v, !.defaultThreshold = v]

SetDefaultThreshold(s, v) ==
  SetScoreMode([s EXCEPT !.defaultThreshold = v], s.scoreMode)

(* ParserConfig::setReplaceNonAsciiChars: "" is the value 0 or less. *)
SetReplaceNonAscii(s, char) == [s EXCEPT !.nonAscii = char]

(* The constructors of the four configurations, and their members, each    *)
(* with a setter that assigns it and a getter.                               *)
NewParserConfig ==
  [minTermLength |-> 1, maxTermLength |-> 90, nonAscii |-> "z",
   removeHTML |-> TRUE, keepSuspiciousTags |-> FALSE, ignoreBody |-> FALSE,
   minPhraseTerms |-> 1, maxPhraseTerms |-> 2, minPhraseChars |-> 0,
   maxPhraseChars |-> 0, maxTermsPerMessage |-> 0,
   fieldName |-> "x-spamprobe",
   headers |-> [NoHeaders EXCEPT !.values =
                  Simply({"from", "to", "cc", "subject"})
                  @@ ("received" :> <<"recv", "recvx">>)]]
ParserMembers ==
  {"minTermLength", "maxTermLength", "nonAscii", "removeHTML",
   "keepSuspiciousTags", "ignoreBody", "minPhraseTerms", "maxPhraseTerms",
   "minPhraseChars", "maxPhraseChars", "maxTermsPerMessage", "fieldName",
   "headers"}

NewFilterConfig ==
  [scoreMode |-> "normal", goodBias |-> 0, minWordCount |-> 0,
   defaultMinWordCount |-> 5, spamThreshold |-> 0,
   defaultThreshold |-> 6000000, termsForScore |-> 27,
   maxWordRepeats |-> 2, extendTopTerms |-> FALSE,
   newWordScore |-> 3000000, minDistance |-> 0, minArraySize |-> 0,
   waterCounts |-> FALSE, selectors |-> "one"]
FilterMembers ==
  {"scoreMode", "goodBias", "minWordCount", "defaultMinWordCount",
   "spamThreshold", "defaultThreshold", "termsForScore", "maxWordRepeats",
   "extendTopTerms", "newWordScore", "minDistance", "minArraySize",
   "waterCounts", "selectors"}

NewDatabaseConfig ==
  [type |-> "", private |-> "home", shared |-> "", targetSizeMB |-> 32,
   maxCacheTerms |-> 15000]
DatabaseMembers ==
  {"type", "private", "shared", "targetSizeMB", "maxCacheTerms"}

NewCommandConfig ==
  [messagesPerPurge |-> 0, pretokenized |-> FALSE, ignoreFrom |-> FALSE,
   ignoreContentLength |-> FALSE, createDbDir |-> FALSE, statusField |-> ""]
CommandMembers ==
  {"messagesPerPurge", "pretokenized", "ignoreFrom", "ignoreContentLength",
   "createDbDir", "statusField"}

InitialSettings ==
  SetScoreMode(NewParserConfig @@ NewFilterConfig @@ NewDatabaseConfig
                 @@ NewCommandConfig @@ [today |-> "clock"], "normal")

------------------------------------------------------------------------------
(* process_test_cases: each name sets some members and may choose the      *)
(* headers or the score mode.                                               *)

Graham == [maxPhraseTerms |-> 1, removeHTML |-> FALSE, minTermLength |-> 1,
           maxTermLength |-> 90, termsForScore |-> 15, maxWordRepeats |-> 1,
           newWordScore |-> Thousandths(400), extendTopTerms |-> FALSE]
Sigs == [termsForScore |-> 5, maxWordRepeats |-> 5, extendTopTerms |-> TRUE]
Few(terms, repeats) == [termsForScore |-> terms, maxWordRepeats |-> repeats]
Phrases(least, most) == [minPhraseTerms |-> least, maxPhraseTerms |-> most]
Longest(n) == [maxPhraseTerms |-> n]
NewWords(v) == [newWordScore |-> v]
Distance(v, n) == [minDistance |-> v, minArraySize |-> n]
HeadersOnly == Distance(Thousandths(300), 10) @@ [ignoreBody |-> TRUE]
Terms(n) == Distance(Thousandths(300), 10) @@ [maxTermsPerMessage |-> n]
Today(day) == [today |-> day]
WithHtml == [removeHTML |-> FALSE]
Suspicious == [keepSuspiciousTags |-> TRUE]
Water == [waterCounts |-> TRUE]
Extended == [extendTopTerms |-> TRUE]
LeastChars(n) == [minPhraseChars |-> n]
MostChars(n) == [maxPhraseChars |-> n]
Selectors(way) == [selectors |-> way]
Nothing == <<>>

EarlyCases ==
  {<<"graham", Graham>>,
   <<"all-sigs", Sigs>>,
   <<"all-sigs-3", Sigs @@ Longest(3)>>,
   <<"all-sigs-5", Sigs @@ Longest(5)>>,
   <<"all-phrases-2-3", Phrases(2, 3)>>,
   <<"all-phrases-3-4", Phrases(3, 4)>>,
   <<"all-phrases-4-5", Phrases(4, 5)>>,
   <<"all-phrases-2-5", Phrases(2, 5)>>,
   <<"all-phrases-2-3-ext", Sigs @@ Phrases(2, 3)>>,
   <<"all-phrases-2-3-water", Water @@ Phrases(2, 3)>>,
   <<"all-phrases-3-5", Sigs @@ Phrases(3, 5)>>,
   <<"all-phrases-5", Sigs @@ Phrases(5, 5)>>,
   <<"old-graham", NewWords(Thousandths(200)) @@ Graham>>,
   <<"wide-open", WithHtml>>,
   <<"low-score", NewWords(Thousandths(200))>>,
   <<"high-score", NewWords(Thousandths(880))>>,
   <<"nox-high-score", NewWords(Thousandths(880))>>,
   <<"no-phrase", Longest(1)>>,
   <<"normal-ext", Extended>>,
   <<"1-days", Today("1")>>,
   <<"2-days", Today("2")>>,
   <<"3-days", Today("3")>>,
   <<"10-days", Today("10")>>,
   <<"normal-3", Longest(3)>>,
   <<"normal-5", Longest(5)>>,
   <<"phrases-2", Phrases(2, 2)>>,
   <<"phrases-3", Phrases(3, 3)>>,
   <<"phrases-4", Phrases(4, 4)>>,
   <<"phrases-5", Phrases(5, 5)>>,
   <<"12-char-phrase", LeastChars(12)>>,
   <<"20-char-phrase", Longest(20) @@ MostChars(20)>>,
   <<"html", WithHtml>>,
   <<"15/1", Few(15, 1)>>,
   <<"15/1-no-phrase", Few(15, 1) @@ Longest(1)>>,
   <<"suspicious", Suspicious>>,
   <<"nox-suspicious", Suspicious>>,
   <<"min-0.25", Distance(Thousandths(250), 8)>>}

LateCases ==
  {<<"min-0.33-10", Distance(Thousandths(330), 10)>>,
   <<"min-0.33-8", Distance(Thousandths(330), 8)>>,
   <<"min-0.40", Distance(Thousandths(400), 8)>>,
   <<"min-0.45", Distance(Thousandths(450), 8)>>,
   <<"min-0.49", Distance(Thousandths(490), 8)>>,
   <<"min-0.495", Distance(Thousandths(495), 8)>>,
   <<"trial", Distance(Thousandths(400), 10)>>,
   <<"trial-2", Distance(Thousandths(250), 12) @@ Few(30, 2) @@ Water
      @@ NewWords(Thousandths(500)) @@ Extended>>,
   <<"trial-3", Water @@ Extended>>,
   <<"susp-high-score", NewWords(Thousandths(880)) @@ Suspicious>>,
   <<"water-counts", Water @@ NewWords(Thousandths(400))>>,
   <<"normal-headers-only", HeadersOnly>>,
   <<"nox-headers-only", HeadersOnly>>,
   <<"all-headers-only", HeadersOnly>>,
   <<"headers-only", HeadersOnly>>,
   <<"multi", Selectors("four")>>,
   <<"max-250-terms", Terms(250)>>,
   <<"max-350-terms", Terms(350)>>,
   <<"max-500-terms", Terms(500)>>}

EarlyTestCases == Table(EarlyCases)
LateTestCases == Table(LateCases)

ListedHeaders ==
  [NoHeaders EXCEPT !.values =
     Simply({"from", "to", "cc", "bcc", "subject", "reply-to", "received",
             "sender", "x-mailer", "errors-to", "x-beenthere", "list-id",
             "user-agent", "references", "message-id"})]

(* The headers a test case leaves. *)
TestCaseHeaders(t, h) ==
  CASE t \in {"graham", "old-graham", "all", "wide-open", "all-headers-only"}
         -> AllHeaders
    [] t \in {"nox", "nox-high-score", "15/1-no-phrase", "nox-suspicious",
              "nox-headers-only", "max-250-terms", "max-350-terms",
              "max-500-terms"} -> NonXHeaders
    [] t = "normal-headers-only" -> DefaultHeaders
    [] t = "headers-only" -> ListedHeaders
    [] t = "no-prefixes" -> [h EXCEPT !.blank = TRUE]
    [] t = "use-sa" -> AddSimpleHeaderPrefix(
                         AddHeaderPrefix(h, "x-spam-status", "sa", "sa"),
                         "x-spam-status")
    [] OTHER -> h

(* The score mode, the threshold and the word count a test case leaves. *)
TestCaseScoring(t, s) ==
  CASE t = "alt1" -> SetScoreMode(s, "alt1")
    [] t = "original" -> SetScoreMode(s, "original")
    [] t \in {"low-score", "high-score", "nox-high-score"}
         -> SetMinWordCount(s, 5)
    [] t = "no-min" -> SetMinWordCount(s, 1)
    [] t = "min-10" -> SetMinWordCount(s, 10)
    [] t = "0.5" -> SetDefaultThreshold(s, Thousandths(500))
    [] t = "0.6" -> SetDefaultThreshold(s, Thousandths(600))
    [] t = "0.7" -> SetDefaultThreshold(s, Thousandths(700))
    [] t = "0.8" -> SetDefaultThreshold(s, Thousandths(800))
    [] t = "0.9" -> SetDefaultThreshold(s, Thousandths(900))
    [] OTHER -> s

TestCases ==
  DOMAIN EarlyTestCases \cup DOMAIN LateTestCases
  \cup {"nox", "all", "no-prefixes", "use-sa", "alt1", "original", "no-min",
        "min-10", "0.5", "0.6", "0.7", "0.8", "0.9", "normal"}

(* A record with some of its members replaced. *)
With(s, changes) ==
  [m \in DOMAIN s |-> IF m \in DOMAIN changes THEN changes[m] ELSE s[m]]

TestCase(t, s) ==
  LET changes == CASE t \in DOMAIN EarlyTestCases -> EarlyTestCases[t]
                   [] t \in DOMAIN LateTestCases -> LateTestCases[t]
                   [] OTHER -> Nothing
  IN TestCaseScoring(t, [With(s, changes) EXCEPT
                           !.headers = TestCaseHeaders(t, @)])

------------------------------------------------------------------------------
(* process_extended_options *)

ExtendedOptions ==
  {"graham", "suspicious-tags", "honor-status-header",
   "honor-xstatus-header", "orig-score", "tokenized", "ignore-body",
   "whitelist", "normal"}

ExtendedOption(o, s) ==
  CASE o = "graham" -> SetScoreMode([With(s, Graham) EXCEPT
                                       !.headers = AllHeaders], "original")
    [] o = "suspicious-tags" -> [s EXCEPT !.keepSuspiciousTags = TRUE]
    [] o = "honor-status-header" -> [s EXCEPT !.statusField = "status"]
    [] o = "honor-xstatus-header" -> [s EXCEPT !.statusField = "x-status"]
    [] o = "orig-score" -> SetScoreMode(s, "original")
    [] o = "tokenized" -> [s EXCEPT !.pretokenized = TRUE]
    [] o = "ignore-body" -> [s EXCEPT !.ignoreBody = TRUE]
    [] o = "whitelist" -> With(s, Sigs @@ [minDistance |-> Thousandths(300),
                                           ignoreBody |-> TRUE])
    [] o = "normal" -> s

(* set_headers: the argument of -H, a word or a header to add or to remove. *)
SetHeaders(h, way, name) ==
  CASE way = "all" -> AllHeaders
    [] way = "nox" -> NonXHeaders
    [] way = "normal" -> DefaultHeaders
    [] way = "none" -> NoHeaders
    [] way = "+" -> AddSimpleHeaderPrefix(h, name)
    [] way = "-" -> RemoveHeaderPrefix(h, name)
=============================================================================
