--------------------------- MODULE SettingsProofs ---------------------------
(* What a configuration file was written with is in force again once the     *)
(* file is loaded.  The kinds of values that each member of the settings can *)
(* have; what each statement that is written does to the settings, when it   *)
(* is read again; which of the members are back after so many statements,    *)
(* and which are still to come.                                              *)
EXTENDS SessionProofs

------------------------------------------------------------------------------
(* The kinds of values the settings have *)

NumberMembers ==
  {"minTermLength", "maxTermLength", "minPhraseTerms", "maxPhraseTerms",
   "minPhraseChars", "maxPhraseChars", "maxTermsPerMessage", "goodBias",
   "minWordCount", "defaultMinWordCount", "termsForScore", "maxWordRepeats",
   "minArraySize", "maxCacheTerms", "newWordScore", "spamThreshold",
   "defaultThreshold", "minDistance"}
SwitchMembers ==
  {"removeHTML", "keepSuspiciousTags", "ignoreBody", "extendTopTerms",
   "waterCounts"}
ScoreModes == {"original", "alt1", "normal"}

ProperHeaders(h) ==
  /\ h.all \in BOOLEAN /\ h.noX \in BOOLEAN /\ h.blank \in BOOLEAN
  /\ DOMAIN h.values \subseteq HeaderNames
  /\ h.values = [n \in DOMAIN h.values |-> <<h.values[n][1], h.values[n][2]>>]
  /\ h = [all |-> h.all, noX |-> h.noX, blank |-> h.blank, values |-> h.values]

(* A value that a member may have. *)
Fits(m, v) ==
  /\ m \in NumberMembers => v \in Nat
  /\ m \in SwitchMembers => v \in BOOLEAN
  /\ m = "targetSizeMB" => v \in Int
  /\ m = "scoreMode" => v \in ScoreModes
  /\ m = "headers" => ProperHeaders(v)

Proper(s) == DOMAIN s = Members /\ \A m \in Members : Fits(m, s[m])

------------------------------------------------------------------------------
(* What is known while a file that was written is loaded *)

Returning == Kept \cup KeptRoughly
Wanted(o, m) == IF m \in KeptRoughly THEN SixDigits(o[m]) ELSE o[m]

(* t is s with v for the member m; the values that the score mode goes back *)
(* to are left aside.                                                       *)
Aftermath == {"defaultMinWordCount", "defaultThreshold"}
Puts(s, t, m, v) ==
  /\ DOMAIN t = Members /\ t[m] = v
  /\ \A n \in Members \ ({m} \cup Aftermath) : t[n] = s[n]

(* The statement gives the member m the value it had in o. *)
Restores(st, o, m) ==
  \A s, reset :
    DOMAIN s = Members => Loaded(st, s, reset).settings[m] = Wanted(o, m)

(* A statement behind the first at ones does. *)
Pending(list, o, m, at) ==
  \E k \in DOMAIN list : k > at /\ Restores(list[k], o, m)

(* The headers after the first at statements of the file: those of o as far *)
(* as they were printed.                                                     *)
PrintedPart(h, n) ==
  [name \in {PrintedNames(h)[i] : i \in 1..n} |-> h.values[name]]
HeadersBack(h, k, reset, g) ==
  LET most == Len(PrintedNames(h))
      n == IF k - 4 < most THEN k - 4 ELSE most
  IN IF h.all THEN k >= 3 => g.all
     ELSE IF DOMAIN h.values = {} THEN k >= 4 => ~g.all /\ g.values = <<>>
     ELSE IF k <= 4 THEN k >= 0 => ~reset
     ELSE reset /\ ~g.all /\ g.values = PrintedPart(h, n)

Progress(list, o, at, reset, s) ==
  /\ at \in Nat /\ reset \in BOOLEAN
  /\ \A m \in Returning : s[m] = Wanted(o, m) \/ Pending(list, o, m, at)
  /\ HeadersBack(o.headers, at - Len(ParserStatements(o)), reset, s.headers)

Known == \A d \in Dirs : KnownTokens(disk.configs[d])

Written ==
  /\ DOMAIN history.saved = Dirs
  /\ \A d \in Dirs :
       LET kept == history.saved[d]
       IN kept.made => /\ Proper(kept.settings)
                       /\ PrintsHeaders(kept.settings.headers)
                       /\ disk.configs[d] = WrittenFile(kept.settings)

Back ==
  LET kept == history.saved[run.load.dir]
  IN run.pc = "loading" /\ kept.made /\ Printable(kept.settings) =>
       Progress(LoadedFile.statements, kept.settings, run.load.at,
                run.load.reset, settings)

BackInv == FoundInv /\ Proper(settings) /\ Known /\ Written /\ Back

(* Changes that fit the members they are for. *)
Fitting(f) == \A m \in DOMAIN f : Fits(m, f[m])
AllFitting(table) == \A t \in DOMAIN table : Fitting(table[t])

LEMMA FittingOver == \A f, g : Fitting(f) /\ Fitting(g) => Fitting(f @@ g)
  BY DEF Fitting, @@

LEMMA TableFitting ==
  ASSUME NEW pairs, \A p \in pairs : Fitting(p[2])
  PROVE  AllFitting(Table(pairs))
<1> SUFFICES ASSUME NEW t \in DOMAIN Table(pairs) PROVE Fitting(Table(pairs)[t])
  BY DEF AllFitting
<1> DEFINE p == CHOOSE q \in pairs : q[1] = t
<1>1. p \in pairs
  BY DEF Table
<1>2. Table(pairs)[t] = p[2]
  BY DEF Table
<1> QED
  BY <1>1, <1>2

(* What a value has to be. *)
LEMMA FitsKinds ==
  /\ \A m \in NumberMembers : \A v \in Nat : Fits(m, v)
  /\ \A m \in SwitchMembers : \A v \in BOOLEAN : Fits(m, v)
  /\ \A v \in Int : Fits("targetSizeMB", v)
  /\ \A v \in ScoreModes : Fits("scoreMode", v)
  /\ \A v : ProperHeaders(v) => Fits("headers", v)
  /\ \A m, v : m \notin NumberMembers \cup SwitchMembers
                          \cup {"targetSizeMB", "scoreMode", "headers"} => Fits(m, v)
<1>1. NumberMembers \cap SwitchMembers = {}
  BY SMT DEF NumberMembers, SwitchMembers
<1>2. /\ "targetSizeMB" \notin NumberMembers \cup SwitchMembers
      /\ "scoreMode" \notin NumberMembers \cup SwitchMembers
      /\ "headers" \notin NumberMembers \cup SwitchMembers
      /\ "targetSizeMB" # "scoreMode" /\ "targetSizeMB" # "headers" /\ "headers" # "scoreMode"
  BY SMT DEF NumberMembers, SwitchMembers
<1> QED
  BY <1>1, <1>2, Zenon DEF Fits

LEMMA NumberFits ==
  \A v \in Nat :
    /\ Fits("minTermLength", v) /\ Fits("maxTermLength", v)
    /\ Fits("minPhraseTerms", v) /\ Fits("maxPhraseTerms", v)
    /\ Fits("minPhraseChars", v) /\ Fits("maxPhraseChars", v)
    /\ Fits("maxTermsPerMessage", v) /\ Fits("goodBias", v)
    /\ Fits("minWordCount", v) /\ Fits("defaultMinWordCount", v)
    /\ Fits("termsForScore", v) /\ Fits("maxWordRepeats", v)
    /\ Fits("minArraySize", v) /\ Fits("maxCacheTerms", v)
    /\ Fits("newWordScore", v) /\ Fits("spamThreshold", v)
    /\ Fits("defaultThreshold", v) /\ Fits("minDistance", v)
<1>1. /\ "minTermLength" \in NumberMembers /\ "maxTermLength" \in NumberMembers
      /\ "minPhraseTerms" \in NumberMembers /\ "maxPhraseTerms" \in NumberMembers
      /\ "minPhraseChars" \in NumberMembers /\ "maxPhraseChars" \in NumberMembers
      /\ "maxTermsPerMessage" \in NumberMembers /\ "goodBias" \in NumberMembers
      /\ "minWordCount" \in NumberMembers /\ "defaultMinWordCount" \in NumberMembers
      /\ "termsForScore" \in NumberMembers /\ "maxWordRepeats" \in NumberMembers
      /\ "minArraySize" \in NumberMembers /\ "maxCacheTerms" \in NumberMembers
      /\ "newWordScore" \in NumberMembers /\ "spamThreshold" \in NumberMembers
      /\ "defaultThreshold" \in NumberMembers /\ "minDistance" \in NumberMembers
  BY DEF NumberMembers
<1> QED
  BY <1>1, FitsKinds, Zenon

LEMMA SwitchFits ==
  \A v \in BOOLEAN :
    /\ Fits("removeHTML", v)
    /\ Fits("keepSuspiciousTags", v)
    /\ Fits("ignoreBody", v)
    /\ Fits("extendTopTerms", v)
    /\ Fits("waterCounts", v)
<1>1. /\ "removeHTML" \in SwitchMembers
      /\ "keepSuspiciousTags" \in SwitchMembers
      /\ "ignoreBody" \in SwitchMembers
      /\ "extendTopTerms" \in SwitchMembers
      /\ "waterCounts" \in SwitchMembers
  BY DEF SwitchMembers
<1> QED
  BY <1>1, FitsKinds, Zenon

LEMMA FreeFits ==
  \A v : /\ Fits("nonAscii", v) /\ Fits("fieldName", v) /\ Fits("selectors", v)
         /\ Fits("type", v) /\ Fits("private", v) /\ Fits("shared", v)
         /\ Fits("messagesPerPurge", v) /\ Fits("pretokenized", v)
         /\ Fits("ignoreFrom", v) /\ Fits("ignoreContentLength", v)
         /\ Fits("createDbDir", v) /\ Fits("statusField", v) /\ Fits("today", v)
<1> DEFINE Typed == NumberMembers \cup SwitchMembers \cup {"targetSizeMB", "scoreMode", "headers"}
<1>1. /\ "nonAscii" \notin Typed /\ "fieldName" \notin Typed /\ "selectors" \notin Typed
      /\ "type" \notin Typed /\ "private" \notin Typed /\ "shared" \notin Typed
      /\ "messagesPerPurge" \notin Typed /\ "pretokenized" \notin Typed
      /\ "ignoreFrom" \notin Typed /\ "ignoreContentLength" \notin Typed
      /\ "createDbDir" \notin Typed /\ "statusField" \notin Typed /\ "today" \notin Typed
  BY SMT DEF NumberMembers, SwitchMembers
<1> HIDE DEF Typed
<1>2. \A m, v : m \notin Typed => Fits(m, v)
  BY FitsKinds, Zenon DEF Typed
<1> QED
  BY <1>1, <1>2, Zenon

LEMMA ChangesFit ==
  /\ Fitting(Graham) /\ Fitting(Sigs) /\ Fitting(WithHtml)
  /\ Fitting(Suspicious) /\ Fitting(Water) /\ Fitting(Nothing)
  /\ Fitting(Extended)
  /\ \A m, n \in Nat : Fitting(Few(m, n)) /\ Fitting(Phrases(m, n)) /\ Fitting(Distance(m, n))
  /\ \A n \in Nat : Fitting(Longest(n)) /\ Fitting(NewWords(n))
  /\ \A n \in Nat : Fitting(LeastChars(n)) /\ Fitting(MostChars(n))
  /\ \A n : Fitting(Today(n)) /\ Fitting(Selectors(n))
  /\ Fitting([ignoreBody |-> TRUE])
  /\ \A n \in Nat : Fitting([maxTermsPerMessage |-> n])
  /\ \A n \in Nat : Fitting([minDistance |-> n, ignoreBody |-> TRUE])
<1>1. \A n \in Nat : Thousandths(n) \in Nat
  BY DEF Thousandths
<1>2. Fitting(Graham)
  <2>1. DOMAIN Graham = {"maxPhraseTerms", "removeHTML", "minTermLength", "maxTermLength", "termsForScore", "maxWordRepeats", "newWordScore", "extendTopTerms"}
    BY DEF Graham
  <2>3. /\ Graham.maxPhraseTerms \in Nat
        /\ Graham.removeHTML \in BOOLEAN
        /\ Graham.minTermLength \in Nat
        /\ Graham.maxTermLength \in Nat
        /\ Graham.termsForScore \in Nat
        /\ Graham.maxWordRepeats \in Nat
        /\ Graham.newWordScore \in Nat
        /\ Graham.extendTopTerms \in BOOLEAN
    BY <1>1, SMT DEF Graham
  <2>2. /\ Fits("maxPhraseTerms", Graham.maxPhraseTerms)
        /\ Fits("removeHTML", Graham.removeHTML)
        /\ Fits("minTermLength", Graham.minTermLength)
        /\ Fits("maxTermLength", Graham.maxTermLength)
        /\ Fits("termsForScore", Graham.termsForScore)
        /\ Fits("maxWordRepeats", Graham.maxWordRepeats)
        /\ Fits("newWordScore", Graham.newWordScore)
        /\ Fits("extendTopTerms", Graham.extendTopTerms)
    BY <2>3, NumberFits, SwitchFits, Zenon
  <2> QED
    BY <2>1, <2>2, Zenon DEF Fitting
<1>3. Fitting(Sigs)
  <2>1. DOMAIN Sigs = {"termsForScore", "maxWordRepeats", "extendTopTerms"}
    BY DEF Sigs
  <2>3. /\ Sigs.termsForScore \in Nat
        /\ Sigs.maxWordRepeats \in Nat
        /\ Sigs.extendTopTerms \in BOOLEAN
    BY SMT DEF Sigs
  <2>2. /\ Fits("termsForScore", Sigs.termsForScore)
        /\ Fits("maxWordRepeats", Sigs.maxWordRepeats)
        /\ Fits("extendTopTerms", Sigs.extendTopTerms)
    BY <2>3, NumberFits, SwitchFits, Zenon
  <2> QED
    BY <2>1, <2>2, Zenon DEF Fitting
<1>10. Fitting(WithHtml)
  <2>1. DOMAIN WithHtml = {"removeHTML"} /\ WithHtml.removeHTML \in BOOLEAN
    BY SMT DEF WithHtml
  <2>2. Fits("removeHTML", WithHtml.removeHTML)
    BY <2>1, SwitchFits, Zenon
  <2> QED
    BY <2>1, <2>2, Zenon DEF Fitting
<1>11. Fitting(Suspicious)
  <2>1. DOMAIN Suspicious = {"keepSuspiciousTags"} /\ Suspicious.keepSuspiciousTags \in BOOLEAN
    BY SMT DEF Suspicious
  <2>2. Fits("keepSuspiciousTags", Suspicious.keepSuspiciousTags)
    BY <2>1, SwitchFits, Zenon
  <2> QED
    BY <2>1, <2>2, Zenon DEF Fitting
<1>13. Fitting(Water)
  <2>1. DOMAIN Water = {"waterCounts"} /\ Water.waterCounts \in BOOLEAN
    BY SMT DEF Water
  <2>2. Fits("waterCounts", Water.waterCounts)
    BY <2>1, SwitchFits, Zenon
  <2> QED
    BY <2>1, <2>2, Zenon DEF Fitting
<1>14. Fitting(Extended)
  <2>1. DOMAIN Extended = {"extendTopTerms"} /\ Extended.extendTopTerms \in BOOLEAN
    BY SMT DEF Extended
  <2>2. Fits("extendTopTerms", Extended.extendTopTerms)
    BY <2>1, SwitchFits, Zenon
  <2> QED
    BY <2>1, <2>2, Zenon DEF Fitting
<1>12. Fitting(Nothing)
  BY SMT DEF Fitting, Nothing
<1>4. \A m, n \in Nat : Fitting(Few(m, n)) /\ Fitting(Phrases(m, n)) /\ Fitting(Distance(m, n))
  BY NumberFits, SMT DEF Fitting, Few, Phrases, Distance
<1>5. \A n \in Nat : Fitting(Longest(n)) /\ Fitting(NewWords(n))
  BY NumberFits, SMT DEF Fitting, Longest, NewWords
<1>6. \A n \in Nat : Fitting(LeastChars(n)) /\ Fitting(MostChars(n))
  BY NumberFits, SMT DEF Fitting, LeastChars, MostChars
<1>7. \A n : Fitting(Today(n)) /\ Fitting(Selectors(n))
  BY FreeFits, SMT DEF Fitting, Today, Selectors
<1> DEFINE Body == [ignoreBody |-> TRUE]
<1>8. Fitting(Body)
  <2>1. DOMAIN Body = {"ignoreBody"} /\ Body.ignoreBody \in BOOLEAN
    BY SMT
  <2> HIDE DEF Body
  <2>2. Fits("ignoreBody", Body.ignoreBody)
    BY <2>1, SwitchFits, Zenon
  <2> QED
    BY <2>1, <2>2, Zenon DEF Fitting
<1>15. \A n \in Nat : Fitting([maxTermsPerMessage |-> n])
  BY NumberFits, SMT DEF Fitting
<1>9. ASSUME NEW n \in Nat PROVE Fitting([minDistance |-> n, ignoreBody |-> TRUE])
  <2> DEFINE f == [minDistance |-> n, ignoreBody |-> TRUE]
  <2>1. DOMAIN f = {"minDistance", "ignoreBody"} /\ f.minDistance = n /\ f.ignoreBody \in BOOLEAN
    BY SMT
  <2> HIDE DEF f
  <2>2. Fits("minDistance", f.minDistance) /\ Fits("ignoreBody", f.ignoreBody)
    BY <2>1, SwitchFits, NumberFits, Zenon
  <2>3. Fitting(f)
    BY <2>1, <2>2, Zenon DEF Fitting
  <2> QED
    BY <2>3 DEF f
<1> QED
  BY <1>2, <1>3, <1>4, <1>5, <1>6, <1>7, <1>8, <1>9, <1>10, <1>11, <1>12, <1>13, <1>14, <1>15, Zenon

LEMMA PairsFit ==
  /\ \A m, n \in Nat : Fitting(Distance(m, n) @@ [ignoreBody |-> TRUE])
  /\ \A m, n, v \in Nat : Fitting(Distance(m, n) @@ [maxTermsPerMessage |-> v])
  /\ \A m, n \in Nat : Fitting(Sigs @@ Phrases(m, n)) /\ Fitting(Water @@ Phrases(m, n))
  /\ \A n \in Nat : Fitting(Sigs @@ Longest(n)) /\ Fitting(NewWords(n) @@ Graham)
  /\ \A m, n \in Nat : Fitting(Longest(m) @@ MostChars(n))
  /\ \A m, n, v \in Nat : Fitting(Few(m, n) @@ Longest(v))
  /\ Fitting(Water @@ Extended)
  /\ \A n \in Nat : Fitting(NewWords(n) @@ Suspicious) /\ Fitting(Water @@ NewWords(n))
  /\ \A m, n, i, j, k \in Nat : Fitting(Distance(m, n) @@ Few(i, j) @@ Water
                                        @@ NewWords(k) @@ Extended)
  BY ChangesFit, FittingOver, Zenon

(* The table of the test cases. *)
FittingPair(p) == Fitting(p[2])
LEMMA PairFits == \A n, f : Fitting(f) => FittingPair(<<n, f>>)
  BY DEF FittingPair

LEMMA TableNumbers ==
  1 \in Nat /\ 2 \in Nat /\ 3 \in Nat /\ 4 \in Nat /\ 5 \in Nat /\ 8 \in Nat /\ 10 \in Nat /\ 12 \in Nat /\ 15 \in Nat /\ 20 \in Nat /\ 30 \in Nat
  /\ 200 \in Nat /\ 250 \in Nat /\ 300 \in Nat /\ 330 \in Nat /\ 350 \in Nat /\ 400 \in Nat /\ 450 \in Nat /\ 490 \in Nat /\ 495 \in Nat /\ 500 \in Nat /\ 880 \in Nat
  OBVIOUS

LEMMA EarlyFit == AllFitting(EarlyTestCases)
<1>1. \A n \in Nat : Thousandths(n) \in Nat
  BY DEF Thousandths
<1>2. /\ Fitting(Graham)
      /\ Fitting(Sigs)
      /\ Fitting(Sigs @@ Longest(3))
      /\ Fitting(Sigs @@ Longest(5))
      /\ Fitting(Phrases(2, 3))
      /\ Fitting(Phrases(3, 4))
      /\ Fitting(Phrases(4, 5))
      /\ Fitting(Phrases(2, 5))
      /\ Fitting(Sigs @@ Phrases(2, 3))
      /\ Fitting(Water @@ Phrases(2, 3))
      /\ Fitting(Sigs @@ Phrases(3, 5))
      /\ Fitting(Sigs @@ Phrases(5, 5))
      /\ Fitting(NewWords(Thousandths(200)) @@ Graham)
      /\ Fitting(WithHtml)
      /\ Fitting(NewWords(Thousandths(200)))
      /\ Fitting(NewWords(Thousandths(880)))
      /\ Fitting(Longest(1))
      /\ Fitting(Extended)
      /\ Fitting(Today("1"))
      /\ Fitting(Today("2"))
      /\ Fitting(Today("3"))
      /\ Fitting(Today("10"))
      /\ Fitting(Longest(3))
      /\ Fitting(Longest(5))
      /\ Fitting(Phrases(2, 2))
      /\ Fitting(Phrases(3, 3))
      /\ Fitting(Phrases(4, 4))
      /\ Fitting(Phrases(5, 5))
      /\ Fitting(LeastChars(12))
      /\ Fitting(Longest(20) @@ MostChars(20))
      /\ Fitting(Few(15, 1))
      /\ Fitting(Few(15, 1) @@ Longest(1))
      /\ Fitting(Suspicious)
      /\ Fitting(Distance(Thousandths(250), 8))
  BY <1>1, TableNumbers, ChangesFit, PairsFit, ZenonT(60)
<1>3. \A p \in EarlyCases : FittingPair(p)
  BY <1>2, PairFits, SMTT(90) DEF EarlyCases
<1>4. \A p \in EarlyCases : Fitting(p[2])
  BY <1>3 DEF FittingPair
<1> QED
  BY <1>4, TableFitting DEF EarlyTestCases

LEMMA TableFractions ==
  /\ Thousandths(250) \in Nat /\ Thousandths(300) \in Nat /\ Thousandths(330) \in Nat
  /\ Thousandths(400) \in Nat /\ Thousandths(450) \in Nat /\ Thousandths(490) \in Nat
  /\ Thousandths(495) \in Nat /\ Thousandths(500) \in Nat /\ Thousandths(880) \in Nat
  BY DEF Thousandths

LEMMA LateFit == AllFitting(LateTestCases)
<1>1. /\ Fitting(Distance(Thousandths(330), 10)) /\ Fitting(Distance(Thousandths(330), 8))
      /\ Fitting(Distance(Thousandths(400), 8)) /\ Fitting(Distance(Thousandths(450), 8))
      /\ Fitting(Distance(Thousandths(490), 8)) /\ Fitting(Distance(Thousandths(495), 8))
      /\ Fitting(Distance(Thousandths(400), 10)) /\ Fitting(Distance(Thousandths(250), 12))
      /\ Fitting(Distance(Thousandths(300), 10))
  <2>1. \A m, n \in Nat : Fitting(Distance(m, n))
    BY ChangesFit
  <2> QED
    BY <2>1, TableFractions, TableNumbers, SMT
<1>8. /\ Fitting(NewWords(Thousandths(880))) /\ Fitting(NewWords(Thousandths(400)))
      /\ Fitting(NewWords(Thousandths(500))) /\ Fitting(Few(30, 2)) /\ Fitting(Selectors("four"))
      /\ Fitting(Water) /\ Fitting(Extended) /\ Fitting(Suspicious)
  <2>1. /\ \A n \in Nat : Fitting(NewWords(n))
        /\ \A m, n \in Nat : Fitting(Few(m, n))
        /\ Fitting(Selectors("four")) /\ Fitting(Water) /\ Fitting(Extended)
        /\ Fitting(Suspicious)
    BY ChangesFit, SMT
  <2> QED
    BY <2>1, TableFractions, TableNumbers, SMT
<1>2. /\ Fitting(Water @@ Extended)
      /\ Fitting(NewWords(Thousandths(880)) @@ Suspicious)
      /\ Fitting(Water @@ NewWords(Thousandths(400)))
  BY <1>8, FittingOver, SMT
<1>6. Fitting(Distance(Thousandths(250), 12) @@ Few(30, 2) @@ Water @@ NewWords(Thousandths(500)) @@ Extended)
  BY <1>1, <1>8, FittingOver, SMT
<1>9. /\ Fitting([ignoreBody |-> TRUE]) /\ Fitting([maxTermsPerMessage |-> 250])
      /\ Fitting([maxTermsPerMessage |-> 350]) /\ Fitting([maxTermsPerMessage |-> 500])
  BY ChangesFit, TableNumbers, SMT
<1>5. /\ Fitting(Distance(Thousandths(300), 10) @@ [ignoreBody |-> TRUE])
      /\ Fitting(Distance(Thousandths(300), 10) @@ [maxTermsPerMessage |-> 250])
      /\ Fitting(Distance(Thousandths(300), 10) @@ [maxTermsPerMessage |-> 350])
      /\ Fitting(Distance(Thousandths(300), 10) @@ [maxTermsPerMessage |-> 500])
  BY <1>1, <1>9, FittingOver, SMT
<1>7. Fitting(HeadersOnly) /\ Fitting(Terms(250)) /\ Fitting(Terms(350)) /\ Fitting(Terms(500))
  BY <1>5, Zenon DEF HeadersOnly, Terms
<1>3. \A p \in LateCases : FittingPair(p)
  BY <1>1, <1>2, <1>6, <1>7, <1>8, PairFits, SMTT(90) DEF LateCases
<1>4. \A p \in LateCases : Fitting(p[2])
  BY <1>3 DEF FittingPair
<1> QED
  BY <1>4, TableFitting DEF LateTestCases
------------------------------------------------------------------------------
(* The settings keep values of their kinds. *)

LEMMA NamedMembers ==
  /\ "minTermLength" \in Members
  /\ "maxTermLength" \in Members
  /\ "minPhraseTerms" \in Members
  /\ "maxPhraseTerms" \in Members
  /\ "minPhraseChars" \in Members
  /\ "maxPhraseChars" \in Members
  /\ "maxTermsPerMessage" \in Members
  /\ "goodBias" \in Members
  /\ "termsForScore" \in Members
  /\ "maxWordRepeats" \in Members
  /\ "minArraySize" \in Members
  /\ "maxCacheTerms" \in Members
  /\ "newWordScore" \in Members
  /\ "minDistance" \in Members
  /\ "defaultThreshold" \in Members
  /\ "removeHTML" \in Members
  /\ "keepSuspiciousTags" \in Members
  /\ "ignoreBody" \in Members
  /\ "extendTopTerms" \in Members
  /\ "waterCounts" \in Members
  /\ "nonAscii" \in Members
  /\ "fieldName" \in Members
  /\ "type" \in Members
  /\ "private" \in Members
  /\ "shared" \in Members
  /\ "messagesPerPurge" \in Members
  /\ "pretokenized" \in Members
  /\ "ignoreFrom" \in Members
  /\ "ignoreContentLength" \in Members
  /\ "createDbDir" \in Members
  /\ "statusField" \in Members
  /\ "targetSizeMB" \in Members
  /\ "headers" \in Members
  /\ "scoreMode" \in Members
  /\ "minWordCount" \in Members
  /\ "spamThreshold" \in Members
  /\ "defaultMinWordCount" \in Members
  /\ "today" \in Members
  /\ "selectors" \in Members
  BY DEF Members, ParserMembers, FilterMembers, DatabaseMembers, CommandMembers

(* Setters that assign one member. *)
NumberSetters(s) ==
  \A v \in Nat :
    /\ Proper([s EXCEPT !.minTermLength = v])
    /\ Proper([s EXCEPT !.maxTermLength = v])
    /\ Proper([s EXCEPT !.minPhraseTerms = v])
    /\ Proper([s EXCEPT !.maxPhraseTerms = v])
    /\ Proper([s EXCEPT !.minPhraseChars = v])
    /\ Proper([s EXCEPT !.maxPhraseChars = v])
    /\ Proper([s EXCEPT !.maxTermsPerMessage = v])
    /\ Proper([s EXCEPT !.goodBias = v])
    /\ Proper([s EXCEPT !.termsForScore = v])
    /\ Proper([s EXCEPT !.maxWordRepeats = v])
    /\ Proper([s EXCEPT !.minArraySize = v])
    /\ Proper([s EXCEPT !.maxCacheTerms = v])
    /\ Proper([s EXCEPT !.newWordScore = v])
    /\ Proper([s EXCEPT !.minDistance = v])
    /\ Proper([s EXCEPT !.defaultThreshold = v])
SwitchSetters(s) ==
  \A v \in BOOLEAN :
    /\ Proper([s EXCEPT !.removeHTML = v])
    /\ Proper([s EXCEPT !.keepSuspiciousTags = v])
    /\ Proper([s EXCEPT !.ignoreBody = v])
    /\ Proper([s EXCEPT !.extendTopTerms = v])
    /\ Proper([s EXCEPT !.waterCounts = v])
FreeSetters(s) ==
  \A v :
    /\ Proper([s EXCEPT !.nonAscii = v])
    /\ Proper([s EXCEPT !.fieldName = v])
    /\ Proper([s EXCEPT !.type = v])
    /\ Proper([s EXCEPT !.private = v])
    /\ Proper([s EXCEPT !.shared = v])
    /\ Proper([s EXCEPT !.messagesPerPurge = v])
    /\ Proper([s EXCEPT !.pretokenized = v])
    /\ Proper([s EXCEPT !.ignoreFrom = v])
    /\ Proper([s EXCEPT !.ignoreContentLength = v])
    /\ Proper([s EXCEPT !.createDbDir = v])
    /\ Proper([s EXCEPT !.statusField = v])
OtherSetters(s) ==
  /\ \A v \in Int : Proper([s EXCEPT !.targetSizeMB = v])
  /\ \A v : ProperHeaders(v) => Proper([s EXCEPT !.headers = v])
Setters(s) == NumberSetters(s) /\ SwitchSetters(s) /\ FreeSetters(s) /\ OtherSetters(s)

LEMMA ProperPuts == ASSUME NEW s, Proper(s) PROVE Setters(s)
<1>1. \A v \in Nat : Proper([s EXCEPT !.minTermLength = v])
  BY NumberFits, NamedMembers, SMT DEF Proper
<1>2. \A v \in Nat : Proper([s EXCEPT !.maxTermLength = v])
  BY NumberFits, NamedMembers, SMT DEF Proper
<1>3. \A v \in Nat : Proper([s EXCEPT !.minPhraseTerms = v])
  BY NumberFits, NamedMembers, SMT DEF Proper
<1>4. \A v \in Nat : Proper([s EXCEPT !.maxPhraseTerms = v])
  BY NumberFits, NamedMembers, SMT DEF Proper
<1>5. \A v \in Nat : Proper([s EXCEPT !.minPhraseChars = v])
  BY NumberFits, NamedMembers, SMT DEF Proper
<1>6. \A v \in Nat : Proper([s EXCEPT !.maxPhraseChars = v])
  BY NumberFits, NamedMembers, SMT DEF Proper
<1>7. \A v \in Nat : Proper([s EXCEPT !.maxTermsPerMessage = v])
  BY NumberFits, NamedMembers, SMT DEF Proper
<1>8. \A v \in Nat : Proper([s EXCEPT !.goodBias = v])
  BY NumberFits, NamedMembers, SMT DEF Proper
<1>9. \A v \in Nat : Proper([s EXCEPT !.termsForScore = v])
  BY NumberFits, NamedMembers, SMT DEF Proper
<1>10. \A v \in Nat : Proper([s EXCEPT !.maxWordRepeats = v])
  BY NumberFits, NamedMembers, SMT DEF Proper
<1>11. \A v \in Nat : Proper([s EXCEPT !.minArraySize = v])
  BY NumberFits, NamedMembers, SMT DEF Proper
<1>12. \A v \in Nat : Proper([s EXCEPT !.maxCacheTerms = v])
  BY NumberFits, NamedMembers, SMT DEF Proper
<1>13. \A v \in Nat : Proper([s EXCEPT !.newWordScore = v])
  BY NumberFits, NamedMembers, SMT DEF Proper
<1>14. \A v \in Nat : Proper([s EXCEPT !.minDistance = v])
  BY NumberFits, NamedMembers, SMT DEF Proper
<1>15. \A v \in Nat : Proper([s EXCEPT !.defaultThreshold = v])
  BY NumberFits, NamedMembers, SMT DEF Proper
<1>16. \A v \in BOOLEAN : Proper([s EXCEPT !.removeHTML = v])
  BY SwitchFits, NamedMembers, SMT DEF Proper
<1>17. \A v \in BOOLEAN : Proper([s EXCEPT !.keepSuspiciousTags = v])
  BY SwitchFits, NamedMembers, SMT DEF Proper
<1>18. \A v \in BOOLEAN : Proper([s EXCEPT !.ignoreBody = v])
  BY SwitchFits, NamedMembers, SMT DEF Proper
<1>19. \A v \in BOOLEAN : Proper([s EXCEPT !.extendTopTerms = v])
  BY SwitchFits, NamedMembers, SMT DEF Proper
<1>20. \A v \in BOOLEAN : Proper([s EXCEPT !.waterCounts = v])
  BY SwitchFits, NamedMembers, SMT DEF Proper
<1>21. \A v : Proper([s EXCEPT !.nonAscii = v])
  BY FreeFits, NamedMembers, SMT DEF Proper
<1>22. \A v : Proper([s EXCEPT !.fieldName = v])
  BY FreeFits, NamedMembers, SMT DEF Proper
<1>23. \A v : Proper([s EXCEPT !.type = v])
  BY FreeFits, NamedMembers, SMT DEF Proper
<1>24. \A v : Proper([s EXCEPT !.private = v])
  BY FreeFits, NamedMembers, SMT DEF Proper
<1>25. \A v : Proper([s EXCEPT !.shared = v])
  BY FreeFits, NamedMembers, SMT DEF Proper
<1>26. \A v : Proper([s EXCEPT !.messagesPerPurge = v])
  BY FreeFits, NamedMembers, SMT DEF Proper
<1>27. \A v : Proper([s EXCEPT !.pretokenized = v])
  BY FreeFits, NamedMembers, SMT DEF Proper
<1>28. \A v : Proper([s EXCEPT !.ignoreFrom = v])
  BY FreeFits, NamedMembers, SMT DEF Proper
<1>29. \A v : Proper([s EXCEPT !.ignoreContentLength = v])
  BY FreeFits, NamedMembers, SMT DEF Proper
<1>30. \A v : Proper([s EXCEPT !.createDbDir = v])
  BY FreeFits, NamedMembers, SMT DEF Proper
<1>31. \A v : Proper([s EXCEPT !.statusField = v])
  BY FreeFits, NamedMembers, SMT DEF Proper
<1>32. \A v \in Int : Proper([s EXCEPT !.targetSizeMB = v])
  BY FitsKinds, NamedMembers, SMT DEF Proper
<1>33. \A v : ProperHeaders(v) => Proper([s EXCEPT !.headers = v])
  BY FitsKinds, NamedMembers, SMT DEF Proper
<1>A. NumberSetters(s)
  BY <1>1, <1>2, <1>3, <1>4, <1>5, <1>6, <1>7, <1>8, <1>9, <1>10, <1>11, <1>12, <1>13, <1>14, <1>15, Zenon DEF NumberSetters
<1>B. SwitchSetters(s)
  BY <1>16, <1>17, <1>18, <1>19, <1>20, Zenon DEF SwitchSetters
<1>C. FreeSetters(s)
  BY <1>21, <1>22, <1>23, <1>24, <1>25, <1>26, <1>27, <1>28, <1>29, <1>30, <1>31, Zenon DEF FreeSetters
<1>D. OtherSetters(s)
  BY <1>32, <1>33, Zenon DEF OtherSetters
<1> QED
  BY <1>A, <1>B, <1>C, <1>D, Zenon DEF Setters

LEMMA ProperWith ==
  ASSUME NEW s, Proper(s), NEW changes, Fitting(changes)
  PROVE  Proper(With(s, changes))
  BY Zenon DEF Proper, With, Fitting

(* What the setters that touch several members leave. *)
LEMMA ModeEffect ==
  ASSUME NEW s, DOMAIN s = Members, NEW mode
  PROVE  LET t == SetScoreMode(s, mode)
         IN /\ DOMAIN t = Members /\ t.scoreMode = mode
            /\ t.goodBias = IF mode = "alt1" THEN 1 ELSE 2
            /\ t.minWordCount = IF mode = "alt1" THEN 1 ELSE s.defaultMinWordCount
            /\ mode = "alt1" => t.spamThreshold = 6000000
            /\ mode = "original" => t.spamThreshold = 9000000
            /\ mode = "normal" => t.spamThreshold = s.defaultThreshold
            /\ \A m \in Members \ {"scoreMode", "goodBias", "minWordCount",
                                    "spamThreshold"} : t[m] = s[m]
<1> DEFINE bias == IF mode = "alt1" THEN 1 ELSE 2
           count == IF mode = "alt1" THEN 1 ELSE s.defaultMinWordCount
           threshold == CASE mode = "alt1" -> 6000000
                          [] mode = "original" -> 9000000
                          [] mode = "normal" -> s.defaultThreshold
           t == SetScoreMode(s, mode)
<1>1. t = [s EXCEPT !.scoreMode = mode, !.goodBias = bias,
                    !.minWordCount = count, !.spamThreshold = threshold]
  BY SMT DEF SetScoreMode
<1>2. {"scoreMode", "goodBias", "minWordCount", "spamThreshold"} \subseteq DOMAIN s
  BY NamedMembers
<1>4. /\ mode = "alt1" => threshold = 6000000
      /\ mode = "original" => threshold = 9000000
      /\ mode = "normal" => threshold = s.defaultThreshold
  BY SMT
<1> HIDE DEF t, bias, count, threshold
<1> DEFINE u == [s EXCEPT !.scoreMode = mode, !.goodBias = bias]
<1>5. /\ DOMAIN u = Members /\ u.scoreMode = mode /\ u.goodBias = bias
      /\ \A m \in Members \ {"scoreMode", "goodBias"} : u[m] = s[m]
  <2> DEFINE r == [s EXCEPT !.scoreMode = mode]
  <2>1. /\ DOMAIN r = Members /\ r.scoreMode = mode
        /\ \A m \in Members \ {"scoreMode"} : r[m] = s[m]
    BY <1>2, SMT
  <2>2. u = [r EXCEPT !.goodBias = bias]
    BY SMT
  <2> HIDE DEF r, u
  <2> QED
    BY <1>2, <2>1, <2>2, SMT
<1>6. t = [u EXCEPT !.minWordCount = count, !.spamThreshold = threshold]
  BY <1>1, SMT
<1> HIDE DEF u
<1> DEFINE w == [u EXCEPT !.minWordCount = count]
<1>7. /\ DOMAIN w = Members /\ w.minWordCount = count
      /\ \A m \in Members \ {"minWordCount"} : w[m] = u[m]
  BY <1>2, <1>5, SMT
<1>8. t = [w EXCEPT !.spamThreshold = threshold]
  BY <1>6, SMT
<1> HIDE DEF w
<1>3. /\ DOMAIN t = Members /\ t.scoreMode = mode /\ t.goodBias = bias
      /\ t.minWordCount = count /\ t.spamThreshold = threshold
      /\ \A m \in Members \ {"scoreMode", "goodBias", "minWordCount",
                              "spamThreshold"} : t[m] = s[m]
  BY <1>2, <1>5, <1>7, <1>8, SMT
<1> QED
  BY <1>3, <1>4, SMT DEF t, bias, count

LEMMA WordCountEffect ==
  ASSUME NEW s, DOMAIN s = Members, NEW n
  PROVE  LET t == SetMinWordCount(s, n)
         IN /\ DOMAIN t = Members
            /\ t.minWordCount = n /\ t.defaultMinWordCount = n
            /\ \A m \in Members \ {"minWordCount", "defaultMinWordCount"} : t[m] = s[m]
<1>1. {"minWordCount", "defaultMinWordCount"} \subseteq DOMAIN s
  BY NamedMembers
<1> DEFINE t == SetMinWordCount(s, n)
<1>2. DOMAIN t = Members
  BY SMT DEF SetMinWordCount
<1>3. t.minWordCount = n /\ t.defaultMinWordCount = n
  BY <1>1, SMT DEF SetMinWordCount
<1> DEFINE u == [s EXCEPT !.minWordCount = n]
<1>5. DOMAIN u = Members /\ \A m \in Members \ {"minWordCount"} : u[m] = s[m]
  BY <1>1, SMT
<1>6. t = [u EXCEPT !.defaultMinWordCount = n]
  BY SMT DEF SetMinWordCount
<1> HIDE DEF t, u
<1>4. \A m \in Members \ {"minWordCount", "defaultMinWordCount"} : t[m] = s[m]
  BY <1>5, <1>6, SMT
<1> QED
  BY <1>2, <1>3, <1>4 DEF t

LEMMA ThresholdEffect ==
  ASSUME NEW s, DOMAIN s = Members, NEW v
  PROVE  LET t == SetSpamThreshold(s, v)
         IN /\ DOMAIN t = Members
            /\ t.spamThreshold = v /\ t.defaultThreshold = v
            /\ \A m \in Members \ {"spamThreshold", "defaultThreshold"} : t[m] = s[m]
<1>1. {"spamThreshold", "defaultThreshold"} \subseteq DOMAIN s
  BY NamedMembers
<1> DEFINE t == SetSpamThreshold(s, v)
<1>2. DOMAIN t = Members
  BY SMT DEF SetSpamThreshold
<1>3. t.spamThreshold = v /\ t.defaultThreshold = v
  BY <1>1, SMT DEF SetSpamThreshold
<1> DEFINE u == [s EXCEPT !.spamThreshold = v]
<1>5. DOMAIN u = Members /\ \A m \in Members \ {"spamThreshold"} : u[m] = s[m]
  BY <1>1, SMT
<1>6. t = [u EXCEPT !.defaultThreshold = v]
  BY SMT DEF SetSpamThreshold
<1> HIDE DEF t, u
<1>4. \A m \in Members \ {"spamThreshold", "defaultThreshold"} : t[m] = s[m]
  BY <1>5, <1>6, SMT
<1> QED
  BY <1>2, <1>3, <1>4 DEF t

LEMMA ProperScoring ==
  ASSUME NEW s, Proper(s)
  PROVE  /\ \A mode \in ScoreModes : Proper(SetScoreMode(s, mode))
         /\ \A n \in Nat : /\ Proper(SetMinWordCount(s, n))
                           /\ Proper(SetSpamThreshold(s, n))
                           /\ Proper(SetDefaultThreshold(s, n))
         /\ \A v : Proper(SetReplaceNonAscii(s, v))
<1>1. ASSUME NEW r, Proper(r), NEW mode \in ScoreModes
      PROVE  Proper(SetScoreMode(r, mode))
  <2> DEFINE t == SetScoreMode(r, mode)
  <2>1. r.defaultMinWordCount \in Nat /\ r.defaultThreshold \in Nat
    BY <1>1, NamedMembers, SMT DEF Proper, Fits, NumberMembers
  <2>2. DOMAIN r = Members /\ \A m \in Members : Fits(m, r[m])
    BY <1>1 DEF Proper
  <2>3. /\ DOMAIN t = Members /\ t.scoreMode \in ScoreModes
        /\ t.goodBias \in Nat /\ t.minWordCount \in Nat /\ t.spamThreshold \in Nat
        /\ \A m \in Members \ {"scoreMode", "goodBias", "minWordCount",
                                "spamThreshold"} : t[m] = r[m]
    BY <1>1, <2>1, <2>2, ModeEffect, SMT DEF ScoreModes
  <2> HIDE DEF t
  <2>4. /\ Fits("scoreMode", t.scoreMode) /\ Fits("goodBias", t.goodBias)
        /\ Fits("minWordCount", t.minWordCount) /\ Fits("spamThreshold", t.spamThreshold)
    BY <2>3, NumberFits, FitsKinds, SMT
  <2>5. Proper(t)
    BY <2>2, <2>3, <2>4, SMT DEF Proper
  <2> QED
    BY <2>5 DEF t
<1>2. \A v \in Nat : Proper([s EXCEPT !.defaultThreshold = v])
  BY ProperPuts, Zenon DEF Setters, NumberSetters
<1>3. s.scoreMode \in ScoreModes
  BY NamedMembers, SMT DEF Proper, Fits
<1>4. \A n \in Nat : Proper(SetDefaultThreshold(s, n))
  BY <1>1, <1>2, <1>3, Zenon DEF SetDefaultThreshold
<1>5. DOMAIN s = Members /\ \A m \in Members : Fits(m, s[m])
  BY DEF Proper
<1>6. ASSUME NEW n \in Nat PROVE Proper(SetMinWordCount(s, n)) /\ Proper(SetSpamThreshold(s, n))
  <2>1. /\ Fits("minWordCount", n) /\ Fits("defaultMinWordCount", n)
        /\ Fits("spamThreshold", n) /\ Fits("defaultThreshold", n)
    BY NumberFits, SMT
  <2>2. Proper(SetMinWordCount(s, n))
    BY <1>5, <2>1, WordCountEffect, SMT DEF Proper
  <2>3. Proper(SetSpamThreshold(s, n))
    BY <1>5, <2>1, ThresholdEffect, SMT DEF Proper
  <2> QED
    BY <2>2, <2>3
<1>7. \A v : Proper(SetReplaceNonAscii(s, v))
  BY ProperPuts, Zenon DEF Setters, FreeSetters, SetReplaceNonAscii
<1> QED
  BY <1>1, <1>4, <1>6, <1>7, Zenon

------------------------------------------------------------------------------
(* Headers with entries of their kind. *)

ProperValues(f) ==
  /\ DOMAIN f \subseteq HeaderNames
  /\ f = [n \in DOMAIN f |-> <<f[n][1], f[n][2]>>]

LEMMA TheHeaderNames ==
  HeaderNames = {"bcc", "cc", "content-type", "errors-to", "from", "list-id",
    "message-id", "originator", "received", "references", "reply-to",
    "sender", "subject", "to", "user-agent", "x-beenthere", "x-mailer",
    "x-spam-status"}
<1>1. DOMAIN HeaderOrder = 1..18
  BY SMT DEF HeaderOrder
<1>2. /\ HeaderOrder[1] = "bcc" /\ HeaderOrder[2] = "cc"
      /\ HeaderOrder[3] = "content-type" /\ HeaderOrder[4] = "errors-to"
      /\ HeaderOrder[5] = "from" /\ HeaderOrder[6] = "list-id"
      /\ HeaderOrder[7] = "message-id" /\ HeaderOrder[8] = "originator"
      /\ HeaderOrder[9] = "received" /\ HeaderOrder[10] = "references"
      /\ HeaderOrder[11] = "reply-to" /\ HeaderOrder[12] = "sender"
      /\ HeaderOrder[13] = "subject" /\ HeaderOrder[14] = "to"
      /\ HeaderOrder[15] = "user-agent" /\ HeaderOrder[16] = "x-beenthere"
      /\ HeaderOrder[17] = "x-mailer" /\ HeaderOrder[18] = "x-spam-status"
  BY SMT DEF HeaderOrder
<1>3. HeaderNames = {HeaderOrder[i] : i \in 1..18}
  BY <1>1, Zenon DEF HeaderNames
<1> QED
  BY <1>2, <1>3, SMT

LEMMA ValuesOver ==
  ASSUME NEW f, ProperValues(f), NEW g, ProperValues(g) PROVE ProperValues(f @@ g)
  BY SMT DEF ProperValues, @@

LEMMA ValuesSimply ==
  ASSUME NEW names, names \subseteq HeaderNames PROVE ProperValues(Simply(names))
  BY SMT DEF ProperValues, Simply

LEMMA ValuesOne ==
  ASSUME NEW name \in HeaderNames, NEW a, NEW b PROVE ProperValues(name :> <<a, b>>)
  BY SMT DEF ProperValues, :>

LEMMA ValuesNone == ProperValues(<<>>)
  BY SMT DEF ProperValues

HeaderList(all, noX, blank, values) ==
  [all |-> all, noX |-> noX, blank |-> blank, values |-> values]

LEMMA ProperList ==
  ASSUME NEW all \in BOOLEAN, NEW noX \in BOOLEAN, NEW blank \in BOOLEAN,
         NEW values, ProperValues(values)
  PROVE  ProperHeaders(HeaderList(all, noX, blank, values))
<1> DEFINE h == [all |-> all, noX |-> noX, blank |-> blank, values |-> values]
<1>1. /\ h.all = all /\ h.noX = noX /\ h.blank = blank /\ h.values = values
      /\ h = [all |-> h.all, noX |-> h.noX, blank |-> h.blank, values |-> h.values]
  OBVIOUS
<1> HIDE DEF h
<1>2. ProperHeaders(h)
  BY <1>1, Zenon DEF ProperHeaders, ProperValues
<1> QED
  BY <1>2 DEF h, HeaderList

SetValues(h, f) == [h EXCEPT !.values = f]
SetBlank(h, b) == [h EXCEPT !.blank = b]
SetAll(h, b) == [h EXCEPT !.all = b]
SetNoX(h, b) == [h EXCEPT !.noX = b]

LEMMA ListUpdates ==
  ASSUME NEW a, NEW x, NEW b, NEW f, NEW v
  PROVE  /\ SetValues(HeaderList(a, x, b, f), v) = HeaderList(a, x, b, v)
         /\ SetBlank(HeaderList(a, x, b, f), v) = HeaderList(a, x, v, f)
         /\ SetAll(HeaderList(a, x, b, f), v) = HeaderList(v, x, b, f)
         /\ SetNoX(HeaderList(a, x, b, f), v) = HeaderList(a, v, b, f)
<1>1. SetValues(HeaderList(a, x, b, f), v) = HeaderList(a, x, b, v)
  BY SMT DEF HeaderList, SetValues
<1>2. SetBlank(HeaderList(a, x, b, f), v) = HeaderList(a, x, v, f)
  BY SMT DEF HeaderList, SetBlank
<1>3. SetAll(HeaderList(a, x, b, f), v) = HeaderList(v, x, b, f)
  BY SMT DEF HeaderList, SetAll
<1>4. SetNoX(HeaderList(a, x, b, f), v) = HeaderList(a, v, b, f)
  BY SMT DEF HeaderList, SetNoX
<1> QED
  BY <1>1, <1>2, <1>3, <1>4, Zenon

LEMMA ProperModes ==
  ProperHeaders(NoHeaders) /\ ProperHeaders(AllHeaders) /\ ProperHeaders(NonXHeaders)
<1>1. NoHeaders = HeaderList(FALSE, FALSE, FALSE, <<>>)
  BY DEF NoHeaders, HeaderList
<1>2. AllHeaders = SetAll(NoHeaders, TRUE)
  BY SMT DEF AllHeaders, SetAll
<1>3. NonXHeaders = SetNoX(SetAll(NoHeaders, TRUE), TRUE)
  BY SMT DEF NonXHeaders, SetAll, SetNoX
<1>6. /\ SetAll(HeaderList(FALSE, FALSE, FALSE, <<>>), TRUE)
           = HeaderList(TRUE, FALSE, FALSE, <<>>)
      /\ SetNoX(HeaderList(TRUE, FALSE, FALSE, <<>>), TRUE)
           = HeaderList(TRUE, TRUE, FALSE, <<>>)
  <2> DEFINE no == FALSE
             yes == TRUE
  <2> HIDE DEF no, yes
  <2>1. /\ SetAll(HeaderList(no, no, no, <<>>), yes) = HeaderList(yes, no, no, <<>>)
        /\ SetNoX(HeaderList(yes, no, no, <<>>), yes) = HeaderList(yes, yes, no, <<>>)
    BY ListUpdates, SMT
  <2> QED
    BY <2>1 DEF no, yes
<1>7. SetAll(NoHeaders, TRUE) = SetAll(HeaderList(FALSE, FALSE, FALSE, <<>>), TRUE)
  BY <1>1, Zenon
<1>4. AllHeaders = HeaderList(TRUE, FALSE, FALSE, <<>>)
  BY <1>2, <1>6, <1>7, Zenon
<1>5. NonXHeaders = HeaderList(TRUE, TRUE, FALSE, <<>>)
  BY <1>1, <1>2, <1>3, <1>4, <1>6
<1> QED
  BY <1>1, <1>4, <1>5, ProperList, ValuesNone, Zenon

LEMMA WithValues ==
  ASSUME NEW h, ProperHeaders(h), NEW f, ProperValues(f)
  PROVE  ProperHeaders(SetValues(h, f))
<1>1. h = HeaderList(h.all, h.noX, h.blank, h.values)
  BY Zenon DEF ProperHeaders, HeaderList
<1>2. h.all \in BOOLEAN /\ h.noX \in BOOLEAN /\ h.blank \in BOOLEAN
  BY Zenon DEF ProperHeaders
<1>3. SetValues(h, f) = HeaderList(h.all, h.noX, h.blank, f)
  BY <1>1, ListUpdates, SMT
<1> QED
  BY <1>2, <1>3, ProperList, Zenon

LEMMA WithBlank ==
  ASSUME NEW h, ProperHeaders(h), NEW b \in BOOLEAN
  PROVE  ProperHeaders(SetBlank(h, b))
<1>1. h = HeaderList(h.all, h.noX, h.blank, h.values)
  BY Zenon DEF ProperHeaders, HeaderList
<1>2. h.all \in BOOLEAN /\ h.noX \in BOOLEAN /\ ProperValues(h.values)
  BY Zenon DEF ProperHeaders, ProperValues
<1>3. SetBlank(h, b) = HeaderList(h.all, h.noX, b, h.values)
  BY <1>1, ListUpdates, SMT
<1> QED
  BY <1>2, <1>3, ProperList, Zenon

LEMMA ProperLists == ProperHeaders(DefaultHeaders) /\ ProperHeaders(ListedHeaders)
<1>1. ProperValues(Simply({"reply-to", "sender", "originator", "subject", "from",
                           "to", "cc", "message-id"}))
  BY TheHeaderNames, ValuesSimply, SMT
<1>6. "received" \in HeaderNames /\ "content-type" \in HeaderNames
  BY TheHeaderNames, SMT
<1>2. /\ ProperValues("received" :> <<"recv", "recvx">>)
      /\ ProperValues("content-type" :> <<"", "">>)
  BY <1>6, ValuesOne, Zenon
<1>3. ProperHeaders(DefaultHeaders)
  BY <1>1, <1>2, ValuesOver, WithValues, ProperModes, Zenon DEF DefaultHeaders, SetValues
<1>4. ProperValues(Simply({"from", "to", "cc", "bcc", "subject", "reply-to", "received",
             "sender", "x-mailer", "errors-to", "x-beenthere", "list-id",
             "user-agent", "references", "message-id"}))
  BY TheHeaderNames, ValuesSimply, SMT
<1>5. ProperHeaders(ListedHeaders)
  BY <1>4, WithValues, ProperModes, Zenon DEF ListedHeaders, SetValues
<1> QED
  BY <1>3, <1>5

LEMMA ProperAdd ==
  ASSUME NEW h, ProperHeaders(h), NEW name \in HeaderNames, NEW first, NEW other
  PROVE  ProperHeaders(AddHeaderPrefix(h, name, first, other))
<1>1. ProperValues(h.values)
  BY Zenon DEF ProperHeaders, ProperValues
<1>2. ProperValues(h.values @@ (name :> <<first, other>>))
  BY <1>1, ValuesOne, ValuesOver, Zenon
<1> QED
  BY <1>2, WithValues, Zenon DEF AddHeaderPrefix, SetValues

LEMMA ProperRemove ==
  ASSUME NEW h, ProperHeaders(h), NEW name
  PROVE  ProperHeaders(RemoveHeaderPrefix(h, name))
<1>1. ProperValues(h.values)
  BY Zenon DEF ProperHeaders, ProperValues
<1> DEFINE f == [n \in DOMAIN h.values \ {name} |-> h.values[n]]
<1>2. ProperValues(f)
  BY <1>1, SMT DEF ProperValues
<1> QED
  BY <1>2, WithValues, Zenon DEF RemoveHeaderPrefix, SetValues

(* The test cases, the extended options and the constructors. *)

LEMMA ProperTestHeaders ==
  ASSUME NEW h, ProperHeaders(h), NEW t PROVE ProperHeaders(TestCaseHeaders(t, h))
<1>1. /\ ProperHeaders(AllHeaders) /\ ProperHeaders(NonXHeaders)
      /\ ProperHeaders(DefaultHeaders) /\ ProperHeaders(ListedHeaders)
  BY ProperModes, ProperLists
<1>2. ProperHeaders([h EXCEPT !.blank = TRUE])
  BY WithBlank DEF SetBlank
<1> DEFINE g == AddHeaderPrefix(h, "x-spam-status", "sa", "sa")
<1>3. "x-spam-status" \in HeaderNames
  BY TheHeaderNames, SMT
<1>4. ProperHeaders(AddSimpleHeaderPrefix(g, "x-spam-status"))
  BY <1>3, ProperAdd, Zenon DEF AddSimpleHeaderPrefix
<1> HIDE DEF g
<1>5. TestCaseHeaders(t, h) \in
        {AllHeaders, NonXHeaders, DefaultHeaders, ListedHeaders, h,
         [h EXCEPT !.blank = TRUE], AddSimpleHeaderPrefix(g, "x-spam-status")}
  BY SMT DEF TestCaseHeaders, g
<1> QED
  BY <1>1, <1>2, <1>4, <1>5

LEMMA ProperTestCase ==
  ASSUME NEW s, Proper(s), NEW t
  PROVE  Proper(TestCase(t, s))
<1>1. ASSUME NEW changes, Fitting(changes)
      PROVE  Proper([With(s, changes) EXCEPT !.headers = TestCaseHeaders(t, @)])
  <2> DEFINE w == With(s, changes)
  <2>1. Proper(w)
    BY <1>1, ProperWith
  <2> HIDE DEF w
  <2>2. ProperHeaders(w.headers)
    BY <2>1, NamedMembers, SMT DEF Proper, Fits
  <2>3. ProperHeaders(TestCaseHeaders(t, w.headers))
    BY <2>2, ProperTestHeaders
  <2>4. Proper([w EXCEPT !.headers = TestCaseHeaders(t, w.headers)])
    BY <2>1, <2>3, ProperPuts, Zenon DEF Setters, OtherSetters
  <2> QED
    BY <2>4 DEF w
<1>2. ASSUME NEW r, Proper(r) PROVE Proper(TestCaseScoring(t, r))
  <2>1. /\ "alt1" \in ScoreModes /\ "original" \in ScoreModes
        /\ 1 \in Nat /\ 5 \in Nat /\ 10 \in Nat
        /\ Thousandths(500) \in Nat /\ Thousandths(600) \in Nat /\ Thousandths(700) \in Nat
        /\ Thousandths(800) \in Nat /\ Thousandths(900) \in Nat
    BY SMT DEF ScoreModes, Thousandths
  <2>2. /\ Proper(SetScoreMode(r, "alt1")) /\ Proper(SetScoreMode(r, "original"))
        /\ Proper(SetMinWordCount(r, 5)) /\ Proper(SetMinWordCount(r, 1))
        /\ Proper(SetMinWordCount(r, 10))
        /\ Proper(SetDefaultThreshold(r, Thousandths(500)))
        /\ Proper(SetDefaultThreshold(r, Thousandths(600)))
        /\ Proper(SetDefaultThreshold(r, Thousandths(700)))
        /\ Proper(SetDefaultThreshold(r, Thousandths(800)))
        /\ Proper(SetDefaultThreshold(r, Thousandths(900)))
    <3>1. /\ \A mode \in ScoreModes : Proper(SetScoreMode(r, mode))
          /\ \A n \in Nat : Proper(SetMinWordCount(r, n)) /\ Proper(SetDefaultThreshold(r, n))
      BY <1>2, ProperScoring, Zenon
    <3> QED
      BY <2>1, <3>1, SMT
  <2> QED
    BY <1>2, <2>2, SMT DEF TestCaseScoring
<1> DEFINE changes == CASE t \in DOMAIN EarlyTestCases -> EarlyTestCases[t]
                        [] t \in DOMAIN LateTestCases -> LateTestCases[t]
                        [] OTHER -> Nothing
<1>3. Fitting(changes)
  BY EarlyFit, LateFit, ChangesFit, Zenon DEF AllFitting
<1> HIDE DEF changes
<1> DEFINE r == [With(s, changes) EXCEPT !.headers = TestCaseHeaders(t, @)]
<1>4. Proper(r)
  BY <1>1, <1>3
<1>5. TestCase(t, s) = TestCaseScoring(t, r)
  BY Zenon DEF TestCase, changes
<1> QED
  BY <1>2, <1>4, <1>5, Zenon

LEMMA ProperExtendedOption ==
  ASSUME NEW s, Proper(s), NEW o \in ExtendedOptions
  PROVE  Proper(ExtendedOption(o, s))
<1>1. Proper(With(s, Graham))
  BY ProperWith, ChangesFit
<1>2. Proper([With(s, Graham) EXCEPT !.headers = AllHeaders])
  BY <1>1, ProperModes, ProperPuts, Zenon DEF Setters, OtherSetters
<1>3. "original" \in ScoreModes
  BY DEF ScoreModes
<1>4. /\ Proper(SetScoreMode([With(s, Graham) EXCEPT !.headers = AllHeaders], "original"))
      /\ Proper(SetScoreMode(s, "original"))
  BY <1>2, <1>3, ProperScoring
<1>5. Thousandths(300) \in Nat
  BY DEF Thousandths
<1>6. Proper(With(s, Sigs @@ [minDistance |-> Thousandths(300), ignoreBody |-> TRUE]))
  BY <1>5, ProperWith, ChangesFit, FittingOver, Zenon
<1>7. /\ Proper([s EXCEPT !.keepSuspiciousTags = TRUE])
      /\ Proper([s EXCEPT !.statusField = "status"])
      /\ Proper([s EXCEPT !.statusField = "x-status"])
      /\ Proper([s EXCEPT !.pretokenized = TRUE])
      /\ Proper([s EXCEPT !.ignoreBody = TRUE])
  BY ProperPuts, Zenon DEF Setters, SwitchSetters, FreeSetters
<1>8. CASE o = "graham"
  BY <1>4, <1>8 DEF ExtendedOption
<1>9. CASE o = "whitelist"
  BY <1>6, <1>9 DEF ExtendedOption
<1>10. CASE o = "orig-score"
  BY <1>4, <1>10 DEF ExtendedOption
<1>11. CASE o \in {"suspicious-tags", "honor-status-header", "honor-xstatus-header",
                   "tokenized", "ignore-body", "normal"}
  BY <1>7, <1>11 DEF ExtendedOption
<1> QED
  BY <1>8, <1>9, <1>10, <1>11 DEF ExtendedOptions

LEMMA ProperInitially == Proper(InitialSettings)
<1>1. Fitting(NewParserConfig)
  <2> DEFINE c == NewParserConfig
  <2>1. DOMAIN c = ParserMembers
    BY SMT DEF NewParserConfig, ParserMembers
  <2>2. /\ c.minTermLength \in Nat /\ c.maxTermLength \in Nat
        /\ c.minPhraseTerms \in Nat /\ c.maxPhraseTerms \in Nat
        /\ c.minPhraseChars \in Nat /\ c.maxPhraseChars \in Nat
        /\ c.maxTermsPerMessage \in Nat
    BY SMT DEF NewParserConfig
  <2>3. c.removeHTML \in BOOLEAN /\ c.keepSuspiciousTags \in BOOLEAN /\ c.ignoreBody \in BOOLEAN
    BY SMT DEF NewParserConfig
  <2>4. ProperHeaders(c.headers)
    <3>1. c.headers = [NoHeaders EXCEPT !.values =
                         Simply({"from", "to", "cc", "subject"})
                           @@ ("received" :> <<"recv", "recvx">>)]
      BY SMT DEF NewParserConfig
    <3>2. /\ {"from", "to", "cc", "subject"} \subseteq HeaderNames
          /\ "received" \in HeaderNames
      BY TheHeaderNames, SMT
    <3>3. ProperValues(Simply({"from", "to", "cc", "subject"})
                         @@ ("received" :> <<"recv", "recvx">>))
      BY <3>2, ValuesSimply, ValuesOne, ValuesOver, Zenon
    <3>4. ProperHeaders([NoHeaders EXCEPT !.values =
                           Simply({"from", "to", "cc", "subject"})
                             @@ ("received" :> <<"recv", "recvx">>)])
      BY <3>3, ProperModes, WithValues, Zenon DEF SetValues
    <3> HIDE DEF c
    <3> QED
      BY <3>1, <3>4, Zenon
  <2> HIDE DEF c
  <2>5. /\ Fits("minTermLength", c.minTermLength) /\ Fits("maxTermLength", c.maxTermLength)
        /\ Fits("minPhraseTerms", c.minPhraseTerms) /\ Fits("maxPhraseTerms", c.maxPhraseTerms)
        /\ Fits("minPhraseChars", c.minPhraseChars) /\ Fits("maxPhraseChars", c.maxPhraseChars)
        /\ Fits("maxTermsPerMessage", c.maxTermsPerMessage)
        /\ Fits("removeHTML", c.removeHTML) /\ Fits("ignoreBody", c.ignoreBody)
        /\ Fits("keepSuspiciousTags", c.keepSuspiciousTags)
    BY <2>2, <2>3, NumberFits, SwitchFits, Zenon
  <2>6. /\ Fits("nonAscii", c.nonAscii) /\ Fits("fieldName", c.fieldName)
        /\ Fits("headers", c.headers)
    BY <2>4, FreeFits, FitsKinds, Zenon
  <2>7. Fitting(c)
    BY <2>1, <2>5, <2>6, Zenon DEF Fitting, ParserMembers
  <2> QED
    BY <2>7 DEF c
<1>2. Fitting(NewFilterConfig)
  <2> DEFINE c == NewFilterConfig
  <2>1. DOMAIN c = FilterMembers
    BY SMT DEF NewFilterConfig, FilterMembers
  <2>2. /\ c.goodBias \in Nat /\ c.minWordCount \in Nat /\ c.defaultMinWordCount \in Nat
        /\ c.spamThreshold \in Nat /\ c.defaultThreshold \in Nat
        /\ c.termsForScore \in Nat /\ c.maxWordRepeats \in Nat
        /\ c.newWordScore \in Nat /\ c.minDistance \in Nat /\ c.minArraySize \in Nat
    BY SMT DEF NewFilterConfig
  <2>3. c.extendTopTerms \in BOOLEAN /\ c.waterCounts \in BOOLEAN /\ c.scoreMode \in ScoreModes
    BY SMT DEF NewFilterConfig, ScoreModes
  <2> HIDE DEF c
  <2>4. /\ Fits("goodBias", c.goodBias) /\ Fits("minWordCount", c.minWordCount)
        /\ Fits("defaultMinWordCount", c.defaultMinWordCount)
        /\ Fits("spamThreshold", c.spamThreshold)
        /\ Fits("defaultThreshold", c.defaultThreshold)
        /\ Fits("termsForScore", c.termsForScore) /\ Fits("maxWordRepeats", c.maxWordRepeats)
        /\ Fits("newWordScore", c.newWordScore) /\ Fits("minDistance", c.minDistance)
        /\ Fits("minArraySize", c.minArraySize)
    BY <2>2, NumberFits, Zenon
  <2>5. /\ Fits("extendTopTerms", c.extendTopTerms) /\ Fits("waterCounts", c.waterCounts)
        /\ Fits("scoreMode", c.scoreMode) /\ Fits("selectors", c.selectors)
    BY <2>3, SwitchFits, FreeFits, FitsKinds, Zenon
  <2>6. Fitting(c)
    BY <2>1, <2>4, <2>5, Zenon DEF Fitting, FilterMembers
  <2> QED
    BY <2>6 DEF c
<1>3. Fitting(NewDatabaseConfig)
  <2> DEFINE c == NewDatabaseConfig
  <2>1. DOMAIN c = DatabaseMembers
    BY SMT DEF NewDatabaseConfig, DatabaseMembers
  <2>2. c.targetSizeMB \in Int /\ c.maxCacheTerms \in Nat
    BY SMT DEF NewDatabaseConfig
  <2> HIDE DEF c
  <2>3. /\ Fits("type", c.type) /\ Fits("private", c.private) /\ Fits("shared", c.shared)
        /\ Fits("targetSizeMB", c.targetSizeMB) /\ Fits("maxCacheTerms", c.maxCacheTerms)
    BY <2>2, FreeFits, FitsKinds, NumberFits, Zenon
  <2>4. Fitting(c)
    BY <2>1, <2>3, Zenon DEF Fitting, DatabaseMembers
  <2> QED
    BY <2>4 DEF c
<1>4. Fitting(NewCommandConfig)
  <2>1. DOMAIN NewCommandConfig = CommandMembers
    BY SMT DEF NewCommandConfig, CommandMembers
  <2> QED
    BY <2>1, FreeFits, Zenon DEF Fitting, CommandMembers
<1> DEFINE day == [today |-> "clock"]
           first == NewParserConfig @@ NewFilterConfig @@ NewDatabaseConfig
           fourth == first @@ NewCommandConfig
           all == fourth @@ day
<1>5. Fitting(day) /\ DOMAIN day = {"today"}
  BY FreeFits, SMT DEF Fitting
<1> HIDE DEF day
<1>6. Fitting(all)
  BY <1>1, <1>2, <1>3, <1>4, <1>5, FittingOver, Zenon
<1>7. DOMAIN all = Members
  <2>1. /\ DOMAIN NewParserConfig = ParserMembers
        /\ DOMAIN NewFilterConfig = FilterMembers
        /\ DOMAIN NewDatabaseConfig = DatabaseMembers
        /\ DOMAIN NewCommandConfig = CommandMembers
    BY SMT DEF NewParserConfig, ParserMembers, NewFilterConfig, FilterMembers,
               NewDatabaseConfig, DatabaseMembers, NewCommandConfig, CommandMembers
  <2>2. DOMAIN first = ParserMembers \cup FilterMembers \cup DatabaseMembers
    BY <2>1, OverDomain, Zenon
  <2> HIDE DEF first
  <2>3. DOMAIN fourth = ParserMembers \cup FilterMembers \cup DatabaseMembers
                           \cup CommandMembers
    BY <2>1, <2>2, OverDomain, Zenon
  <2> HIDE DEF fourth
  <2> QED
    BY <1>5, <2>3, OverDomain, Zenon DEF Members
<1> HIDE DEF all
<1>8. Proper(all)
  BY <1>6, <1>7, Zenon DEF Proper, Fitting
<1>9. "normal" \in ScoreModes
  BY DEF ScoreModes
<1>10. Proper(SetScoreMode(all, "normal"))
  BY <1>8, <1>9, ProperScoring
<1> QED
  BY <1>10, SMT DEF InitialSettings, all, fourth, first, day

(* The statements of a file that is loaded. *)

KnownStatement(st) ==
  /\ \A k \in 1..Len(st.args) : st.args[k].number \in Nat
  /\ st.name \in {"simple_prefix", "full_prefix"} =>
       st.args[1].string \in HeaderNames

LEMMA KnownStatements ==
  \A file : KnownTokens(file) <=>
              \A i \in DOMAIN file.statements : KnownStatement(file.statements[i])
  BY Zenon DEF KnownTokens, KnownStatement

HeaderStatementNames ==
  {"simple_prefix", "full_prefix", "blank_prefixes_mode", "ignore_x_headers_mode",
   "all_headers_mode", "no_headers_mode"}
ScoreModeArg == OneOf({"original", "alt1", "normal"})
TypeArg == OneOf({"default", "bdb", "pbl", "hash", "split"})

LEMMA OneArgument ==
  /\ Len(AnInt) = 1 /\ Len(ADouble) = 1 /\ Len(AString) = 1 /\ Len(ABool) = 1
  /\ Len(ScoreModeArg) = 1 /\ Len(TypeArg) = 1
  BY SMT DEF AnInt, ADouble, AString, ABool, OneOf, ScoreModeArg, TypeArg

LEMMA ValidArgs ==
  ASSUME NEW st, ValidStatement(st)
  PROVE  /\ st.block \in {"parser", "filter", "database"} /\ st.name # "header" =>
              Len(st.args) = 1
         /\ st.block = "filter" /\ st.name = "score_mode" =>
              st.args[1].string \in ScoreModes
         /\ st.block = "header" => st.name \in HeaderStatementNames
<1>1. PICK rule \in Syntax :
        /\ rule.block = st.block /\ st.name \in rule.names
        /\ Len(st.args) = Len(rule.args)
        /\ \A i \in 1..Len(st.args) : ValidArgument(rule.args[i], st.args[i])
  BY DEF ValidStatement
<1>2. CASE st.block \in {"parser", "filter", "database"} /\ st.name # "header"
  <2>1. rule.args \in {AnInt, ADouble, AString, ABool, ScoreModeArg, TypeArg}
    BY <1>1, <1>2, SMT DEF Syntax, Rule, ScoreModeArg, TypeArg
  <2>2. Len(st.args) = 1
    BY <1>1, <2>1, OneArgument
  <2>3. ASSUME st.block = "filter", st.name = "score_mode"
        PROVE  st.args[1].string \in ScoreModes
    <3>1. rule.args = ScoreModeArg
      BY <1>1, <2>3, SMT DEF Syntax, Rule, ScoreModeArg
    <3>2. ValidArgument(ScoreModeArg[1], st.args[1])
      BY <1>1, <2>2, <3>1
    <3>3. ScoreModeArg[1] = Accepts({}, {"original", "alt1", "normal"})
      BY DEF ScoreModeArg, OneOf
    <3> QED
      BY <3>2, <3>3, SMT DEF ValidArgument, Accepts, ScoreModes
  <2> QED
    BY <1>2, <2>2, <2>3
<1>3. CASE st.block = "header"
  BY <1>1, <1>3, SMT DEF Syntax, Rule, HeaderStatementNames
<1> QED
  BY <1>2, <1>3

LEMMA NumberRead ==
  ASSUME NEW token, token.number \in Nat PROVE DoubleValue(token) \in Nat
  BY SMT DEF DoubleValue, One

LEMMA TruthRead == \A token : IsTrueValue(token) \in BOOLEAN
  BY DEF IsTrueValue

LEMMA ProperHeaderStatement ==
  ASSUME NEW st, KnownStatement(st), st.name \in HeaderStatementNames,
         NEW h, ProperHeaders(h), NEW reset
  PROVE  ProperHeaders(LoadHeaderStatement(st, h, reset).headers)
<1> DEFINE list == IF reset THEN h ELSE NoHeaders
           on == IsTrueValue(st.args[1])
           modes == [ignore_x_headers_mode |-> NonXHeaders,
                     all_headers_mode |-> AllHeaders,
                     no_headers_mode |-> NoHeaders]
           result == LoadHeaderStatement(st, h, reset).headers
<1>1. ProperHeaders(list)
  BY ProperModes
<1>2. CASE st.name \in {"simple_prefix", "full_prefix"}
  <2>1. st.args[1].string \in HeaderNames
    BY <1>2, Zenon DEF KnownStatement
  <2>2. \A a, b : ProperHeaders(AddHeaderPrefix(list, st.args[1].string, a, b))
    BY <1>1, <2>1, ProperAdd, Zenon
  <2>3. ProperHeaders(AddSimpleHeaderPrefix(list, st.args[1].string))
    BY <2>2, Zenon DEF AddSimpleHeaderPrefix
  <2> HIDE DEF list
  <2>4. result \in {AddSimpleHeaderPrefix(list, st.args[1].string),
                    AddHeaderPrefix(list, st.args[1].string, st.args[2].string,
                                    st.args[3].string)}
    BY <1>2, SMT DEF LoadHeaderStatement, list
  <2> QED
    BY <2>2, <2>3, <2>4
<1>3. CASE st.name = "blank_prefixes_mode"
  <2>1. (h.blank \/ on) \in BOOLEAN
    OBVIOUS
  <2>2. ProperHeaders(SetBlank(h, h.blank \/ on))
    BY <2>1, WithBlank
  <2> DEFINE b == h.blank \/ on
  <2>3. result = SetBlank(h, b)
    BY <1>3, SMT DEF LoadHeaderStatement, SetBlank
  <2> QED
    BY <2>2, <2>3
<1>4. CASE st.name \in {"ignore_x_headers_mode", "all_headers_mode", "no_headers_mode"}
  <2>1. DOMAIN modes = {"ignore_x_headers_mode", "all_headers_mode", "no_headers_mode"}
    BY SMT
  <2>2. modes[st.name] \in {NonXHeaders, AllHeaders, NoHeaders}
    BY <1>4, SMT
  <2> HIDE DEF modes
  <2>3. result \in {modes[st.name], h}
    BY <1>4, <2>1, SMT DEF LoadHeaderStatement, modes
  <2> QED
    BY <2>2, <2>3, ProperModes
<1> QED
  BY <1>2, <1>3, <1>4 DEF HeaderStatementNames

LEMMA ProperLoaded ==
  ASSUME NEW st, ValidStatement(st), KnownStatement(st),
         NEW s, Proper(s), NEW reset
  PROVE  Proper(Loaded(st, s, reset).settings)
<1> DEFINE arg == st.args[1]
           nat == arg.number
           on == IsTrueValue(arg)
           fraction == DoubleValue(arg)
<1>0. on \in BOOLEAN
  BY TruthRead
<1>1. /\ \A v \in Nat : /\ Proper([s EXCEPT !.minTermLength = v])
                        /\ Proper([s EXCEPT !.maxTermLength = v])
                        /\ Proper([s EXCEPT !.minPhraseTerms = v])
                        /\ Proper([s EXCEPT !.maxPhraseTerms = v])
                        /\ Proper([s EXCEPT !.minPhraseChars = v])
                        /\ Proper([s EXCEPT !.maxPhraseChars = v])
                        /\ Proper([s EXCEPT !.maxTermsPerMessage = v])
                        /\ Proper([s EXCEPT !.goodBias = v])
                        /\ Proper([s EXCEPT !.termsForScore = v])
                        /\ Proper([s EXCEPT !.maxWordRepeats = v])
                        /\ Proper([s EXCEPT !.minArraySize = v])
                        /\ Proper([s EXCEPT !.maxCacheTerms = v])
                        /\ Proper([s EXCEPT !.newWordScore = v])
                        /\ Proper([s EXCEPT !.minDistance = v])
      /\ \A v \in BOOLEAN : /\ Proper([s EXCEPT !.removeHTML = v])
                            /\ Proper([s EXCEPT !.keepSuspiciousTags = v])
                            /\ Proper([s EXCEPT !.ignoreBody = v])
                            /\ Proper([s EXCEPT !.extendTopTerms = v])
                            /\ Proper([s EXCEPT !.waterCounts = v])
      /\ \A v : /\ Proper([s EXCEPT !.fieldName = v])
                /\ Proper([s EXCEPT !.type = v])
                /\ Proper([s EXCEPT !.private = v])
                /\ Proper([s EXCEPT !.shared = v])
      /\ \A v \in Int : Proper([s EXCEPT !.targetSizeMB = v])
      /\ \A v : ProperHeaders(v) => Proper([s EXCEPT !.headers = v])
  BY ProperPuts, Zenon DEF Setters, NumberSetters, SwitchSetters, FreeSetters, OtherSetters
<1>2. st.block \in {"parser", "filter", "database"} /\ st.name # "header" =>
        nat \in Nat /\ nat \in Int /\ fraction \in Nat
  <2> SUFFICES ASSUME st.block \in {"parser", "filter", "database"}, st.name # "header"
               PROVE  nat \in Nat
    BY NumberRead
  <2> QED
    BY ValidArgs, SMT DEF KnownStatement
<1>3. ASSUME st.name \in ParserNames, nat \in Nat PROVE Proper(LoadParserStatement(st, s))
  <2>1. \A v : Proper(SetReplaceNonAscii(s, v))
    BY ProperScoring
  <2> QED
    BY <1>0, <1>1, <1>3, <2>1, Zenon DEF LoadParserStatement, ParserNames
<1>4. ASSUME st.name \in FilterNames, nat \in Nat, fraction \in Nat,
             st.name = "score_mode" => arg.string \in ScoreModes
      PROVE  Proper(LoadFilterStatement(st, s))
  <2>1. /\ \A v \in ScoreModes : Proper(SetScoreMode(s, v))
        /\ \A v \in Nat : Proper(SetMinWordCount(s, v)) /\ Proper(SetSpamThreshold(s, v))
    BY ProperScoring, Zenon
  <2> QED
    BY <1>0, <1>1, <1>4, <2>1, Zenon DEF LoadFilterStatement, FilterNames
<1>5. ASSUME st.name \in DatabaseNames, nat \in Nat, nat \in Int
      PROVE  Proper(LoadDatabaseStatement(st, s))
  BY <1>1, <1>5, Zenon DEF LoadDatabaseStatement, DatabaseNames
<1>6. CASE st.block = "parser" /\ st.name = "header"
  BY <1>1, <1>6, ProperLists, SMT DEF Loaded
<1>7. CASE st.block = "header" /\ st.name # "header"
  <2>1. ProperHeaders(s.headers)
    BY NamedMembers, SMT DEF Proper, Fits
  <2> DEFINE g == LoadHeaderStatement(st, s.headers, reset).headers
  <2>2. ProperHeaders(g)
    BY <1>7, <2>1, ValidArgs, ProperHeaderStatement
  <2>3. Loaded(st, s, reset).settings = [s EXCEPT !.headers = g]
    BY <1>7, SMT DEF Loaded
  <2> HIDE DEF g
  <2> QED
    BY <1>1, <2>2, <2>3
<1>8. CASE st.block = "parser" /\ st.name \in ParserNames /\ st.name # "header"
  BY <1>2, <1>3, <1>8, SMT DEF Loaded
<1>9. CASE st.block = "filter" /\ st.name \in FilterNames /\ st.name # "header"
  BY <1>2, <1>4, <1>9, ValidArgs, SMT DEF Loaded
<1>10. CASE st.block = "database" /\ st.name \in DatabaseNames /\ st.name # "header"
  BY <1>2, <1>5, <1>10, SMT DEF Loaded
<1> QED
  BY <1>6, <1>7, <1>8, <1>9, <1>10, ValidNames DEF ParserNames, FilterNames, DatabaseNames

(* The settings keep values of their kinds at every step. *)
LEMMA ProperOption ==
  ASSUME Proper(settings), AnyOption
  PROVE  Proper(settings')
<1>1. ASSUME NEW s, NEW given, Sets(s, given), Proper(s) PROVE Proper(settings')
  BY <1>1 DEF Sets
<1>2. ASSUME NEW r, Notes(r) PROVE Proper(settings')
  BY <1>2 DEF Notes
<1>3. ASSUME UsageError PROVE Proper(settings')
  BY <1>2, <1>3 DEF UsageError
<1>4. ASSUME NEW n, NEW low \in Nat, NEW high \in Nat, NEW s, NEW given,
             n \in Nat => Proper(s), Numbered(n, low, high, s, given)
      PROVE  Proper(settings')
  <2>1. n \in low..high => n \in Nat
    OBVIOUS
  <2> QED
    BY <1>1, <1>3, <1>4, <2>1 DEF Numbered
<1>5. /\ \A v \in Nat : /\ Proper([settings EXCEPT !.maxPhraseTerms = v])
                        /\ Proper([settings EXCEPT !.maxWordRepeats = v])
                        /\ Proper([settings EXCEPT !.termsForScore = v])
                        /\ Proper([settings EXCEPT !.maxCacheTerms = v])
      /\ \A v \in BOOLEAN : /\ Proper([settings EXCEPT !.removeHTML = v])
                            /\ Proper([settings EXCEPT !.extendTopTerms = v])
      /\ \A v : /\ Proper([settings EXCEPT !.fieldName = v])
                /\ Proper([settings EXCEPT !.createDbDir = v])
                /\ Proper([settings EXCEPT !.ignoreContentLength = v])
                /\ Proper([settings EXCEPT !.messagesPerPurge = v])
                /\ Proper([settings EXCEPT !.shared = v])
      /\ \A v : ProperHeaders(v) => Proper([settings EXCEPT !.headers = v])
  BY ProperPuts, Zenon DEF Setters, NumberSetters, SwitchSetters, FreeSetters, OtherSetters
<1>6. CASE OptionNumber
  <2>1. \A n \in Nat : Proper(SetMinWordCount(settings, n))
    BY ProperScoring, Zenon
  <2>2. PICK n \in Numbers :
       \/ Numbered(n, 0, 10000, SetMinWordCount(settings, n),
                   "minWordCount" :> n)
       \/ Numbered(n, 1, 10, [settings EXCEPT !.maxPhraseTerms = n],
                   "maxPhraseTerms" :> n)
       \/ Numbered(n, 1, 100000, [settings EXCEPT !.messagesPerPurge = n],
                   <<>>)
       \/ Numbered(n, 1, 10, [settings EXCEPT !.maxWordRepeats = n],
                   "maxWordRepeats" :> n)
       \/ Numbered(n, 5, 500, [settings EXCEPT !.termsForScore = n],
                   "termsForScore" :> n)
       \/ LET size == IF n = 0 THEN 100000 ELSE n
          IN Numbered(n, 0, 100000, [settings EXCEPT !.maxCacheTerms = size],
                      "maxCacheTerms" :> size)
    BY <1>6, SMT DEF OptionNumber
  <2> DEFINE size == IF n = 0 THEN 100000 ELSE n
  <2>3. n \in Nat => size \in Nat
    OBVIOUS
  <2>4. CASE Numbered(n, 0, 10000, SetMinWordCount(settings, n), "minWordCount" :> n)
    BY <1>4, <2>1, <2>4, SMT
  <2>5. CASE Numbered(n, 1, 10, [settings EXCEPT !.maxPhraseTerms = n], "maxPhraseTerms" :> n)
    <3> DEFINE t == [settings EXCEPT !.maxPhraseTerms = n]
    <3>1. n \in Nat => Proper(t)
      BY <1>5, Zenon
    <3>2. Numbered(n, 1, 10, t, "maxPhraseTerms" :> n)
      BY <2>5
    <3> HIDE DEF t
    <3> QED
      BY <1>4, <3>1, <3>2, SMT
  <2>6. CASE Numbered(n, 1, 100000, [settings EXCEPT !.messagesPerPurge = n], <<>>)
    <3> DEFINE t == [settings EXCEPT !.messagesPerPurge = n]
    <3>1. n \in Nat => Proper(t)
      BY <1>5, Zenon
    <3>2. Numbered(n, 1, 100000, t, <<>>)
      BY <2>6
    <3> HIDE DEF t
    <3> QED
      BY <1>4, <3>1, <3>2, SMT
  <2>7. CASE Numbered(n, 1, 10, [settings EXCEPT !.maxWordRepeats = n], "maxWordRepeats" :> n)
    <3> DEFINE t == [settings EXCEPT !.maxWordRepeats = n]
    <3>1. n \in Nat => Proper(t)
      BY <1>5, Zenon
    <3>2. Numbered(n, 1, 10, t, "maxWordRepeats" :> n)
      BY <2>7
    <3> HIDE DEF t
    <3> QED
      BY <1>4, <3>1, <3>2, SMT
  <2>8. CASE Numbered(n, 5, 500, [settings EXCEPT !.termsForScore = n], "termsForScore" :> n)
    <3> DEFINE t == [settings EXCEPT !.termsForScore = n]
    <3>1. n \in Nat => Proper(t)
      BY <1>5, Zenon
    <3>2. Numbered(n, 5, 500, t, "termsForScore" :> n)
      BY <2>8
    <3> HIDE DEF t
    <3> QED
      BY <1>4, <3>1, <3>2, SMT
  <2>9. CASE Numbered(n, 0, 100000, [settings EXCEPT !.maxCacheTerms = size],
                      "maxCacheTerms" :> size)
    <3> HIDE DEF size
    <3>1. n \in Nat => Proper([settings EXCEPT !.maxCacheTerms = size])
      BY <1>5, <2>3, Zenon
    <3> QED
      BY <1>4, <2>9, <3>1, SMT
  <2> QED
    BY <2>2, <2>4, <2>5, <2>6, <2>7, <2>8, <2>9
<1>7. CASE OptionThreshold
  <2>1. PICK v \in Thresholds :
          Numbered(v, 0, One, SetDefaultThreshold(settings, v), "spamThreshold" :> v)
    BY <1>7, SMT DEF OptionThreshold
  <2>2. v \in Nat => Proper(SetDefaultThreshold(settings, v))
    BY ProperScoring, Zenon
  <2>3. One \in Nat /\ 0 \in Nat
    BY DEF One
  <2> QED
    BY <1>4, <2>1, <2>2, <2>3, SMT
<1>8. CASE OptionText
  <2>1. \A v : Proper(SetReplaceNonAscii(settings, v))
    BY ProperScoring
  <2>2. ProperHeaders(settings.headers)
    BY NamedMembers, SMT DEF Proper, Fits
  <2>3. ASSUME NEW h \in HeaderWays
        PROVE  ProperHeaders(SetHeaders(settings.headers, h.way, h.name))
    <3>1. /\ h.way \in {"all", "nox", "normal", "none", "+", "-"}
          /\ h.way = "+" => h.name \in HeaderNames
      BY <2>3, ArgsAssumption
    <3> DEFINE g == settings.headers
               add == AddSimpleHeaderPrefix(g, h.name)
               rem == RemoveHeaderPrefix(g, h.name)
    <3>2. h.way = "+" => ProperHeaders(add)
      BY <2>2, <3>1, ProperAdd, Zenon DEF AddSimpleHeaderPrefix
    <3>3. ProperHeaders(rem)
      BY <2>2, ProperRemove
    <3> HIDE DEF g, add, rem
    <3>4. /\ h.way = "+" => SetHeaders(g, h.way, h.name) = add
          /\ h.way # "+" => SetHeaders(g, h.way, h.name)
                              \in {AllHeaders, NonXHeaders, DefaultHeaders, NoHeaders, rem}
      BY <3>1, SMT DEF SetHeaders, add, rem
    <3>5. ProperHeaders(SetHeaders(g, h.way, h.name))
      BY <3>2, <3>3, <3>4, ProperModes, ProperLists
    <3> QED
      BY <3>5 DEF g
  <2>4. \A h \in HeaderWays :
          Proper([settings EXCEPT !.headers = SetHeaders(@, h.way, h.name)])
    BY <1>5, <2>3, Zenon
  <2>5. Proper([settings EXCEPT !.removeHTML = FALSE])
    BY <1>5, Zenon
  <2>6. \A v : Proper([settings EXCEPT !.fieldName = v])
    BY <1>5, Zenon
  <2> QED
    BY <1>1, <1>8, <2>1, <2>4, <2>5, <2>6, Zenon DEF OptionText
<1>9. CASE OptionSwitch
  <2>1. Proper(With(settings, Sigs))
    BY ProperWith, ChangesFit
  <2>2. /\ Proper([settings EXCEPT !.createDbDir = TRUE])
        /\ Proper([settings EXCEPT !.ignoreContentLength = TRUE])
        /\ Proper([settings EXCEPT !.extendTopTerms = TRUE])
    BY <1>5, Zenon
  <2> QED
    BY <1>1, <1>2, <1>3, <1>9, <2>1, <2>2, Zenon DEF OptionSwitch
<1>10. CASE OptionNamed
  BY <1>10 DEF OptionNamed
<1>11. CASE OptionDatabase
  <2>1. PICK arg \in TypedDirs :
          settings' = [settings EXCEPT !.type = arg.type,
                         !.targetSizeMB = IF arg.size = <<>> THEN settings.targetSizeMB
                                                             ELSE Head(arg.size)]
    BY <1>11, Zenon DEF OptionDatabase
  <2> DEFINE size == IF arg.size = <<>> THEN settings.targetSizeMB ELSE Head(arg.size)
             typed == [settings EXCEPT !.type = arg.type]
  <2>2. settings.targetSizeMB \in Int
    BY NamedMembers, SMT DEF Proper, Fits
  <2>3. size \in Int
    BY <2>1, <2>2, ArgsAssumption
  <2>4. Proper(typed)
    BY ProperPuts, Zenon DEF Setters, FreeSetters
  <2>5. settings' = [typed EXCEPT !.targetSizeMB = size]
    BY <2>1, SMT
  <2> HIDE DEF size, typed
  <2>6. Proper([typed EXCEPT !.targetSizeMB = size])
    BY <2>3, <2>4, ProperPuts, Zenon DEF Setters, OtherSetters
  <2> QED
    BY <2>5, <2>6, Zenon
<1>12. CASE OptionShared
  <2>1. \A v : Proper([settings EXCEPT !.shared = v])
    BY <1>5, Zenon
  <2> QED
    BY <1>1, <1>12, <2>1, Zenon DEF OptionShared
<1>13. CASE OptionConfigFile
  BY <1>3, <1>13 DEF OptionConfigFile
<1> QED
  BY <1>6, <1>7, <1>8, <1>9, <1>10, <1>11, <1>12, <1>13 DEF AnyOption

LEMMA ProperStep ==
  ASSUME Proper(settings), [Next]_vars,
         run.pc = "loading" => KnownTokens(LoadedFile)
  PROVE  Proper(settings')
<1>1. CASE AnyOption
  BY <1>1, ProperOption
<1>2. CASE Start
  BY <1>2, ProperInitially DEF Start
<1>3. CASE ApplyStatement
  <2> DEFINE i == run.load.at + 1
             st == LoadedFile.statements[i]
  <2>1. /\ ValidStatement(st) /\ i \in DOMAIN LoadedFile.statements
        /\ settings' = Loaded(st, settings, run.load.reset).settings
        /\ run.pc = "loading"
    BY <1>3, Zenon DEF ApplyStatement, Readable
  <2>2. KnownStatement(st)
    BY <2>1, KnownStatements
  <2> QED
    BY <2>1, <2>2, ProperLoaded
<1>4. CASE EndLoad
  <2>1. PICK v : settings' = [settings EXCEPT !.private = v]
    BY <1>4, Zenon DEF EndLoad
  <2>2. Proper([settings EXCEPT !.private = v])
    BY ProperPuts, Zenon DEF Setters, FreeSetters
  <2> QED
    BY <2>1, <2>2
<1>5. CASE FindCommand
  <2>1. settings' = settings \/ settings' = [settings EXCEPT !.messagesPerPurge = 0]
    BY <1>5 DEF FindCommand
  <2>2. Proper([settings EXCEPT !.messagesPerPurge = 0])
    BY ProperPuts, Zenon DEF Setters, FreeSetters
  <2> QED
    BY <2>1, <2>2
<1>6. CASE SingleMessage
  <2>1. \/ settings' = settings
        \/ settings' = [settings EXCEPT !.ignoreFrom = TRUE,
                                        !.ignoreContentLength = TRUE]
    BY <1>6 DEF SingleMessage
  <2> DEFINE single == [settings EXCEPT !.ignoreFrom = TRUE]
  <2>2. Proper(single)
    BY ProperPuts, Zenon DEF Setters, FreeSetters
  <2>3. settings' = settings \/ settings' = [single EXCEPT !.ignoreContentLength = TRUE]
    BY <2>1, SMT
  <2> HIDE DEF single
  <2>4. Proper([single EXCEPT !.ignoreContentLength = TRUE])
    BY <2>2, ProperPuts, Zenon DEF Setters, FreeSetters
  <2> QED
    BY <2>3, <2>4
<1>7. CASE ApplyTestCase
  BY <1>7, ProperTestCase, Zenon DEF ApplyTestCase
<1>8. CASE ApplyExtendedOption
  BY <1>8, ProperExtendedOption, Zenon DEF ApplyExtendedOption
<1>9. CASE UNCHANGED settings
  BY <1>9
<1>10. CASE UNCHANGED vars
  BY <1>10 DEF vars
<1> QED
  BY <1>1, <1>2, <1>3, <1>4, <1>5, <1>6, <1>7, <1>8, <1>9, <1>10, Zenon
     DEF Next, AnyOption, RejectConfig, ShowUsage, EndOfNames, CreateConfig, Help,
         OpenDatabase, TermsCommand, StartFile, NothingToBalance, SkipMessage,
         ProcessMessage, FinishFile, BadLine, Interrupted, EndCommand, Again, Stop,
         vars

------------------------------------------------------------------------------
(* The names of the headers that are printed. *)

\* The function that ListedNames is computed with.
IsListed(f, h, n) ==
  f = [i \in 0..n |->
         IF i = 0 THEN <<>>
         ELSE IF HeaderOrder[i] \in DOMAIN h.values
              THEN Append(f[i - 1], HeaderOrder[i]) ELSE f[i - 1]]

LEMMA ListedExists ==
  ASSUME NEW h, NEW n \in Nat
  PROVE  \E f : IsListed(f, h, n)
<1> DEFINE Lacking == {k \in Nat : ~ \E f : IsListed(f, h, k)}
<1> SUFFICES ASSUME Lacking # {} PROVE FALSE
  OBVIOUS
<1>1. PICK k \in Lacking : \A j \in Lacking : k <= j
  BY Smallest
<1>2. k \in Nat /\ ~ \E f : IsListed(f, h, k)
  OBVIOUS
<1>3. k # 0
  <2>1. IsListed([i \in 0..0 |-> <<>>], h, 0)
    BY DEF IsListed
  <2> QED
    BY <1>2, <2>1
<1>4. k - 1 \in Nat /\ k - 1 \notin Lacking
  <2>1. k - 1 \in Nat /\ ~(k <= k - 1)
    BY <1>2, <1>3
  <2> HIDE DEF Lacking
  <2> QED
    BY <1>1, <2>1
<1>5. PICK f : IsListed(f, h, k - 1)
  BY <1>4
<1> DEFINE g == [i \in 0..k |->
                   IF i # k THEN f[i]
                   ELSE IF HeaderOrder[k] \in DOMAIN h.values
                        THEN Append(f[k - 1], HeaderOrder[k]) ELSE f[k - 1]]
<1>6. ASSUME NEW i \in 0..k
      PROVE  g[i] = IF i = 0 THEN <<>>
                    ELSE IF HeaderOrder[i] \in DOMAIN h.values
                         THEN Append(g[i - 1], HeaderOrder[i]) ELSE g[i - 1]
  <2>1. CASE i = k
    BY <1>2, <1>3, <2>1
  <2>2. CASE i # k
    <3>1. i \in 0..(k - 1) /\ (i # 0 => i - 1 \in 0..k /\ i - 1 # k)
      BY <1>2, <2>2
    <3>2. f[i] = IF i = 0 THEN <<>>
                 ELSE IF HeaderOrder[i] \in DOMAIN h.values
                      THEN Append(f[i - 1], HeaderOrder[i]) ELSE f[i - 1]
      BY <1>5, <3>1 DEF IsListed
    <3> QED
      BY <2>2, <3>1, <3>2
  <2> QED
    BY <2>1, <2>2
<1>7. g = [i \in 0..k |-> g[i]]
  OBVIOUS
<1> HIDE DEF g
<1>8. IsListed(g, h, k)
  BY <1>6, <1>7 DEF IsListed
<1> QED
  BY <1>2, <1>8

LEMMA OrderLength == Len(HeaderOrder) = 18 /\ DOMAIN HeaderOrder = 1..18
  BY SMT DEF HeaderOrder

(* The headers that are listed are those that have an entry. *)
LEMMA ListedAre ==
  ASSUME NEW h, ~h.all, DOMAIN h.values \subseteq HeaderNames
  PROVE  LET names == ListedNames(h)
         IN names \in Seq(HeaderNames)
            /\ {names[i] : i \in 1..Len(names)} = DOMAIN h.values
<1> DEFINE n == Len(HeaderOrder)
           f == CHOOSE f : IsListed(f, h, n)
<1>1. n = 18 /\ DOMAIN HeaderOrder = 1..n
  BY OrderLength
<1>2. IsListed(f, h, n)
  <2>1. \E g : IsListed(g, h, n)
    BY <1>1, ListedExists
  <2> QED
    BY <2>1, Zenon
<1>3. ListedNames(h) = f[n]
  BY SMT DEF ListedNames, IsListed
<1> HIDE DEF f
<1> DEFINE Upto(i) == {HeaderOrder[j] : j \in 1..i} \cap DOMAIN h.values
           Right(i) == f[i] \in Seq(HeaderNames)
                       /\ {f[i][k] : k \in 1..Len(f[i])} = Upto(i)
           Wrong == {i \in 0..n : ~Right(i)}
<1>4. Wrong = {}
  <2> SUFFICES ASSUME Wrong # {} PROVE FALSE
    OBVIOUS
  <2> HIDE DEF Right
  <2>11. Wrong \subseteq Nat
    BY <1>1
  <2>1. PICK i \in Wrong : \A j \in Wrong : i <= j
    <3> HIDE DEF Wrong
    <3> QED
      BY <2>11, Smallest
  <2>2. i \in 0..n /\ ~Right(i)
    OBVIOUS
  <2>12. Right(0)
    <3>1. f[0] = <<>>
      BY <1>1, <1>2 DEF IsListed
    <3>2. <<>> \in Seq(HeaderNames) /\ Len(<<>>) = 0
      OBVIOUS
    <3>3. {f[0][k] : k \in 1..Len(f[0])} = {}
      BY <3>1, <3>2
    <3>4. Upto(0) = {}
      OBVIOUS
    <3> HIDE DEF Upto
    <3> QED
      BY <3>1, <3>2, <3>3, <3>4 DEF Right
  <2>3. i # 0
    BY <2>2, <2>12
  <2>4. i - 1 \in 0..n /\ i - 1 \notin Wrong
    <3>1. i - 1 \in 0..n /\ ~(i <= i - 1)
      BY <1>1, <2>2, <2>3
    <3> HIDE DEF Wrong
    <3> QED
      BY <2>1, <3>1
  <2>5. Right(i - 1)
    BY <2>4
  <2> USE DEF Right
  <2>6. f[i] = IF HeaderOrder[i] \in DOMAIN h.values
               THEN Append(f[i - 1], HeaderOrder[i]) ELSE f[i - 1]
    BY <1>1, <1>2, <2>2, <2>3 DEF IsListed
  <2> DEFINE g == f[i - 1]
             new == HeaderOrder[i]
  <2>7. Upto(i) = Upto(i - 1) \cup ({new} \cap DOMAIN h.values)
    <3>1. 1..i = 1..(i - 1) \cup {i}
      BY <1>1, <2>2, <2>3
    <3> QED
      BY <3>1
  <2>8. new \in HeaderNames
    BY <1>1, <2>2, <2>3 DEF HeaderNames
  <2>9. CASE new \in DOMAIN h.values
    <3>1. f[i] = Append(g, new) /\ g \in Seq(HeaderNames)
      BY <2>5, <2>6, <2>9
    <3>2. /\ f[i] \in Seq(HeaderNames) /\ Len(f[i]) = Len(g) + 1
          /\ \A k \in 1..Len(g) : f[i][k] = g[k]
          /\ f[i][Len(g) + 1] = new
      BY <2>8, <3>1
    <3>3. Len(g) \in Nat
      BY <3>1
    <3>4. {f[i][k] : k \in 1..Len(f[i])} = {g[k] : k \in 1..Len(g)} \cup {new}
      <4>1. 1..Len(f[i]) = 1..Len(g) \cup {Len(g) + 1}
        BY <3>2, <3>3
      <4> HIDE DEF g, new
      <4> QED
        BY <3>2, <4>1
    <3> QED
      BY <2>2, <2>5, <2>7, <2>9, <3>2, <3>4
  <2>10. CASE new \notin DOMAIN h.values
    BY <2>2, <2>5, <2>6, <2>7, <2>10
  <2> QED
    BY <2>9, <2>10
<1>5. Right(n)
  <2>1. n \in 0..n
    BY <1>1
  <2> HIDE DEF Right, n
  <2> QED
    BY <1>4, <2>1
<1>6. Upto(n) = DOMAIN h.values
  BY <1>1 DEF HeaderNames
<1> QED
  BY <1>3, <1>5, <1>6

LEMMA PrintedAre ==
  ASSUME NEW h, ProperHeaders(h)
  PROVE  /\ PrintedNames(h) \in Seq(HeaderNames)
         /\ h.all => PrintedNames(h) = <<>>
         /\ PrintsHeaders(h) => PrintedNames(h) = ListedNames(h)
<1> DEFINE names == ListedNames(h)
           before(i) == \A j \in 1..i : HasPrefixes(h, names[j])
           T == {i \in 1..Len(names) : before(i)}
           c == Cardinality(T)
<1>1. /\ names \in Seq(HeaderNames)
      /\ h.all => names = <<>>
  <2>1. CASE h.all
    <3>1. names = <<>>
      BY <2>1 DEF ListedNames
    <3> QED
      BY <3>1
  <2>2. CASE ~h.all
    BY <2>2, ListedAre DEF ProperHeaders
  <2> QED
    BY <2>1, <2>2
<1>2. PrintedNames(h) = SubSeq(names, 1, c)
  BY DEF PrintedNames
<1> HIDE DEF names
<1>3. Len(names) \in Nat
  BY <1>1
<1>4. IsFiniteSet(1..Len(names)) /\ Cardinality(1..Len(names)) = Len(names)
  <2>1. IsFiniteSet(1..Len(names))
        /\ Cardinality(1..Len(names)) = IF 1 > Len(names) THEN 0 ELSE Len(names) - 1 + 1
    BY <1>3, FS_Interval
  <2> QED
    BY <1>3, <2>1
<1>5. T \subseteq 1..Len(names)
  OBVIOUS
<1> HIDE DEF T
<1>6. c \in Nat /\ c <= Len(names)
  BY <1>4, <1>5, FS_Subset, FS_CardinalityType
<1>7. PrintsHeaders(h) => c = Len(names)
  <2>1. PrintsHeaders(h) => T = 1..Len(names)
    BY <1>3 DEF PrintsHeaders, T, names
  <2> QED
    BY <1>4, <2>1
<1> HIDE DEF c
<1>8. SubSeq(names, 1, c) \in Seq(HeaderNames)
  BY <1>1, <1>3, <1>6
<1>9. h.all => SubSeq(names, 1, c) = <<>>
  BY <1>1, <1>3, <1>6
<1>10. c = Len(names) => SubSeq(names, 1, c) = names
  BY <1>1, <1>3
<1> QED
  BY <1>2, <1>7, <1>8, <1>9, <1>10 DEF names

------------------------------------------------------------------------------
(* The statements of a written file. *)

IsList(list) == \E S : list \in Seq(S)
Elements(list) == {list[i] : i \in 1..Len(list)}

LEMMA ListIs ==
  ASSUME NEW list, IsList(list)
  PROVE  Len(list) \in Nat /\ DOMAIN list = 1..Len(list)
  BY DEF IsList

LEMMA Joined ==
  ASSUME NEW a, IsList(a), NEW b, IsList(b)
  PROVE  /\ IsList(a \o b) /\ Len(a \o b) = Len(a) + Len(b)
         /\ \A i \in 1..Len(a) : (a \o b)[i] = a[i]
         /\ \A i \in 1..Len(b) : (a \o b)[Len(a) + i] = b[i]
         /\ \A i \in 1..(Len(a) + Len(b)) :
              \/ i \in 1..Len(a)
              \/ i - Len(a) \in 1..Len(b) /\ i = Len(a) + (i - Len(a))
<1>1. PICK S, T : a \in Seq(S) /\ b \in Seq(T)
  BY DEF IsList
<1> DEFINE U == S \cup T
<1>2. S \subseteq U /\ T \subseteq U
  OBVIOUS
<1> HIDE DEF U
<1>3. a \in Seq(U) /\ b \in Seq(U)
  BY <1>1, <1>2
<1>4. Len(a) \in Nat /\ Len(b) \in Nat
  BY <1>3
<1>5. a \o b \in Seq(U) /\ Len(a \o b) = Len(a) + Len(b)
  BY <1>3
<1>6. IsList(a \o b)
  BY <1>5 DEF IsList
<1>7. /\ \A i \in 1..Len(a) : (a \o b)[i] = a[i]
      /\ \A i \in 1..Len(b) : (a \o b)[Len(a) + i] = b[i]
  BY <1>3
<1>8. \A i \in 1..(Len(a) + Len(b)) :
              \/ i \in 1..Len(a)
              \/ i - Len(a) \in 1..Len(b) /\ i = Len(a) + (i - Len(a))
  BY <1>4
<1> QED
  BY <1>5, <1>6, <1>7, <1>8

LEMMA JoinedElements ==
  ASSUME NEW a, IsList(a), NEW b, IsList(b)
  PROVE  IsList(a \o b) /\ Elements(a \o b) = Elements(a) \cup Elements(b)
<1>1. Len(a) \in Nat /\ Len(b) \in Nat
  BY ListIs
<1>2. Elements(a \o b) \subseteq Elements(a) \cup Elements(b)
  <2> SUFFICES ASSUME NEW i \in 1..(Len(a) + Len(b))
               PROVE  (a \o b)[i] \in Elements(a) \cup Elements(b)
    BY Joined DEF Elements
  <2>1. CASE i \in 1..Len(a)
    BY <2>1, Joined DEF Elements
  <2>2. CASE i - Len(a) \in 1..Len(b)
    <3> DEFINE j == i - Len(a)
    <3>1. j \in 1..Len(b) /\ i = Len(a) + j
      BY <1>1, <2>2
    <3>2. (a \o b)[i] = b[j]
      BY <3>1, Joined
    <3> QED
      BY <3>1, <3>2 DEF Elements
  <2> QED
    BY <2>1, <2>2, Joined
<1>3. Elements(a) \subseteq Elements(a \o b)
  <2> SUFFICES ASSUME NEW i \in 1..Len(a) PROVE a[i] \in Elements(a \o b)
    BY DEF Elements
  <2>1. (a \o b)[i] = a[i] /\ i \in 1..Len(a \o b)
    BY <1>1, Joined
  <2> QED
    BY <2>1 DEF Elements
<1>4. Elements(b) \subseteq Elements(a \o b)
  <2> SUFFICES ASSUME NEW i \in 1..Len(b) PROVE b[i] \in Elements(a \o b)
    BY DEF Elements
  <2>1. (a \o b)[Len(a) + i] = b[i] /\ Len(a) + i \in 1..Len(a \o b)
    BY <1>1, Joined
  <2> QED
    BY <2>1 DEF Elements
<1> QED
  BY <1>2, <1>3, <1>4, Joined

LEMMA ElevenStatements ==
  ASSUME NEW a, NEW b, NEW c, NEW d, NEW e, NEW f, NEW g, NEW h, NEW i, NEW j, NEW k
  PROVE  IsList(<<a, b, c, d, e, f, g, h, i, j, k>>) /\ Elements(<<a, b, c, d, e, f, g, h, i, j, k>>) = {a, b, c, d, e, f, g, h, i, j, k}
<1> DEFINE list == <<a, b, c, d, e, f, g, h, i, j, k>>
<1>1. list \in Seq({a, b, c, d, e, f, g, h, i, j, k}) /\ Len(list) = 11
  OBVIOUS
<1>2. list[1] = a /\ list[2] = b /\ list[3] = c /\ list[4] = d /\ list[5] = e /\ list[6] = f /\ list[7] = g /\ list[8] = h /\ list[9] = i /\ list[10] = j /\ list[11] = k
  OBVIOUS
<1>3. 1..11 = {1, 2, 3, 4, 5, 6, 7, 8, 9, 10, 11}
  OBVIOUS
<1> HIDE DEF list
<1>4. Elements(list) = {a, b, c, d, e, f, g, h, i, j, k}
  BY <1>1, <1>2, <1>3, SMT DEF Elements
<1> QED
  BY <1>1, <1>4 DEF IsList, list

LEMMA TwelveStatements ==
  ASSUME NEW a, NEW b, NEW c, NEW d, NEW e, NEW f, NEW g, NEW h, NEW i, NEW j, NEW k, NEW l
  PROVE  IsList(<<a, b, c, d, e, f, g, h, i, j, k, l>>) /\ Elements(<<a, b, c, d, e, f, g, h, i, j, k, l>>) = {a, b, c, d, e, f, g, h, i, j, k, l}
<1> DEFINE list == <<a, b, c, d, e, f, g, h, i, j, k, l>>
<1>1. list \in Seq({a, b, c, d, e, f, g, h, i, j, k, l}) /\ Len(list) = 12
  OBVIOUS
<1>2. list[1] = a /\ list[2] = b /\ list[3] = c /\ list[4] = d /\ list[5] = e /\ list[6] = f /\ list[7] = g /\ list[8] = h /\ list[9] = i /\ list[10] = j /\ list[11] = k /\ list[12] = l
  OBVIOUS
<1>3. 1..12 = {1, 2, 3, 4, 5, 6, 7, 8, 9, 10, 11, 12}
  OBVIOUS
<1> HIDE DEF list
<1>4. Elements(list) = {a, b, c, d, e, f, g, h, i, j, k, l}
  BY <1>1, <1>2, <1>3, SMT DEF Elements
<1> QED
  BY <1>1, <1>4 DEF IsList, list

LEMMA Tuples ==
  /\ IsList(<<>>) /\ Elements(<<>>) = {}
  /\ \A a :
       IsList(<<a>>) /\ Elements(<<a>>) = {a}
  /\ \A a, b :
       IsList(<<a, b>>) /\ Elements(<<a, b>>) = {a, b}
  /\ \A a, b, c, d :
       IsList(<<a, b, c, d>>) /\ Elements(<<a, b, c, d>>) = {a, b, c, d}
  /\ \A a, b, c, d, e :
       IsList(<<a, b, c, d, e>>) /\ Elements(<<a, b, c, d, e>>) = {a, b, c, d, e}
<1>1. IsList(<<>>) /\ Elements(<<>>) = {}
  <2> DEFINE list == <<>>
  <2>1. list \in Seq({}) /\ Len(list) = 0
    OBVIOUS
  <2>2. TRUE
    OBVIOUS
  <2>3. 1..0 = {}
    OBVIOUS
  <2> HIDE DEF list
  <2>4. Elements(list) = {}
    BY <2>1, <2>2, <2>3, SMT DEF Elements
  <2> QED
    BY <2>1, <2>4 DEF IsList, list
<1>2. ASSUME NEW a
      PROVE  IsList(<<a>>) /\ Elements(<<a>>) = {a}
  <2> DEFINE list == <<a>>
  <2>1. list \in Seq({a}) /\ Len(list) = 1
    OBVIOUS
  <2>2. list[1] = a
    OBVIOUS
  <2>3. 1..1 = {1}
    OBVIOUS
  <2> HIDE DEF list
  <2>4. Elements(list) = {a}
    BY <2>1, <2>2, <2>3, SMT DEF Elements
  <2> QED
    BY <2>1, <2>4 DEF IsList, list
<1>3. ASSUME NEW a, NEW b
      PROVE  IsList(<<a, b>>) /\ Elements(<<a, b>>) = {a, b}
  <2> DEFINE list == <<a, b>>
  <2>1. list \in Seq({a, b}) /\ Len(list) = 2
    OBVIOUS
  <2>2. list[1] = a /\ list[2] = b
    OBVIOUS
  <2>3. 1..2 = {1, 2}
    OBVIOUS
  <2> HIDE DEF list
  <2>4. Elements(list) = {a, b}
    BY <2>1, <2>2, <2>3, SMT DEF Elements
  <2> QED
    BY <2>1, <2>4 DEF IsList, list
<1>4. ASSUME NEW a, NEW b, NEW c, NEW d
      PROVE  IsList(<<a, b, c, d>>) /\ Elements(<<a, b, c, d>>) = {a, b, c, d}
  <2> DEFINE list == <<a, b, c, d>>
  <2>1. list \in Seq({a, b, c, d}) /\ Len(list) = 4
    OBVIOUS
  <2>2. list[1] = a /\ list[2] = b /\ list[3] = c /\ list[4] = d
    OBVIOUS
  <2>3. 1..4 = {1, 2, 3, 4}
    OBVIOUS
  <2> HIDE DEF list
  <2>4. Elements(list) = {a, b, c, d}
    BY <2>1, <2>2, <2>3, SMT DEF Elements
  <2> QED
    BY <2>1, <2>4 DEF IsList, list
<1>5. ASSUME NEW a, NEW b, NEW c, NEW d, NEW e
      PROVE  IsList(<<a, b, c, d, e>>) /\ Elements(<<a, b, c, d, e>>) = {a, b, c, d, e}
  <2> DEFINE list == <<a, b, c, d, e>>
  <2>1. list \in Seq({a, b, c, d, e}) /\ Len(list) = 5
    OBVIOUS
  <2>2. list[1] = a /\ list[2] = b /\ list[3] = c /\ list[4] = d /\ list[5] = e
    OBVIOUS
  <2>3. 1..5 = {1, 2, 3, 4, 5}
    OBVIOUS
  <2> HIDE DEF list
  <2>4. Elements(list) = {a, b, c, d, e}
    BY <2>1, <2>2, <2>3, SMT DEF Elements
  <2> QED
    BY <2>1, <2>4 DEF IsList, list
<1> QED
  BY <1>1, <1>2, <1>3, <1>4, <1>5, Zenon

------------------------------------------------------------------------------
(* The tokens that are printed and what is read of them. *)

LEMMA TokensRead ==
  /\ \A b \in BOOLEAN : /\ BoolToken(b).type = "id"
                        /\ BoolToken(b).string \in {"true", "false"}
                        /\ BoolToken(b).number = 0
                        /\ IsTrueValue(BoolToken(b)) = b
  /\ \A n \in Nat : IntToken(n).type = "int" /\ IntToken(n).number = n
  /\ \A n \in Int : IntToken(n).number \in Nat
  /\ \A str : str \notin Unquotable => /\ StringToken(str).type = "string"
                                       /\ StringToken(str).string = str
  /\ \A str : StringToken(str).number = 0
  /\ \A id : IdToken(id).type = "id" /\ IdToken(id).string = id /\ IdToken(id).number = 0
<1>1. ASSUME NEW b \in BOOLEAN
      PROVE  /\ BoolToken(b).type = "id"
             /\ BoolToken(b).string \in {"true", "false"}
             /\ BoolToken(b).number = 0
             /\ IsTrueValue(BoolToken(b)) = b
  <2>1. CASE b
    <3>1. BoolToken(b) = Token("id", 0, "true")
      BY <2>1, Zenon DEF BoolToken, IdToken
    <3> DEFINE token == Token("id", 0, "true")
    <3>4. token.type = "id" /\ token.string = "true"
      BY SMT DEF Token
    <3> HIDE DEF token
    <3>5. IsTrueValue(token)
      BY <3>4, SMT DEF IsTrueValue
    <3>2. IsTrueValue(Token("id", 0, "true"))
      BY <3>5 DEF token
    <3>3. IsTrueValue(BoolToken(b)) = b
      BY <2>1, <3>1, <3>2, TruthRead, Zenon
    <3> QED
      BY <3>1, <3>3, SMT DEF Token
  <2>2. CASE ~b
    <3>1. BoolToken(b) = Token("id", 0, "false")
      BY <2>2, Zenon DEF BoolToken, IdToken
    <3>2. ~IsTrueValue(Token("id", 0, "false"))
      BY SMT DEF IsTrueValue, Token
    <3>3. IsTrueValue(BoolToken(b)) = b
      BY <2>2, <3>1, <3>2, TruthRead, Zenon
    <3> QED
      BY <3>1, <3>3, SMT DEF Token
  <2> QED
    BY <2>1, <2>2
<1>2. \A n \in Nat : IntToken(n).type = "int" /\ IntToken(n).number = n
  BY SMT DEF IntToken, Token
<1>3. \A n \in Int : IntToken(n).number \in Nat
  BY SMT DEF IntToken, Token, Unreadable
<1>4. \A str : str \notin Unquotable => /\ StringToken(str).type = "string"
                                       /\ StringToken(str).string = str
  BY SMT DEF StringToken, Token
<1>5. \A str : StringToken(str).number = 0
  BY SMT DEF StringToken, Token, Unreadable
<1>6. \A id : IdToken(id).type = "id" /\ IdToken(id).string = id /\ IdToken(id).number = 0
  BY SMT DEF IdToken, Token
<1> QED
  BY <1>1, <1>2, <1>3, <1>4, <1>5, <1>6

LEMMA FractionsRead ==
  ASSUME NEW v \in Nat
  PROVE  /\ DoubleToken(v).number \in Nat
         /\ DoubleToken(v) # Unreadable =>
              /\ DoubleToken(v).type \in {"int", "double"}
              /\ DoubleValue(DoubleToken(v)) = SixDigits(v)
<1> DEFINE shown == SixDigits(v)
<1>1. shown \in Nat
  BY SMT DEF SixDigits, One
<1> HIDE DEF shown
<1> DEFINE whole == shown % One = 0
           small == shown < One \div 10000
<1>2. DoubleToken(v) = CASE whole -> Token("int", shown \div One, "")
                         [] ~whole /\ small -> Unreadable
                         [] OTHER -> Token("double", shown, "")
  BY SMT DEF DoubleToken, shown
<1>3. shown \div One \in Nat /\ (whole => (shown \div One) * One = shown)
  BY <1>1, SMT DEF One
<1> HIDE DEF whole, small
<1>7. \A n : LET token == Token("int", n, "")
             IN token.type = "int" /\ token.number = n
  BY SMT DEF Token
<1>8. \A n : LET token == Token("double", n, "")
             IN token.type = "double" /\ token.number = n
  BY SMT DEF Token
<1>4. CASE whole
  <2> DEFINE token == Token("int", shown \div One, "")
  <2>1. DoubleToken(v) = token
    BY <1>2, <1>4, Zenon
  <2>2. token.type = "int" /\ token.number = shown \div One
    BY <1>7
  <2> HIDE DEF token
  <2>3. DoubleValue(token) = (shown \div One) * One
    BY <2>2, Zenon DEF DoubleValue
  <2> QED
    BY <1>3, <1>4, <2>1, <2>2, <2>3, SMT DEF shown
<1>5. CASE ~whole /\ small
  <2>1. DoubleToken(v) = Unreadable
    BY <1>2, <1>5, Zenon
  <2>2. Unreadable.number = 0
    BY SMT DEF Token, Unreadable
  <2> QED
    BY <2>1, <2>2, SMT
<1>6. CASE ~whole /\ ~small
  <2> DEFINE token == Token("double", shown, "")
  <2>1. DoubleToken(v) = token
    BY <1>2, <1>6, Zenon
  <2>2. token.type = "double" /\ token.number = shown
    BY <1>8
  <2> HIDE DEF token
  <2>3. DoubleValue(token) = shown
    BY <2>2, SMT DEF DoubleValue
  <2> QED
    BY <1>1, <2>1, <2>2, <2>3, SMT DEF shown
<1> QED
  BY <1>4, <1>5, <1>6

------------------------------------------------------------------------------
(* What one statement of a file does to the settings. *)

(* What the plain statements of the parser block put. *)
ParserPuts(st, s, t) ==
  LET arg == st.args[1]
  IN /\ st.name = "min_term_length" =>
           Puts(s, t, "minTermLength", arg.number)
     /\ st.name = "max_term_length" =>
           Puts(s, t, "maxTermLength", arg.number)
     /\ st.name = "remove_html" =>
           Puts(s, t, "removeHTML", IsTrueValue(arg))
     /\ st.name = "min_phrase_terms" =>
           Puts(s, t, "minPhraseTerms", arg.number)
     /\ st.name = "max_phrase_terms" =>
           Puts(s, t, "maxPhraseTerms", arg.number)
     /\ st.name = "max_phrase_chars" =>
           Puts(s, t, "maxPhraseChars", arg.number)
     /\ st.name = "min_phrase_chars" =>
           Puts(s, t, "minPhraseChars", arg.number)
     /\ st.name = "max_message_terms" =>
           Puts(s, t, "maxTermsPerMessage", arg.number)
     /\ st.name = "spamprobe_field_name" =>
           Puts(s, t, "fieldName", arg.string)
     /\ st.name = "keep_suspicious_tags" =>
           Puts(s, t, "keepSuspiciousTags", IsTrueValue(arg))
     /\ st.name = "ignore_body" =>
           Puts(s, t, "ignoreBody", IsTrueValue(arg))

LEMMA ParserStatementPuts ==
  ASSUME NEW st, st.block = "parser", NEW s, DOMAIN s = Members, NEW reset
  PROVE  ParserPuts(st, s, Loaded(st, s, reset).settings)
<1> DEFINE arg == st.args[1]
           t == Loaded(st, s, reset).settings
<1>1. ASSUME st.name = "min_term_length"
      PROVE  Puts(s, t, "minTermLength", arg.number)
  <2> DEFINE v == arg.number
  <2>1. t = [s EXCEPT !.minTermLength = v]
    BY <1>1, SMT DEF Loaded, LoadParserStatement
  <2> HIDE DEF t, v
  <2>2. Puts(s, t, "minTermLength", v)
    BY <2>1, NamedMembers, SMT DEF Puts
  <2> QED
    BY <2>2 DEF v
<1>2. ASSUME st.name = "max_term_length"
      PROVE  Puts(s, t, "maxTermLength", arg.number)
  <2> DEFINE v == arg.number
  <2>1. t = [s EXCEPT !.maxTermLength = v]
    BY <1>2, SMT DEF Loaded, LoadParserStatement
  <2> HIDE DEF t, v
  <2>2. Puts(s, t, "maxTermLength", v)
    BY <2>1, NamedMembers, SMT DEF Puts
  <2> QED
    BY <2>2 DEF v
<1>3. ASSUME st.name = "remove_html"
      PROVE  Puts(s, t, "removeHTML", IsTrueValue(arg))
  <2> DEFINE v == IsTrueValue(arg)
  <2>1. t = [s EXCEPT !.removeHTML = v]
    BY <1>3, SMT DEF Loaded, LoadParserStatement
  <2> HIDE DEF t, v
  <2>2. Puts(s, t, "removeHTML", v)
    BY <2>1, NamedMembers, SMT DEF Puts
  <2> QED
    BY <2>2 DEF v
<1>4. ASSUME st.name = "min_phrase_terms"
      PROVE  Puts(s, t, "minPhraseTerms", arg.number)
  <2> DEFINE v == arg.number
  <2>1. t = [s EXCEPT !.minPhraseTerms = v]
    BY <1>4, SMT DEF Loaded, LoadParserStatement
  <2> HIDE DEF t, v
  <2>2. Puts(s, t, "minPhraseTerms", v)
    BY <2>1, NamedMembers, SMT DEF Puts
  <2> QED
    BY <2>2 DEF v
<1>5. ASSUME st.name = "max_phrase_terms"
      PROVE  Puts(s, t, "maxPhraseTerms", arg.number)
  <2> DEFINE v == arg.number
  <2>1. t = [s EXCEPT !.maxPhraseTerms = v]
    BY <1>5, SMT DEF Loaded, LoadParserStatement
  <2> HIDE DEF t, v
  <2>2. Puts(s, t, "maxPhraseTerms", v)
    BY <2>1, NamedMembers, SMT DEF Puts
  <2> QED
    BY <2>2 DEF v
<1>6. ASSUME st.name = "max_phrase_chars"
      PROVE  Puts(s, t, "maxPhraseChars", arg.number)
  <2> DEFINE v == arg.number
  <2>1. t = [s EXCEPT !.maxPhraseChars = v]
    BY <1>6, SMT DEF Loaded, LoadParserStatement
  <2> HIDE DEF t, v
  <2>2. Puts(s, t, "maxPhraseChars", v)
    BY <2>1, NamedMembers, SMT DEF Puts
  <2> QED
    BY <2>2 DEF v
<1>7. ASSUME st.name = "min_phrase_chars"
      PROVE  Puts(s, t, "minPhraseChars", arg.number)
  <2> DEFINE v == arg.number
  <2>1. t = [s EXCEPT !.minPhraseChars = v]
    BY <1>7, SMT DEF Loaded, LoadParserStatement
  <2> HIDE DEF t, v
  <2>2. Puts(s, t, "minPhraseChars", v)
    BY <2>1, NamedMembers, SMT DEF Puts
  <2> QED
    BY <2>2 DEF v
<1>8. ASSUME st.name = "max_message_terms"
      PROVE  Puts(s, t, "maxTermsPerMessage", arg.number)
  <2> DEFINE v == arg.number
  <2>1. t = [s EXCEPT !.maxTermsPerMessage = v]
    BY <1>8, SMT DEF Loaded, LoadParserStatement
  <2> HIDE DEF t, v
  <2>2. Puts(s, t, "maxTermsPerMessage", v)
    BY <2>1, NamedMembers, SMT DEF Puts
  <2> QED
    BY <2>2 DEF v
<1>9. ASSUME st.name = "spamprobe_field_name"
      PROVE  Puts(s, t, "fieldName", arg.string)
  <2> DEFINE v == arg.string
  <2>1. t = [s EXCEPT !.fieldName = v]
    BY <1>9, SMT DEF Loaded, LoadParserStatement
  <2> HIDE DEF t, v
  <2>2. Puts(s, t, "fieldName", v)
    BY <2>1, NamedMembers, SMT DEF Puts
  <2> QED
    BY <2>2 DEF v
<1>10. ASSUME st.name = "keep_suspicious_tags"
      PROVE  Puts(s, t, "keepSuspiciousTags", IsTrueValue(arg))
  <2> DEFINE v == IsTrueValue(arg)
  <2>1. t = [s EXCEPT !.keepSuspiciousTags = v]
    BY <1>10, SMT DEF Loaded, LoadParserStatement
  <2> HIDE DEF t, v
  <2>2. Puts(s, t, "keepSuspiciousTags", v)
    BY <2>1, NamedMembers, SMT DEF Puts
  <2> QED
    BY <2>2 DEF v
<1>11. ASSUME st.name = "ignore_body"
      PROVE  Puts(s, t, "ignoreBody", IsTrueValue(arg))
  <2> DEFINE v == IsTrueValue(arg)
  <2>1. t = [s EXCEPT !.ignoreBody = v]
    BY <1>11, SMT DEF Loaded, LoadParserStatement
  <2> HIDE DEF t, v
  <2>2. Puts(s, t, "ignoreBody", v)
    BY <2>1, NamedMembers, SMT DEF Puts
  <2> QED
    BY <2>2 DEF v
<1> HIDE DEF t
<1>99. ParserPuts(st, s, t)
  BY <1>1, <1>2, <1>3, <1>4, <1>5, <1>6, <1>7, <1>8, <1>9, <1>10, <1>11, Zenon DEF ParserPuts
<1> QED
  BY <1>99 DEF t

(* What the plain statements of the filter block put. *)
FilterPuts(st, s, t) ==
  LET arg == st.args[1]
  IN /\ st.name = "good_bias" =>
           Puts(s, t, "goodBias", arg.number)
     /\ st.name = "terms_for_score" =>
           Puts(s, t, "termsForScore", arg.number)
     /\ st.name = "max_word_repeats" =>
           Puts(s, t, "maxWordRepeats", arg.number)
     /\ st.name = "extend_top_terms" =>
           Puts(s, t, "extendTopTerms", IsTrueValue(arg))
     /\ st.name = "min_array_size" =>
           Puts(s, t, "minArraySize", arg.number)
     /\ st.name = "water_counts" =>
           Puts(s, t, "waterCounts", IsTrueValue(arg))
     /\ st.name = "new_word_score" =>
           Puts(s, t, "newWordScore", DoubleValue(arg))
     /\ st.name = "min_distance_for_score" =>
           Puts(s, t, "minDistance", DoubleValue(arg))

LEMMA FilterStatementPuts ==
  ASSUME NEW st, st.block = "filter", NEW s, DOMAIN s = Members, NEW reset
  PROVE  FilterPuts(st, s, Loaded(st, s, reset).settings)
<1> DEFINE arg == st.args[1]
           t == Loaded(st, s, reset).settings
<1>1. ASSUME st.name = "good_bias"
      PROVE  Puts(s, t, "goodBias", arg.number)
  <2> DEFINE v == arg.number
  <2>1. t = [s EXCEPT !.goodBias = v]
    BY <1>1, SMT DEF Loaded, LoadFilterStatement
  <2> HIDE DEF t, v
  <2>2. Puts(s, t, "goodBias", v)
    BY <2>1, NamedMembers, SMT DEF Puts
  <2> QED
    BY <2>2 DEF v
<1>2. ASSUME st.name = "terms_for_score"
      PROVE  Puts(s, t, "termsForScore", arg.number)
  <2> DEFINE v == arg.number
  <2>1. t = [s EXCEPT !.termsForScore = v]
    BY <1>2, SMT DEF Loaded, LoadFilterStatement
  <2> HIDE DEF t, v
  <2>2. Puts(s, t, "termsForScore", v)
    BY <2>1, NamedMembers, SMT DEF Puts
  <2> QED
    BY <2>2 DEF v
<1>3. ASSUME st.name = "max_word_repeats"
      PROVE  Puts(s, t, "maxWordRepeats", arg.number)
  <2> DEFINE v == arg.number
  <2>1. t = [s EXCEPT !.maxWordRepeats = v]
    BY <1>3, SMT DEF Loaded, LoadFilterStatement
  <2> HIDE DEF t, v
  <2>2. Puts(s, t, "maxWordRepeats", v)
    BY <2>1, NamedMembers, SMT DEF Puts
  <2> QED
    BY <2>2 DEF v
<1>4. ASSUME st.name = "extend_top_terms"
      PROVE  Puts(s, t, "extendTopTerms", IsTrueValue(arg))
  <2> DEFINE v == IsTrueValue(arg)
  <2>1. t = [s EXCEPT !.extendTopTerms = v]
    BY <1>4, SMT DEF Loaded, LoadFilterStatement
  <2> HIDE DEF t, v
  <2>2. Puts(s, t, "extendTopTerms", v)
    BY <2>1, NamedMembers, SMT DEF Puts
  <2> QED
    BY <2>2 DEF v
<1>5. ASSUME st.name = "min_array_size"
      PROVE  Puts(s, t, "minArraySize", arg.number)
  <2> DEFINE v == arg.number
  <2>1. t = [s EXCEPT !.minArraySize = v]
    BY <1>5, SMT DEF Loaded, LoadFilterStatement
  <2> HIDE DEF t, v
  <2>2. Puts(s, t, "minArraySize", v)
    BY <2>1, NamedMembers, SMT DEF Puts
  <2> QED
    BY <2>2 DEF v
<1>6. ASSUME st.name = "water_counts"
      PROVE  Puts(s, t, "waterCounts", IsTrueValue(arg))
  <2> DEFINE v == IsTrueValue(arg)
  <2>1. t = [s EXCEPT !.waterCounts = v]
    BY <1>6, SMT DEF Loaded, LoadFilterStatement
  <2> HIDE DEF t, v
  <2>2. Puts(s, t, "waterCounts", v)
    BY <2>1, NamedMembers, SMT DEF Puts
  <2> QED
    BY <2>2 DEF v
<1>7. ASSUME st.name = "new_word_score"
      PROVE  Puts(s, t, "newWordScore", DoubleValue(arg))
  <2> DEFINE v == DoubleValue(arg)
  <2>1. t = [s EXCEPT !.newWordScore = v]
    BY <1>7, SMT DEF Loaded, LoadFilterStatement
  <2> HIDE DEF t, v
  <2>2. Puts(s, t, "newWordScore", v)
    BY <2>1, NamedMembers, SMT DEF Puts
  <2> QED
    BY <2>2 DEF v
<1>8. ASSUME st.name = "min_distance_for_score"
      PROVE  Puts(s, t, "minDistance", DoubleValue(arg))
  <2> DEFINE v == DoubleValue(arg)
  <2>1. t = [s EXCEPT !.minDistance = v]
    BY <1>8, SMT DEF Loaded, LoadFilterStatement
  <2> HIDE DEF t, v
  <2>2. Puts(s, t, "minDistance", v)
    BY <2>1, NamedMembers, SMT DEF Puts
  <2> QED
    BY <2>2 DEF v
<1> HIDE DEF t
<1>99. FilterPuts(st, s, t)
  BY <1>1, <1>2, <1>3, <1>4, <1>5, <1>6, <1>7, <1>8, Zenon DEF FilterPuts
<1> QED
  BY <1>99 DEF t

(* What the plain statements of the database block put. *)
DatabasePuts(st, s, t) ==
  LET arg == st.args[1]
  IN /\ st.name = "private_filename" =>
           Puts(s, t, "private", arg.string)
     /\ st.name = "shared_filename" =>
           Puts(s, t, "shared", arg.string)
     /\ st.name = "target_size_mb" =>
           Puts(s, t, "targetSizeMB", arg.number)
     /\ st.name = "max_cache_terms" =>
           Puts(s, t, "maxCacheTerms", arg.number)

LEMMA DatabaseStatementPuts ==
  ASSUME NEW st, st.block = "database", NEW s, DOMAIN s = Members, NEW reset
  PROVE  DatabasePuts(st, s, Loaded(st, s, reset).settings)
<1> DEFINE arg == st.args[1]
           t == Loaded(st, s, reset).settings
<1>1. ASSUME st.name = "private_filename"
      PROVE  Puts(s, t, "private", arg.string)
  <2> DEFINE v == arg.string
  <2>1. t = [s EXCEPT !.private = v]
    BY <1>1, SMT DEF Loaded, LoadDatabaseStatement
  <2> HIDE DEF t, v
  <2>2. Puts(s, t, "private", v)
    BY <2>1, NamedMembers, SMT DEF Puts
  <2> QED
    BY <2>2 DEF v
<1>2. ASSUME st.name = "shared_filename"
      PROVE  Puts(s, t, "shared", arg.string)
  <2> DEFINE v == arg.string
  <2>1. t = [s EXCEPT !.shared = v]
    BY <1>2, SMT DEF Loaded, LoadDatabaseStatement
  <2> HIDE DEF t, v
  <2>2. Puts(s, t, "shared", v)
    BY <2>1, NamedMembers, SMT DEF Puts
  <2> QED
    BY <2>2 DEF v
<1>3. ASSUME st.name = "target_size_mb"
      PROVE  Puts(s, t, "targetSizeMB", arg.number)
  <2> DEFINE v == arg.number
  <2>1. t = [s EXCEPT !.targetSizeMB = v]
    BY <1>3, SMT DEF Loaded, LoadDatabaseStatement
  <2> HIDE DEF t, v
  <2>2. Puts(s, t, "targetSizeMB", v)
    BY <2>1, NamedMembers, SMT DEF Puts
  <2> QED
    BY <2>2 DEF v
<1>4. ASSUME st.name = "max_cache_terms"
      PROVE  Puts(s, t, "maxCacheTerms", arg.number)
  <2> DEFINE v == arg.number
  <2>1. t = [s EXCEPT !.maxCacheTerms = v]
    BY <1>4, SMT DEF Loaded, LoadDatabaseStatement
  <2> HIDE DEF t, v
  <2>2. Puts(s, t, "maxCacheTerms", v)
    BY <2>1, NamedMembers, SMT DEF Puts
  <2> QED
    BY <2>2 DEF v
<1> HIDE DEF t
<1>99. DatabasePuts(st, s, t)
  BY <1>1, <1>2, <1>3, <1>4, Zenon DEF DatabasePuts
<1> QED
  BY <1>99 DEF t

(* What the other statements put. *)
LEMMA OtherStatementPuts ==
  ASSUME NEW st, NEW s, DOMAIN s = Members, NEW reset
  PROVE  LET arg == st.args[1]
             t == Loaded(st, s, reset).settings
         IN /\ st.block = "parser" /\ st.name = "replace_non_ascii" =>
                 Puts(s, t, "nonAscii", IF IsTrueValue(arg) THEN "z" ELSE "")
            /\ st.block = "parser" /\ st.name = "non_ascii_replacement" /\ arg.string # "" =>
                 Puts(s, t, "nonAscii", arg.string)
            /\ st.block = "filter" /\ st.name = "min_word_count" =>
                 Puts(s, t, "minWordCount", arg.number)
            /\ st.block = "filter" /\ st.name = "spam_threshold" =>
                 Puts(s, t, "spamThreshold", DoubleValue(arg))
            /\ st.block = "database" /\ st.name = "type" =>
                 Puts(s, t, "type", IF arg.string = "default" THEN "" ELSE arg.string)
<1> DEFINE arg == st.args[1]
           t == Loaded(st, s, reset).settings
<1>1. ASSUME st.block = "parser", st.name = "replace_non_ascii"
      PROVE  Puts(s, t, "nonAscii", IF IsTrueValue(arg) THEN "z" ELSE "")
  <2>1. ASSUME IsTrueValue(arg) PROVE Puts(s, t, "nonAscii", "z")
    <3> DEFINE v == "z"
    <3>1. LoadParserStatement(st, s) = [s EXCEPT !.nonAscii = v]
      BY <1>1, <2>1, Zenon DEF LoadParserStatement, SetReplaceNonAscii
    <3>2. t = LoadParserStatement(st, s)
      BY <1>1, SMT DEF Loaded
    <3> HIDE DEF t, v
    <3>3. Puts(s, t, "nonAscii", v)
      BY <3>1, <3>2, NamedMembers, SMT DEF Puts
    <3> QED
      BY <3>3 DEF v
  <2>2. ASSUME ~(IsTrueValue(arg)) PROVE Puts(s, t, "nonAscii", "")
    <3> DEFINE v == ""
    <3>1. LoadParserStatement(st, s) = [s EXCEPT !.nonAscii = v]
      BY <1>1, <2>2, Zenon DEF LoadParserStatement, SetReplaceNonAscii
    <3>2. t = LoadParserStatement(st, s)
      BY <1>1, SMT DEF Loaded
    <3> HIDE DEF t, v
    <3>3. Puts(s, t, "nonAscii", v)
      BY <3>1, <3>2, NamedMembers, SMT DEF Puts
    <3> QED
      BY <3>3 DEF v
  <2> HIDE DEF t, arg
  <2> QED
    BY <2>1, <2>2, Zenon
<1>2. ASSUME st.block = "parser", st.name = "non_ascii_replacement", arg.string # ""
      PROVE  Puts(s, t, "nonAscii", arg.string)
  <2>1. LoadParserStatement(st, s) = [s EXCEPT !.nonAscii = arg.string]
    BY <1>2, Zenon DEF LoadParserStatement, SetReplaceNonAscii
  <2>2. t = LoadParserStatement(st, s)
    <3>1. st.block = "parser" /\ st.name # "header"
      BY <1>2
    <3> HIDE DEF arg
    <3> QED
      BY <3>1, SMT DEF Loaded
  <2> HIDE DEF t, arg
  <2> QED
    BY <2>1, <2>2, NamedMembers, SMT DEF Puts
<1>3. ASSUME st.block = "filter", st.name = "min_word_count"
      PROVE  Puts(s, t, "minWordCount", arg.number)
  <2> DEFINE v == arg.number
             u == SetMinWordCount(s, v)
  <2>1. t = u
    BY <1>3, SMT DEF Loaded, LoadFilterStatement
  <2> HIDE DEF v
  <2>2. /\ DOMAIN u = Members /\ u.minWordCount = v
        /\ \A m \in Members \ ({"minWordCount"} \cup Aftermath) : u[m] = s[m]
    BY WordCountEffect, SMT DEF Aftermath
  <2> HIDE DEF u, t
  <2>3. Puts(s, t, "minWordCount", v)
    BY <2>1, <2>2, Zenon DEF Puts
  <2> QED
    BY <2>3 DEF v
<1>4. ASSUME st.block = "filter", st.name = "spam_threshold"
      PROVE  Puts(s, t, "spamThreshold", DoubleValue(arg))
  <2> DEFINE v == DoubleValue(arg)
             u == SetSpamThreshold(s, v)
  <2>1. t = u
    BY <1>4, SMT DEF Loaded, LoadFilterStatement
  <2> HIDE DEF v
  <2>2. /\ DOMAIN u = Members /\ u.spamThreshold = v
        /\ \A m \in Members \ ({"spamThreshold"} \cup Aftermath) : u[m] = s[m]
    BY ThresholdEffect, SMT DEF Aftermath
  <2> HIDE DEF u, t
  <2>3. Puts(s, t, "spamThreshold", v)
    BY <2>1, <2>2, Zenon DEF Puts
  <2> QED
    BY <2>3 DEF v
<1>5. ASSUME st.block = "database", st.name = "type"
      PROVE  Puts(s, t, "type", IF arg.string = "default" THEN "" ELSE arg.string)
  <2>1. ASSUME arg.string = "default" PROVE Puts(s, t, "type", "")
    <3> DEFINE v == ""
    <3>1. LoadDatabaseStatement(st, s) = [s EXCEPT !.type = v]
      BY <1>5, <2>1, Zenon DEF LoadDatabaseStatement, SetReplaceNonAscii
    <3>2. t = LoadDatabaseStatement(st, s)
      BY <1>5, SMT DEF Loaded
    <3> HIDE DEF t, v
    <3>3. Puts(s, t, "type", v)
      BY <3>1, <3>2, NamedMembers, SMT DEF Puts
    <3> QED
      BY <3>3 DEF v
  <2>2. ASSUME ~(arg.string = "default") PROVE Puts(s, t, "type", arg.string)
    <3> DEFINE v == arg.string
    <3>1. LoadDatabaseStatement(st, s) = [s EXCEPT !.type = v]
      BY <1>5, <2>2, Zenon DEF LoadDatabaseStatement, SetReplaceNonAscii
    <3>2. t = LoadDatabaseStatement(st, s)
      BY <1>5, SMT DEF Loaded
    <3> HIDE DEF t, v
    <3>3. Puts(s, t, "type", v)
      BY <3>1, <3>2, NamedMembers, SMT DEF Puts
    <3> QED
      BY <3>3 DEF v
  <2> HIDE DEF t, arg
  <2> QED
    BY <2>1, <2>2, Zenon
<1> HIDE DEF t
<1> QED
  BY <1>1, <1>2, <1>3, <1>4, <1>5, Zenon DEF t

(* The score mode takes three values with it. *)
LEMMA ScoreModePuts ==
  ASSUME NEW st, st.block = "filter", st.name = "score_mode",
         NEW s, DOMAIN s = Members, NEW reset
  PROVE  LET t == Loaded(st, s, reset).settings
         IN /\ t.scoreMode = st.args[1].string
            /\ \A m \in Members \ {"scoreMode", "goodBias", "minWordCount",
                                    "spamThreshold"} : t[m] = s[m]
<1> DEFINE u == SetScoreMode(s, st.args[1].string)
<1>1. Loaded(st, s, reset).settings = u
  BY SMT DEF Loaded, LoadFilterStatement
<1>2. /\ u.scoreMode = st.args[1].string
      /\ \A m \in Members \ {"scoreMode", "goodBias", "minWordCount",
                              "spamThreshold"} : u[m] = s[m]
  BY ModeEffect, SMT
<1> HIDE DEF u
<1> QED
  BY <1>1, <1>2, Zenon

(* The statements about headers change nothing else. *)
LEMMA HeaderPuts ==
  ASSUME NEW st, \/ st.block = "parser" /\ st.name = "header"
                 \/ st.block = "header" /\ st.name # "header",
         NEW s, DOMAIN s = Members, NEW reset
  PROVE  \E v : Puts(s, Loaded(st, s, reset).settings, "headers", v)
<1> DEFINE t == Loaded(st, s, reset).settings
<1>1. CASE st.block = "parser" /\ st.name = "header"
  <2> DEFINE v == DefaultHeaders
  <2>1. t = [s EXCEPT !.headers = v]
    BY <1>1, SMT DEF Loaded
  <2> HIDE DEF t, v
  <2>2. Puts(s, t, "headers", v)
    BY <2>1, NamedMembers, SMT DEF Puts
  <2> QED
    BY <2>2 DEF t
<1>2. CASE st.block = "header" /\ st.name # "header"
  <2> DEFINE v == LoadHeaderStatement(st, s.headers, reset).headers
  <2>1. t = [s EXCEPT !.headers = v]
    BY <1>2, SMT DEF Loaded
  <2> HIDE DEF t, v
  <2>2. Puts(s, t, "headers", v)
    BY <2>1, NamedMembers, SMT DEF Puts
  <2> QED
    BY <2>2 DEF t
<1> QED
  BY <1>1, <1>2

------------------------------------------------------------------------------
(* The members that come back. *)

LEMMA ReturningMembers ==
  /\ "minTermLength" \in Returning
  /\ "maxTermLength" \in Returning
  /\ "removeHTML" \in Returning
  /\ "minPhraseTerms" \in Returning
  /\ "maxPhraseTerms" \in Returning
  /\ "maxPhraseChars" \in Returning
  /\ "minPhraseChars" \in Returning
  /\ "maxTermsPerMessage" \in Returning
  /\ "fieldName" \in Returning
  /\ "keepSuspiciousTags" \in Returning
  /\ "ignoreBody" \in Returning
  /\ "goodBias" \in Returning
  /\ "termsForScore" \in Returning
  /\ "maxWordRepeats" \in Returning
  /\ "extendTopTerms" \in Returning
  /\ "minArraySize" \in Returning
  /\ "waterCounts" \in Returning
  /\ "newWordScore" \in Returning
  /\ "minDistance" \in Returning
  /\ "private" \in Returning
  /\ "shared" \in Returning
  /\ "targetSizeMB" \in Returning
  /\ "maxCacheTerms" \in Returning
  /\ "nonAscii" \in Returning
  /\ "scoreMode" \in Returning
  /\ "minWordCount" \in Returning
  /\ "spamThreshold" \in Returning
  /\ "type" \in Returning
  BY SMT DEF Returning, Kept, KeptRoughly, ParserMembers, FilterMembers, DatabaseMembers

LEMMA ReturningAre ==
  Returning = {"minTermLength", "maxTermLength", "removeHTML", "minPhraseTerms",
               "maxPhraseTerms", "maxPhraseChars", "minPhraseChars", "maxTermsPerMessage",
               "fieldName", "keepSuspiciousTags", "ignoreBody", "goodBias",
               "termsForScore", "maxWordRepeats", "extendTopTerms", "minArraySize",
               "waterCounts", "newWordScore", "minDistance", "private",
               "shared", "targetSizeMB", "maxCacheTerms", "nonAscii",
               "scoreMode", "minWordCount", "spamThreshold", "type"}
  BY SMT DEF Returning, Kept, KeptRoughly, ParserMembers, FilterMembers, DatabaseMembers

LEMMA ReturningOthers ==
  Returning \subseteq Members /\ Returning \cap Aftermath = {} /\ "headers" \notin Returning
  BY SMT DEF Returning, Kept, KeptRoughly, Aftermath, Members, ParserMembers, FilterMembers,
             DatabaseMembers, CommandMembers

LEMMA WantedValues ==
  \A o :
    /\ Wanted(o, "minTermLength") = o.minTermLength
    /\ Wanted(o, "maxTermLength") = o.maxTermLength
    /\ Wanted(o, "removeHTML") = o.removeHTML
    /\ Wanted(o, "minPhraseTerms") = o.minPhraseTerms
    /\ Wanted(o, "maxPhraseTerms") = o.maxPhraseTerms
    /\ Wanted(o, "maxPhraseChars") = o.maxPhraseChars
    /\ Wanted(o, "minPhraseChars") = o.minPhraseChars
    /\ Wanted(o, "maxTermsPerMessage") = o.maxTermsPerMessage
    /\ Wanted(o, "fieldName") = o.fieldName
    /\ Wanted(o, "keepSuspiciousTags") = o.keepSuspiciousTags
    /\ Wanted(o, "ignoreBody") = o.ignoreBody
    /\ Wanted(o, "goodBias") = o.goodBias
    /\ Wanted(o, "termsForScore") = o.termsForScore
    /\ Wanted(o, "maxWordRepeats") = o.maxWordRepeats
    /\ Wanted(o, "extendTopTerms") = o.extendTopTerms
    /\ Wanted(o, "minArraySize") = o.minArraySize
    /\ Wanted(o, "waterCounts") = o.waterCounts
    /\ Wanted(o, "newWordScore") = SixDigits(o.newWordScore)
    /\ Wanted(o, "minDistance") = SixDigits(o.minDistance)
    /\ Wanted(o, "private") = o.private
    /\ Wanted(o, "shared") = o.shared
    /\ Wanted(o, "targetSizeMB") = o.targetSizeMB
    /\ Wanted(o, "maxCacheTerms") = o.maxCacheTerms
    /\ Wanted(o, "nonAscii") = o.nonAscii
    /\ Wanted(o, "scoreMode") = o.scoreMode
    /\ Wanted(o, "minWordCount") = o.minWordCount
    /\ Wanted(o, "spamThreshold") = SixDigits(o.spamThreshold)
    /\ Wanted(o, "type") = o.type
<1>1. /\ "minTermLength" \notin KeptRoughly
      /\ "maxTermLength" \notin KeptRoughly
      /\ "removeHTML" \notin KeptRoughly
      /\ "minPhraseTerms" \notin KeptRoughly
      /\ "maxPhraseTerms" \notin KeptRoughly
      /\ "maxPhraseChars" \notin KeptRoughly
      /\ "minPhraseChars" \notin KeptRoughly
      /\ "maxTermsPerMessage" \notin KeptRoughly
      /\ "fieldName" \notin KeptRoughly
      /\ "keepSuspiciousTags" \notin KeptRoughly
      /\ "ignoreBody" \notin KeptRoughly
      /\ "goodBias" \notin KeptRoughly
      /\ "termsForScore" \notin KeptRoughly
      /\ "maxWordRepeats" \notin KeptRoughly
      /\ "extendTopTerms" \notin KeptRoughly
      /\ "minArraySize" \notin KeptRoughly
      /\ "waterCounts" \notin KeptRoughly
      /\ "newWordScore" \in KeptRoughly
      /\ "minDistance" \in KeptRoughly
      /\ "private" \notin KeptRoughly
      /\ "shared" \notin KeptRoughly
      /\ "targetSizeMB" \notin KeptRoughly
      /\ "maxCacheTerms" \notin KeptRoughly
      /\ "nonAscii" \notin KeptRoughly
      /\ "scoreMode" \notin KeptRoughly
      /\ "minWordCount" \notin KeptRoughly
      /\ "spamThreshold" \in KeptRoughly
      /\ "type" \notin KeptRoughly
  BY DEF KeptRoughly
<1> QED
  BY <1>1, Zenon DEF Wanted

------------------------------------------------------------------------------
(* Statements that give back what was written. *)

Settles(st, m, v) ==
  \A s, reset : DOMAIN s = Members => Puts(s, Loaded(st, s, reset).settings, m, v)
Keeps(st, m) ==
  \A s, reset : DOMAIN s = Members => Loaded(st, s, reset).settings[m] = s[m]
Fine(st, o) == \A m \in Returning : Keeps(st, m) \/ Restores(st, o, m)
Returns(st, o, m) == m \in Returning /\ Fine(st, o) /\ Restores(st, o, m)

LEMMA SettledReturns ==
  ASSUME NEW st, NEW o, NEW m \in Returning, Settles(st, m, Wanted(o, m))
  PROVE  Returns(st, o, m)
<1>1. Restores(st, o, m)
  BY DEF Settles, Restores, Puts
<1>2. ASSUME NEW n \in Returning, n # m PROVE Keeps(st, n)
  <2>1. n \in Members \ ({m} \cup Aftermath)
    BY <1>2, ReturningOthers
  <2> QED
    BY <2>1, SMT DEF Settles, Keeps, Puts
<1> QED
  BY <1>1, <1>2 DEF Returns, Fine

LEMMA HeaderFine ==
  ASSUME NEW o, NEW st, \/ st.block = "parser" /\ st.name = "header"
                        \/ st.block = "header" /\ st.name # "header"
  PROVE  Fine(st, o)
<1> SUFFICES ASSUME NEW m \in Returning PROVE Keeps(st, m)
  BY DEF Fine
<1>1. m \in Members \ ({"headers"} \cup Aftermath)
  BY ReturningOthers
<1>2. ASSUME NEW s, NEW reset, DOMAIN s = Members
      PROVE  Loaded(st, s, reset).settings[m] = s[m]
  <2>1. PICK v : Puts(s, Loaded(st, s, reset).settings, "headers", v)
    BY <1>2, HeaderPuts
  <2> QED
    BY <1>1, <2>1, Zenon DEF Puts
<1> QED
  BY <1>2 DEF Keeps

LEMMA StatementParts ==
  \A block, name, token :
    LET st == Statement(block, name, <<token>>)
    IN st.block = block /\ st.name = name /\ st.args[1] = token /\ Len(st.args) = 1
  BY SMT DEF Statement

LEMMA ProperHas ==
  ASSUME NEW o, Proper(o)
  PROVE  /\ o.minTermLength \in Nat
         /\ o.maxTermLength \in Nat
         /\ o.minPhraseTerms \in Nat
         /\ o.maxPhraseTerms \in Nat
         /\ o.maxPhraseChars \in Nat
         /\ o.minPhraseChars \in Nat
         /\ o.maxTermsPerMessage \in Nat
         /\ o.goodBias \in Nat
         /\ o.termsForScore \in Nat
         /\ o.maxWordRepeats \in Nat
         /\ o.minArraySize \in Nat
         /\ o.maxCacheTerms \in Nat
         /\ o.minWordCount \in Nat
         /\ o.newWordScore \in Nat
         /\ o.minDistance \in Nat
         /\ o.spamThreshold \in Nat
         /\ o.removeHTML \in BOOLEAN
         /\ o.keepSuspiciousTags \in BOOLEAN
         /\ o.ignoreBody \in BOOLEAN
         /\ o.extendTopTerms \in BOOLEAN
         /\ o.waterCounts \in BOOLEAN
         /\ o.targetSizeMB \in Int /\ o.scoreMode \in ScoreModes
         /\ ProperHeaders(o.headers)
<1>1. /\ "minTermLength" \in NumberMembers
      /\ "maxTermLength" \in NumberMembers
      /\ "minPhraseTerms" \in NumberMembers
      /\ "maxPhraseTerms" \in NumberMembers
      /\ "maxPhraseChars" \in NumberMembers
      /\ "minPhraseChars" \in NumberMembers
      /\ "maxTermsPerMessage" \in NumberMembers
      /\ "goodBias" \in NumberMembers
      /\ "termsForScore" \in NumberMembers
      /\ "maxWordRepeats" \in NumberMembers
      /\ "minArraySize" \in NumberMembers
      /\ "maxCacheTerms" \in NumberMembers
      /\ "minWordCount" \in NumberMembers
      /\ "newWordScore" \in NumberMembers
      /\ "minDistance" \in NumberMembers
      /\ "spamThreshold" \in NumberMembers
  BY DEF NumberMembers
<1>2. /\ "removeHTML" \in SwitchMembers
      /\ "keepSuspiciousTags" \in SwitchMembers
      /\ "ignoreBody" \in SwitchMembers
      /\ "extendTopTerms" \in SwitchMembers
      /\ "waterCounts" \in SwitchMembers
  BY DEF SwitchMembers
<1>3. /\ \A m \in Members : m \in NumberMembers => o[m] \in Nat
      /\ \A m \in Members : m \in SwitchMembers => o[m] \in BOOLEAN
      /\ o.targetSizeMB \in Int /\ o.scoreMode \in ScoreModes
      /\ ProperHeaders(o.headers)
  BY NamedMembers, Zenon DEF Proper, Fits
<1> QED
  BY <1>1, <1>2, <1>3, NamedMembers, Zenon

LEMMA PrintableHas ==
  ASSUME NEW o, Printable(o)
  PROVE  /\ DoubleToken(o.newWordScore) # Unreadable
         /\ DoubleToken(o.spamThreshold) # Unreadable
         /\ DoubleToken(o.minDistance) # Unreadable
         /\ o.targetSizeMB >= 0
         /\ o.type \in {"", "bdb", "pbl", "hash", "split"}
         /\ o.fieldName \notin Unquotable /\ o.nonAscii \notin Unquotable
         /\ o.private \notin Unquotable /\ o.shared \notin Unquotable
         /\ \A n \in DOMAIN o.headers.values :
              /\ o.headers.values[n][1] \notin Unquotable
              /\ o.headers.values[n][2] \notin Unquotable
  BY Zenon DEF Printable

LEMMA ParserReturns ==
  ASSUME NEW o, Proper(o), Printable(o)
  PROVE  /\ Returns(InParser("min_term_length", IntToken(o.minTermLength)), o, "minTermLength")
         /\ Returns(InParser("max_term_length", IntToken(o.maxTermLength)), o, "maxTermLength")
         /\ Returns(InParser("remove_html", BoolToken(o.removeHTML)), o, "removeHTML")
         /\ Returns(InParser("min_phrase_terms", IntToken(o.minPhraseTerms)), o, "minPhraseTerms")
         /\ Returns(InParser("max_phrase_terms", IntToken(o.maxPhraseTerms)), o, "maxPhraseTerms")
         /\ Returns(InParser("max_phrase_chars", IntToken(o.maxPhraseChars)), o, "maxPhraseChars")
         /\ Returns(InParser("min_phrase_chars", IntToken(o.minPhraseChars)), o, "minPhraseChars")
         /\ Returns(InParser("max_message_terms", IntToken(o.maxTermsPerMessage)), o, "maxTermsPerMessage")
         /\ Returns(InParser("spamprobe_field_name", StringToken(o.fieldName)), o, "fieldName")
         /\ Returns(InParser("keep_suspicious_tags", BoolToken(o.keepSuspiciousTags)), o, "keepSuspiciousTags")
         /\ Returns(InParser("ignore_body", BoolToken(o.ignoreBody)), o, "ignoreBody")
<1>1. Returns(InParser("min_term_length", IntToken(o.minTermLength)), o, "minTermLength")
  <2> DEFINE st == InParser("min_term_length", IntToken(o.minTermLength))
  <2>1. st.block = "parser" /\ st.name = "min_term_length" /\ st.args[1] = IntToken(o.minTermLength)
    BY StatementParts, SMT DEF InParser
  <2> HIDE DEF st
  <2>2. st.args[1].number = o.minTermLength
    BY <2>1, ProperHas, TokensRead
  <2>6. Wanted(o, "minTermLength") = o.minTermLength
    BY WantedValues
  <2>3. ASSUME NEW s, NEW reset, DOMAIN s = Members
        PROVE  Puts(s, Loaded(st, s, reset).settings, "minTermLength", Wanted(o, "minTermLength"))
    <3> DEFINE t == Loaded(st, s, reset).settings
    <3> HIDE DEF t
    <3>1. ParserPuts(st, s, t)
      BY <2>1, <2>3, ParserStatementPuts, Zenon DEF t
    <3> QED
      BY <2>1, <2>2, <2>6, <3>1, SMT DEF t, ParserPuts
  <2>4. Settles(st, "minTermLength", Wanted(o, "minTermLength"))
    BY <2>3 DEF Settles
  <2> QED
    BY <2>4, SettledReturns, ReturningMembers DEF st
<1>2. Returns(InParser("max_term_length", IntToken(o.maxTermLength)), o, "maxTermLength")
  <2> DEFINE st == InParser("max_term_length", IntToken(o.maxTermLength))
  <2>1. st.block = "parser" /\ st.name = "max_term_length" /\ st.args[1] = IntToken(o.maxTermLength)
    BY StatementParts, SMT DEF InParser
  <2> HIDE DEF st
  <2>2. st.args[1].number = o.maxTermLength
    BY <2>1, ProperHas, TokensRead
  <2>6. Wanted(o, "maxTermLength") = o.maxTermLength
    BY WantedValues
  <2>3. ASSUME NEW s, NEW reset, DOMAIN s = Members
        PROVE  Puts(s, Loaded(st, s, reset).settings, "maxTermLength", Wanted(o, "maxTermLength"))
    <3> DEFINE t == Loaded(st, s, reset).settings
    <3> HIDE DEF t
    <3>1. ParserPuts(st, s, t)
      BY <2>1, <2>3, ParserStatementPuts, Zenon DEF t
    <3> QED
      BY <2>1, <2>2, <2>6, <3>1, SMT DEF t, ParserPuts
  <2>4. Settles(st, "maxTermLength", Wanted(o, "maxTermLength"))
    BY <2>3 DEF Settles
  <2> QED
    BY <2>4, SettledReturns, ReturningMembers DEF st
<1>3. Returns(InParser("remove_html", BoolToken(o.removeHTML)), o, "removeHTML")
  <2> DEFINE st == InParser("remove_html", BoolToken(o.removeHTML))
  <2>1. st.block = "parser" /\ st.name = "remove_html" /\ st.args[1] = BoolToken(o.removeHTML)
    BY StatementParts, SMT DEF InParser
  <2> HIDE DEF st
  <2>2. IsTrueValue(st.args[1]) = o.removeHTML
    BY <2>1, ProperHas, TokensRead, SMT
  <2>6. Wanted(o, "removeHTML") = o.removeHTML
    BY WantedValues
  <2>3. ASSUME NEW s, NEW reset, DOMAIN s = Members
        PROVE  Puts(s, Loaded(st, s, reset).settings, "removeHTML", Wanted(o, "removeHTML"))
    <3> DEFINE t == Loaded(st, s, reset).settings
    <3> HIDE DEF t
    <3>1. ParserPuts(st, s, t)
      BY <2>1, <2>3, ParserStatementPuts, Zenon DEF t
    <3> QED
      BY <2>1, <2>2, <2>6, <3>1, SMT DEF t, ParserPuts
  <2>4. Settles(st, "removeHTML", Wanted(o, "removeHTML"))
    BY <2>3 DEF Settles
  <2> QED
    BY <2>4, SettledReturns, ReturningMembers DEF st
<1>4. Returns(InParser("min_phrase_terms", IntToken(o.minPhraseTerms)), o, "minPhraseTerms")
  <2> DEFINE st == InParser("min_phrase_terms", IntToken(o.minPhraseTerms))
  <2>1. st.block = "parser" /\ st.name = "min_phrase_terms" /\ st.args[1] = IntToken(o.minPhraseTerms)
    BY StatementParts, SMT DEF InParser
  <2> HIDE DEF st
  <2>2. st.args[1].number = o.minPhraseTerms
    BY <2>1, ProperHas, TokensRead
  <2>6. Wanted(o, "minPhraseTerms") = o.minPhraseTerms
    BY WantedValues
  <2>3. ASSUME NEW s, NEW reset, DOMAIN s = Members
        PROVE  Puts(s, Loaded(st, s, reset).settings, "minPhraseTerms", Wanted(o, "minPhraseTerms"))
    <3> DEFINE t == Loaded(st, s, reset).settings
    <3> HIDE DEF t
    <3>1. ParserPuts(st, s, t)
      BY <2>1, <2>3, ParserStatementPuts, Zenon DEF t
    <3> QED
      BY <2>1, <2>2, <2>6, <3>1, SMT DEF t, ParserPuts
  <2>4. Settles(st, "minPhraseTerms", Wanted(o, "minPhraseTerms"))
    BY <2>3 DEF Settles
  <2> QED
    BY <2>4, SettledReturns, ReturningMembers DEF st
<1>5. Returns(InParser("max_phrase_terms", IntToken(o.maxPhraseTerms)), o, "maxPhraseTerms")
  <2> DEFINE st == InParser("max_phrase_terms", IntToken(o.maxPhraseTerms))
  <2>1. st.block = "parser" /\ st.name = "max_phrase_terms" /\ st.args[1] = IntToken(o.maxPhraseTerms)
    BY StatementParts, SMT DEF InParser
  <2> HIDE DEF st
  <2>2. st.args[1].number = o.maxPhraseTerms
    BY <2>1, ProperHas, TokensRead
  <2>6. Wanted(o, "maxPhraseTerms") = o.maxPhraseTerms
    BY WantedValues
  <2>3. ASSUME NEW s, NEW reset, DOMAIN s = Members
        PROVE  Puts(s, Loaded(st, s, reset).settings, "maxPhraseTerms", Wanted(o, "maxPhraseTerms"))
    <3> DEFINE t == Loaded(st, s, reset).settings
    <3> HIDE DEF t
    <3>1. ParserPuts(st, s, t)
      BY <2>1, <2>3, ParserStatementPuts, Zenon DEF t
    <3> QED
      BY <2>1, <2>2, <2>6, <3>1, SMT DEF t, ParserPuts
  <2>4. Settles(st, "maxPhraseTerms", Wanted(o, "maxPhraseTerms"))
    BY <2>3 DEF Settles
  <2> QED
    BY <2>4, SettledReturns, ReturningMembers DEF st
<1>6. Returns(InParser("max_phrase_chars", IntToken(o.maxPhraseChars)), o, "maxPhraseChars")
  <2> DEFINE st == InParser("max_phrase_chars", IntToken(o.maxPhraseChars))
  <2>1. st.block = "parser" /\ st.name = "max_phrase_chars" /\ st.args[1] = IntToken(o.maxPhraseChars)
    BY StatementParts, SMT DEF InParser
  <2> HIDE DEF st
  <2>2. st.args[1].number = o.maxPhraseChars
    BY <2>1, ProperHas, TokensRead
  <2>6. Wanted(o, "maxPhraseChars") = o.maxPhraseChars
    BY WantedValues
  <2>3. ASSUME NEW s, NEW reset, DOMAIN s = Members
        PROVE  Puts(s, Loaded(st, s, reset).settings, "maxPhraseChars", Wanted(o, "maxPhraseChars"))
    <3> DEFINE t == Loaded(st, s, reset).settings
    <3> HIDE DEF t
    <3>1. ParserPuts(st, s, t)
      BY <2>1, <2>3, ParserStatementPuts, Zenon DEF t
    <3> QED
      BY <2>1, <2>2, <2>6, <3>1, SMT DEF t, ParserPuts
  <2>4. Settles(st, "maxPhraseChars", Wanted(o, "maxPhraseChars"))
    BY <2>3 DEF Settles
  <2> QED
    BY <2>4, SettledReturns, ReturningMembers DEF st
<1>7. Returns(InParser("min_phrase_chars", IntToken(o.minPhraseChars)), o, "minPhraseChars")
  <2> DEFINE st == InParser("min_phrase_chars", IntToken(o.minPhraseChars))
  <2>1. st.block = "parser" /\ st.name = "min_phrase_chars" /\ st.args[1] = IntToken(o.minPhraseChars)
    BY StatementParts, SMT DEF InParser
  <2> HIDE DEF st
  <2>2. st.args[1].number = o.minPhraseChars
    BY <2>1, ProperHas, TokensRead
  <2>6. Wanted(o, "minPhraseChars") = o.minPhraseChars
    BY WantedValues
  <2>3. ASSUME NEW s, NEW reset, DOMAIN s = Members
        PROVE  Puts(s, Loaded(st, s, reset).settings, "minPhraseChars", Wanted(o, "minPhraseChars"))
    <3> DEFINE t == Loaded(st, s, reset).settings
    <3> HIDE DEF t
    <3>1. ParserPuts(st, s, t)
      BY <2>1, <2>3, ParserStatementPuts, Zenon DEF t
    <3> QED
      BY <2>1, <2>2, <2>6, <3>1, SMT DEF t, ParserPuts
  <2>4. Settles(st, "minPhraseChars", Wanted(o, "minPhraseChars"))
    BY <2>3 DEF Settles
  <2> QED
    BY <2>4, SettledReturns, ReturningMembers DEF st
<1>8. Returns(InParser("max_message_terms", IntToken(o.maxTermsPerMessage)), o, "maxTermsPerMessage")
  <2> DEFINE st == InParser("max_message_terms", IntToken(o.maxTermsPerMessage))
  <2>1. st.block = "parser" /\ st.name = "max_message_terms" /\ st.args[1] = IntToken(o.maxTermsPerMessage)
    BY StatementParts, SMT DEF InParser
  <2> HIDE DEF st
  <2>2. st.args[1].number = o.maxTermsPerMessage
    BY <2>1, ProperHas, TokensRead
  <2>6. Wanted(o, "maxTermsPerMessage") = o.maxTermsPerMessage
    BY WantedValues
  <2>3. ASSUME NEW s, NEW reset, DOMAIN s = Members
        PROVE  Puts(s, Loaded(st, s, reset).settings, "maxTermsPerMessage", Wanted(o, "maxTermsPerMessage"))
    <3> DEFINE t == Loaded(st, s, reset).settings
    <3> HIDE DEF t
    <3>1. ParserPuts(st, s, t)
      BY <2>1, <2>3, ParserStatementPuts, Zenon DEF t
    <3> QED
      BY <2>1, <2>2, <2>6, <3>1, SMT DEF t, ParserPuts
  <2>4. Settles(st, "maxTermsPerMessage", Wanted(o, "maxTermsPerMessage"))
    BY <2>3 DEF Settles
  <2> QED
    BY <2>4, SettledReturns, ReturningMembers DEF st
<1>9. Returns(InParser("spamprobe_field_name", StringToken(o.fieldName)), o, "fieldName")
  <2> DEFINE st == InParser("spamprobe_field_name", StringToken(o.fieldName))
  <2>5. o.fieldName \notin Unquotable
    BY PrintableHas, Zenon
  <2>1. st.block = "parser" /\ st.name = "spamprobe_field_name" /\ st.args[1] = StringToken(o.fieldName)
    BY StatementParts, SMT DEF InParser
  <2> HIDE DEF st
  <2>2. st.args[1].string = o.fieldName
    BY <2>1, <2>5, TokensRead
  <2>6. Wanted(o, "fieldName") = o.fieldName
    BY WantedValues
  <2>3. ASSUME NEW s, NEW reset, DOMAIN s = Members
        PROVE  Puts(s, Loaded(st, s, reset).settings, "fieldName", Wanted(o, "fieldName"))
    <3> DEFINE t == Loaded(st, s, reset).settings
    <3> HIDE DEF t
    <3>1. ParserPuts(st, s, t)
      BY <2>1, <2>3, ParserStatementPuts, Zenon DEF t
    <3> QED
      BY <2>1, <2>2, <2>6, <3>1, SMT DEF t, ParserPuts
  <2>4. Settles(st, "fieldName", Wanted(o, "fieldName"))
    BY <2>3 DEF Settles
  <2> QED
    BY <2>4, SettledReturns, ReturningMembers DEF st
<1>10. Returns(InParser("keep_suspicious_tags", BoolToken(o.keepSuspiciousTags)), o, "keepSuspiciousTags")
  <2> DEFINE st == InParser("keep_suspicious_tags", BoolToken(o.keepSuspiciousTags))
  <2>1. st.block = "parser" /\ st.name = "keep_suspicious_tags" /\ st.args[1] = BoolToken(o.keepSuspiciousTags)
    BY StatementParts, SMT DEF InParser
  <2> HIDE DEF st
  <2>2. IsTrueValue(st.args[1]) = o.keepSuspiciousTags
    BY <2>1, ProperHas, TokensRead, SMT
  <2>6. Wanted(o, "keepSuspiciousTags") = o.keepSuspiciousTags
    BY WantedValues
  <2>3. ASSUME NEW s, NEW reset, DOMAIN s = Members
        PROVE  Puts(s, Loaded(st, s, reset).settings, "keepSuspiciousTags", Wanted(o, "keepSuspiciousTags"))
    <3> DEFINE t == Loaded(st, s, reset).settings
    <3> HIDE DEF t
    <3>1. ParserPuts(st, s, t)
      BY <2>1, <2>3, ParserStatementPuts, Zenon DEF t
    <3> QED
      BY <2>1, <2>2, <2>6, <3>1, SMT DEF t, ParserPuts
  <2>4. Settles(st, "keepSuspiciousTags", Wanted(o, "keepSuspiciousTags"))
    BY <2>3 DEF Settles
  <2> QED
    BY <2>4, SettledReturns, ReturningMembers DEF st
<1>11. Returns(InParser("ignore_body", BoolToken(o.ignoreBody)), o, "ignoreBody")
  <2> DEFINE st == InParser("ignore_body", BoolToken(o.ignoreBody))
  <2>1. st.block = "parser" /\ st.name = "ignore_body" /\ st.args[1] = BoolToken(o.ignoreBody)
    BY StatementParts, SMT DEF InParser
  <2> HIDE DEF st
  <2>2. IsTrueValue(st.args[1]) = o.ignoreBody
    BY <2>1, ProperHas, TokensRead, SMT
  <2>6. Wanted(o, "ignoreBody") = o.ignoreBody
    BY WantedValues
  <2>3. ASSUME NEW s, NEW reset, DOMAIN s = Members
        PROVE  Puts(s, Loaded(st, s, reset).settings, "ignoreBody", Wanted(o, "ignoreBody"))
    <3> DEFINE t == Loaded(st, s, reset).settings
    <3> HIDE DEF t
    <3>1. ParserPuts(st, s, t)
      BY <2>1, <2>3, ParserStatementPuts, Zenon DEF t
    <3> QED
      BY <2>1, <2>2, <2>6, <3>1, SMT DEF t, ParserPuts
  <2>4. Settles(st, "ignoreBody", Wanted(o, "ignoreBody"))
    BY <2>3 DEF Settles
  <2> QED
    BY <2>4, SettledReturns, ReturningMembers DEF st
<1> QED
  BY <1>1, <1>2, <1>3, <1>4, <1>5, <1>6, <1>7, <1>8, <1>9, <1>10, <1>11, Zenon

LEMMA FilterReturns ==
  ASSUME NEW o, Proper(o), Printable(o)
  PROVE  /\ Returns(InFilter("good_bias", IntToken(o.goodBias)), o, "goodBias")
         /\ Returns(InFilter("terms_for_score", IntToken(o.termsForScore)), o, "termsForScore")
         /\ Returns(InFilter("max_word_repeats", IntToken(o.maxWordRepeats)), o, "maxWordRepeats")
         /\ Returns(InFilter("extend_top_terms", BoolToken(o.extendTopTerms)), o, "extendTopTerms")
         /\ Returns(InFilter("min_array_size", IntToken(o.minArraySize)), o, "minArraySize")
         /\ Returns(InFilter("water_counts", BoolToken(o.waterCounts)), o, "waterCounts")
         /\ Returns(InFilter("new_word_score", DoubleToken(o.newWordScore)), o, "newWordScore")
         /\ Returns(InFilter("min_distance_for_score", DoubleToken(o.minDistance)), o, "minDistance")
         /\ Returns(InFilter("min_word_count", IntToken(o.minWordCount)), o, "minWordCount")
         /\ Returns(InFilter("spam_threshold", DoubleToken(o.spamThreshold)), o, "spamThreshold")
<1>1. Returns(InFilter("good_bias", IntToken(o.goodBias)), o, "goodBias")
  <2> DEFINE st == InFilter("good_bias", IntToken(o.goodBias))
  <2>1. st.block = "filter" /\ st.name = "good_bias" /\ st.args[1] = IntToken(o.goodBias)
    BY StatementParts, SMT DEF InFilter
  <2> HIDE DEF st
  <2>2. st.args[1].number = o.goodBias
    BY <2>1, ProperHas, TokensRead
  <2>6. Wanted(o, "goodBias") = o.goodBias
    BY WantedValues
  <2>3. ASSUME NEW s, NEW reset, DOMAIN s = Members
        PROVE  Puts(s, Loaded(st, s, reset).settings, "goodBias", Wanted(o, "goodBias"))
    <3> DEFINE t == Loaded(st, s, reset).settings
    <3> HIDE DEF t
    <3>1. FilterPuts(st, s, t)
      BY <2>1, <2>3, FilterStatementPuts, Zenon DEF t
    <3> QED
      BY <2>1, <2>2, <2>6, <3>1, SMT DEF t, FilterPuts
  <2>4. Settles(st, "goodBias", Wanted(o, "goodBias"))
    BY <2>3 DEF Settles
  <2> QED
    BY <2>4, SettledReturns, ReturningMembers DEF st
<1>2. Returns(InFilter("terms_for_score", IntToken(o.termsForScore)), o, "termsForScore")
  <2> DEFINE st == InFilter("terms_for_score", IntToken(o.termsForScore))
  <2>1. st.block = "filter" /\ st.name = "terms_for_score" /\ st.args[1] = IntToken(o.termsForScore)
    BY StatementParts, SMT DEF InFilter
  <2> HIDE DEF st
  <2>2. st.args[1].number = o.termsForScore
    BY <2>1, ProperHas, TokensRead
  <2>6. Wanted(o, "termsForScore") = o.termsForScore
    BY WantedValues
  <2>3. ASSUME NEW s, NEW reset, DOMAIN s = Members
        PROVE  Puts(s, Loaded(st, s, reset).settings, "termsForScore", Wanted(o, "termsForScore"))
    <3> DEFINE t == Loaded(st, s, reset).settings
    <3> HIDE DEF t
    <3>1. FilterPuts(st, s, t)
      BY <2>1, <2>3, FilterStatementPuts, Zenon DEF t
    <3> QED
      BY <2>1, <2>2, <2>6, <3>1, SMT DEF t, FilterPuts
  <2>4. Settles(st, "termsForScore", Wanted(o, "termsForScore"))
    BY <2>3 DEF Settles
  <2> QED
    BY <2>4, SettledReturns, ReturningMembers DEF st
<1>3. Returns(InFilter("max_word_repeats", IntToken(o.maxWordRepeats)), o, "maxWordRepeats")
  <2> DEFINE st == InFilter("max_word_repeats", IntToken(o.maxWordRepeats))
  <2>1. st.block = "filter" /\ st.name = "max_word_repeats" /\ st.args[1] = IntToken(o.maxWordRepeats)
    BY StatementParts, SMT DEF InFilter
  <2> HIDE DEF st
  <2>2. st.args[1].number = o.maxWordRepeats
    BY <2>1, ProperHas, TokensRead
  <2>6. Wanted(o, "maxWordRepeats") = o.maxWordRepeats
    BY WantedValues
  <2>3. ASSUME NEW s, NEW reset, DOMAIN s = Members
        PROVE  Puts(s, Loaded(st, s, reset).settings, "maxWordRepeats", Wanted(o, "maxWordRepeats"))
    <3> DEFINE t == Loaded(st, s, reset).settings
    <3> HIDE DEF t
    <3>1. FilterPuts(st, s, t)
      BY <2>1, <2>3, FilterStatementPuts, Zenon DEF t
    <3> QED
      BY <2>1, <2>2, <2>6, <3>1, SMT DEF t, FilterPuts
  <2>4. Settles(st, "maxWordRepeats", Wanted(o, "maxWordRepeats"))
    BY <2>3 DEF Settles
  <2> QED
    BY <2>4, SettledReturns, ReturningMembers DEF st
<1>4. Returns(InFilter("extend_top_terms", BoolToken(o.extendTopTerms)), o, "extendTopTerms")
  <2> DEFINE st == InFilter("extend_top_terms", BoolToken(o.extendTopTerms))
  <2>1. st.block = "filter" /\ st.name = "extend_top_terms" /\ st.args[1] = BoolToken(o.extendTopTerms)
    BY StatementParts, SMT DEF InFilter
  <2> HIDE DEF st
  <2>2. IsTrueValue(st.args[1]) = o.extendTopTerms
    BY <2>1, ProperHas, TokensRead, SMT
  <2>6. Wanted(o, "extendTopTerms") = o.extendTopTerms
    BY WantedValues
  <2>3. ASSUME NEW s, NEW reset, DOMAIN s = Members
        PROVE  Puts(s, Loaded(st, s, reset).settings, "extendTopTerms", Wanted(o, "extendTopTerms"))
    <3> DEFINE t == Loaded(st, s, reset).settings
    <3> HIDE DEF t
    <3>1. FilterPuts(st, s, t)
      BY <2>1, <2>3, FilterStatementPuts, Zenon DEF t
    <3> QED
      BY <2>1, <2>2, <2>6, <3>1, SMT DEF t, FilterPuts
  <2>4. Settles(st, "extendTopTerms", Wanted(o, "extendTopTerms"))
    BY <2>3 DEF Settles
  <2> QED
    BY <2>4, SettledReturns, ReturningMembers DEF st
<1>5. Returns(InFilter("min_array_size", IntToken(o.minArraySize)), o, "minArraySize")
  <2> DEFINE st == InFilter("min_array_size", IntToken(o.minArraySize))
  <2>1. st.block = "filter" /\ st.name = "min_array_size" /\ st.args[1] = IntToken(o.minArraySize)
    BY StatementParts, SMT DEF InFilter
  <2> HIDE DEF st
  <2>2. st.args[1].number = o.minArraySize
    BY <2>1, ProperHas, TokensRead
  <2>6. Wanted(o, "minArraySize") = o.minArraySize
    BY WantedValues
  <2>3. ASSUME NEW s, NEW reset, DOMAIN s = Members
        PROVE  Puts(s, Loaded(st, s, reset).settings, "minArraySize", Wanted(o, "minArraySize"))
    <3> DEFINE t == Loaded(st, s, reset).settings
    <3> HIDE DEF t
    <3>1. FilterPuts(st, s, t)
      BY <2>1, <2>3, FilterStatementPuts, Zenon DEF t
    <3> QED
      BY <2>1, <2>2, <2>6, <3>1, SMT DEF t, FilterPuts
  <2>4. Settles(st, "minArraySize", Wanted(o, "minArraySize"))
    BY <2>3 DEF Settles
  <2> QED
    BY <2>4, SettledReturns, ReturningMembers DEF st
<1>6. Returns(InFilter("water_counts", BoolToken(o.waterCounts)), o, "waterCounts")
  <2> DEFINE st == InFilter("water_counts", BoolToken(o.waterCounts))
  <2>1. st.block = "filter" /\ st.name = "water_counts" /\ st.args[1] = BoolToken(o.waterCounts)
    BY StatementParts, SMT DEF InFilter
  <2> HIDE DEF st
  <2>2. IsTrueValue(st.args[1]) = o.waterCounts
    BY <2>1, ProperHas, TokensRead, SMT
  <2>6. Wanted(o, "waterCounts") = o.waterCounts
    BY WantedValues
  <2>3. ASSUME NEW s, NEW reset, DOMAIN s = Members
        PROVE  Puts(s, Loaded(st, s, reset).settings, "waterCounts", Wanted(o, "waterCounts"))
    <3> DEFINE t == Loaded(st, s, reset).settings
    <3> HIDE DEF t
    <3>1. FilterPuts(st, s, t)
      BY <2>1, <2>3, FilterStatementPuts, Zenon DEF t
    <3> QED
      BY <2>1, <2>2, <2>6, <3>1, SMT DEF t, FilterPuts
  <2>4. Settles(st, "waterCounts", Wanted(o, "waterCounts"))
    BY <2>3 DEF Settles
  <2> QED
    BY <2>4, SettledReturns, ReturningMembers DEF st
<1>7. Returns(InFilter("new_word_score", DoubleToken(o.newWordScore)), o, "newWordScore")
  <2> DEFINE st == InFilter("new_word_score", DoubleToken(o.newWordScore))
  <2>1. st.block = "filter" /\ st.name = "new_word_score" /\ st.args[1] = DoubleToken(o.newWordScore)
    BY StatementParts, SMT DEF InFilter
  <2> HIDE DEF st
  <2>2. DoubleValue(st.args[1]) = SixDigits(o.newWordScore)
    BY <2>1, ProperHas, PrintableHas, FractionsRead
  <2>6. Wanted(o, "newWordScore") = SixDigits(o.newWordScore)
    BY WantedValues
  <2>3. ASSUME NEW s, NEW reset, DOMAIN s = Members
        PROVE  Puts(s, Loaded(st, s, reset).settings, "newWordScore", Wanted(o, "newWordScore"))
    <3> DEFINE t == Loaded(st, s, reset).settings
    <3> HIDE DEF t
    <3>1. FilterPuts(st, s, t)
      BY <2>1, <2>3, FilterStatementPuts, Zenon DEF t
    <3> QED
      BY <2>1, <2>2, <2>6, <3>1, SMT DEF t, FilterPuts
  <2>4. Settles(st, "newWordScore", Wanted(o, "newWordScore"))
    BY <2>3 DEF Settles
  <2> QED
    BY <2>4, SettledReturns, ReturningMembers DEF st
<1>8. Returns(InFilter("min_distance_for_score", DoubleToken(o.minDistance)), o, "minDistance")
  <2> DEFINE st == InFilter("min_distance_for_score", DoubleToken(o.minDistance))
  <2>1. st.block = "filter" /\ st.name = "min_distance_for_score" /\ st.args[1] = DoubleToken(o.minDistance)
    BY StatementParts, SMT DEF InFilter
  <2> HIDE DEF st
  <2>2. DoubleValue(st.args[1]) = SixDigits(o.minDistance)
    BY <2>1, ProperHas, PrintableHas, FractionsRead
  <2>6. Wanted(o, "minDistance") = SixDigits(o.minDistance)
    BY WantedValues
  <2>3. ASSUME NEW s, NEW reset, DOMAIN s = Members
        PROVE  Puts(s, Loaded(st, s, reset).settings, "minDistance", Wanted(o, "minDistance"))
    <3> DEFINE t == Loaded(st, s, reset).settings
    <3> HIDE DEF t
    <3>1. FilterPuts(st, s, t)
      BY <2>1, <2>3, FilterStatementPuts, Zenon DEF t
    <3> QED
      BY <2>1, <2>2, <2>6, <3>1, SMT DEF t, FilterPuts
  <2>4. Settles(st, "minDistance", Wanted(o, "minDistance"))
    BY <2>3 DEF Settles
  <2> QED
    BY <2>4, SettledReturns, ReturningMembers DEF st
<1>9. Returns(InFilter("min_word_count", IntToken(o.minWordCount)), o, "minWordCount")
  <2> DEFINE st == InFilter("min_word_count", IntToken(o.minWordCount))
  <2>1. st.block = "filter" /\ st.name = "min_word_count" /\ st.args[1] = IntToken(o.minWordCount)
    BY StatementParts, SMT DEF InFilter
  <2> HIDE DEF st
  <2>2. st.args[1].number = o.minWordCount
    BY <2>1, ProperHas, TokensRead
  <2>6. Wanted(o, "minWordCount") = o.minWordCount
    BY WantedValues
  <2>3. ASSUME NEW s, NEW reset, DOMAIN s = Members
        PROVE  Puts(s, Loaded(st, s, reset).settings, "minWordCount", Wanted(o, "minWordCount"))
    <3> DEFINE t == Loaded(st, s, reset).settings
    <3> HIDE DEF t
    <3>1. Puts(s, t, "minWordCount", st.args[1].number)
      BY <2>1, <2>3, OtherStatementPuts, Zenon DEF t
    <3> QED
      BY <2>1, <2>2, <2>6, <3>1, SMT DEF t
  <2>4. Settles(st, "minWordCount", Wanted(o, "minWordCount"))
    BY <2>3 DEF Settles
  <2> QED
    BY <2>4, SettledReturns, ReturningMembers DEF st
<1>10. Returns(InFilter("spam_threshold", DoubleToken(o.spamThreshold)), o, "spamThreshold")
  <2> DEFINE st == InFilter("spam_threshold", DoubleToken(o.spamThreshold))
  <2>1. st.block = "filter" /\ st.name = "spam_threshold" /\ st.args[1] = DoubleToken(o.spamThreshold)
    BY StatementParts, SMT DEF InFilter
  <2> HIDE DEF st
  <2>2. DoubleValue(st.args[1]) = SixDigits(o.spamThreshold)
    BY <2>1, ProperHas, PrintableHas, FractionsRead
  <2>6. Wanted(o, "spamThreshold") = SixDigits(o.spamThreshold)
    BY WantedValues
  <2>3. ASSUME NEW s, NEW reset, DOMAIN s = Members
        PROVE  Puts(s, Loaded(st, s, reset).settings, "spamThreshold", Wanted(o, "spamThreshold"))
    <3> DEFINE t == Loaded(st, s, reset).settings
    <3> HIDE DEF t
    <3>1. Puts(s, t, "spamThreshold", DoubleValue(st.args[1]))
      BY <2>1, <2>3, OtherStatementPuts, Zenon DEF t
    <3> QED
      BY <2>1, <2>2, <2>6, <3>1, SMT DEF t
  <2>4. Settles(st, "spamThreshold", Wanted(o, "spamThreshold"))
    BY <2>3 DEF Settles
  <2> QED
    BY <2>4, SettledReturns, ReturningMembers DEF st
<1> QED
  BY <1>1, <1>2, <1>3, <1>4, <1>5, <1>6, <1>7, <1>8, <1>9, <1>10, Zenon

LEMMA DatabaseReturns ==
  ASSUME NEW o, Proper(o), Printable(o)
  PROVE  /\ Returns(InDatabase("private_filename", StringToken(o.private)), o, "private")
         /\ Returns(InDatabase("shared_filename", StringToken(o.shared)), o, "shared")
         /\ Returns(InDatabase("target_size_mb", IntToken(o.targetSizeMB)), o, "targetSizeMB")
         /\ Returns(InDatabase("max_cache_terms", IntToken(o.maxCacheTerms)), o, "maxCacheTerms")
<1>1. Returns(InDatabase("private_filename", StringToken(o.private)), o, "private")
  <2> DEFINE st == InDatabase("private_filename", StringToken(o.private))
  <2>5. o.private \notin Unquotable
    BY PrintableHas, Zenon
  <2>1. st.block = "database" /\ st.name = "private_filename" /\ st.args[1] = StringToken(o.private)
    BY StatementParts, SMT DEF InDatabase
  <2> HIDE DEF st
  <2>2. st.args[1].string = o.private
    BY <2>1, <2>5, TokensRead
  <2>6. Wanted(o, "private") = o.private
    BY WantedValues
  <2>3. ASSUME NEW s, NEW reset, DOMAIN s = Members
        PROVE  Puts(s, Loaded(st, s, reset).settings, "private", Wanted(o, "private"))
    <3> DEFINE t == Loaded(st, s, reset).settings
    <3> HIDE DEF t
    <3>1. DatabasePuts(st, s, t)
      BY <2>1, <2>3, DatabaseStatementPuts, Zenon DEF t
    <3> QED
      BY <2>1, <2>2, <2>6, <3>1, SMT DEF t, DatabasePuts
  <2>4. Settles(st, "private", Wanted(o, "private"))
    BY <2>3 DEF Settles
  <2> QED
    BY <2>4, SettledReturns, ReturningMembers DEF st
<1>2. Returns(InDatabase("shared_filename", StringToken(o.shared)), o, "shared")
  <2> DEFINE st == InDatabase("shared_filename", StringToken(o.shared))
  <2>5. o.shared \notin Unquotable
    BY PrintableHas, Zenon
  <2>1. st.block = "database" /\ st.name = "shared_filename" /\ st.args[1] = StringToken(o.shared)
    BY StatementParts, SMT DEF InDatabase
  <2> HIDE DEF st
  <2>2. st.args[1].string = o.shared
    BY <2>1, <2>5, TokensRead
  <2>6. Wanted(o, "shared") = o.shared
    BY WantedValues
  <2>3. ASSUME NEW s, NEW reset, DOMAIN s = Members
        PROVE  Puts(s, Loaded(st, s, reset).settings, "shared", Wanted(o, "shared"))
    <3> DEFINE t == Loaded(st, s, reset).settings
    <3> HIDE DEF t
    <3>1. DatabasePuts(st, s, t)
      BY <2>1, <2>3, DatabaseStatementPuts, Zenon DEF t
    <3> QED
      BY <2>1, <2>2, <2>6, <3>1, SMT DEF t, DatabasePuts
  <2>4. Settles(st, "shared", Wanted(o, "shared"))
    BY <2>3 DEF Settles
  <2> QED
    BY <2>4, SettledReturns, ReturningMembers DEF st
<1>3. Returns(InDatabase("target_size_mb", IntToken(o.targetSizeMB)), o, "targetSizeMB")
  <2> DEFINE st == InDatabase("target_size_mb", IntToken(o.targetSizeMB))
  <2>7. o.targetSizeMB \in Int /\ o.targetSizeMB >= 0
    BY ProperHas, PrintableHas, Zenon
  <2>5. o.targetSizeMB \in Nat
    BY <2>7
  <2>1. st.block = "database" /\ st.name = "target_size_mb" /\ st.args[1] = IntToken(o.targetSizeMB)
    BY StatementParts, SMT DEF InDatabase
  <2> HIDE DEF st
  <2>2. st.args[1].number = o.targetSizeMB
    BY <2>1, <2>5, TokensRead
  <2>6. Wanted(o, "targetSizeMB") = o.targetSizeMB
    BY WantedValues
  <2>3. ASSUME NEW s, NEW reset, DOMAIN s = Members
        PROVE  Puts(s, Loaded(st, s, reset).settings, "targetSizeMB", Wanted(o, "targetSizeMB"))
    <3> DEFINE t == Loaded(st, s, reset).settings
    <3> HIDE DEF t
    <3>1. DatabasePuts(st, s, t)
      BY <2>1, <2>3, DatabaseStatementPuts, Zenon DEF t
    <3> QED
      BY <2>1, <2>2, <2>6, <3>1, SMT DEF t, DatabasePuts
  <2>4. Settles(st, "targetSizeMB", Wanted(o, "targetSizeMB"))
    BY <2>3 DEF Settles
  <2> QED
    BY <2>4, SettledReturns, ReturningMembers DEF st
<1>4. Returns(InDatabase("max_cache_terms", IntToken(o.maxCacheTerms)), o, "maxCacheTerms")
  <2> DEFINE st == InDatabase("max_cache_terms", IntToken(o.maxCacheTerms))
  <2>1. st.block = "database" /\ st.name = "max_cache_terms" /\ st.args[1] = IntToken(o.maxCacheTerms)
    BY StatementParts, SMT DEF InDatabase
  <2> HIDE DEF st
  <2>2. st.args[1].number = o.maxCacheTerms
    BY <2>1, ProperHas, TokensRead
  <2>6. Wanted(o, "maxCacheTerms") = o.maxCacheTerms
    BY WantedValues
  <2>3. ASSUME NEW s, NEW reset, DOMAIN s = Members
        PROVE  Puts(s, Loaded(st, s, reset).settings, "maxCacheTerms", Wanted(o, "maxCacheTerms"))
    <3> DEFINE t == Loaded(st, s, reset).settings
    <3> HIDE DEF t
    <3>1. DatabasePuts(st, s, t)
      BY <2>1, <2>3, DatabaseStatementPuts, Zenon DEF t
    <3> QED
      BY <2>1, <2>2, <2>6, <3>1, SMT DEF t, DatabasePuts
  <2>4. Settles(st, "maxCacheTerms", Wanted(o, "maxCacheTerms"))
    BY <2>3 DEF Settles
  <2> QED
    BY <2>4, SettledReturns, ReturningMembers DEF st
<1> QED
  BY <1>1, <1>2, <1>3, <1>4, Zenon

LEMMA ReplaceStatement ==
  ASSUME NEW o, NEW b \in BOOLEAN, NEW st, st = InParser("replace_non_ascii", BoolToken(b))
  PROVE  /\ \A m \in Returning : m # "nonAscii" => Keeps(st, m)
         /\ o.nonAscii = "" /\ b = FALSE => Restores(st, o, "nonAscii")
<1>1. st.block = "parser" /\ st.name = "replace_non_ascii" /\ st.args[1] = BoolToken(b)
  BY StatementParts, SMT DEF InParser
<1>2. IsTrueValue(st.args[1]) = b
  BY <1>1, TokensRead, SMT
<1> DEFINE v == IF IsTrueValue(st.args[1]) THEN "z" ELSE ""
<1>3. \A s, reset : DOMAIN s = Members =>
        Puts(s, Loaded(st, s, reset).settings, "nonAscii", v)
  BY <1>1, OtherStatementPuts, Zenon
<1>4. b = FALSE => v = ""
  BY <1>2
<1> HIDE DEF v
<1>5. ASSUME NEW m \in Returning, m # "nonAscii" PROVE Keeps(st, m)
  <2>1. m \in Members \ ({"nonAscii"} \cup Aftermath)
    BY <1>5, ReturningOthers
  <2> QED
    BY <1>3, <2>1, SMT DEF Keeps, Puts
<1>6. ASSUME o.nonAscii = "", b = FALSE PROVE Restores(st, o, "nonAscii")
  <2>1. Wanted(o, "nonAscii") = v
    BY <1>4, <1>6, WantedValues
  <2> QED
    BY <1>3, <2>1, Zenon DEF Restores, Puts
<1> QED
  BY <1>5, <1>6

Replaces(o) == o.nonAscii # ""
LEMMA ReplacementStatement ==
  ASSUME NEW o, Printable(o), Replaces(o)
  PROVE  Returns(InParser("non_ascii_replacement", StringToken(o.nonAscii)), o, "nonAscii")
<1> DEFINE st == InParser("non_ascii_replacement", StringToken(o.nonAscii))
<1>1. st.block = "parser" /\ st.name = "non_ascii_replacement"
      /\ st.args[1] = StringToken(o.nonAscii)
  BY StatementParts, SMT DEF InParser
<1> HIDE DEF st
<1>2. o.nonAscii \notin Unquotable
  BY PrintableHas, Zenon
<1>3. st.args[1].string = o.nonAscii
  BY <1>1, <1>2, TokensRead
<1>4. \A s, reset : DOMAIN s = Members =>
        Puts(s, Loaded(st, s, reset).settings, "nonAscii", st.args[1].string)
  BY <1>1, <1>3, OtherStatementPuts, Zenon DEF Replaces
<1>5. Wanted(o, "nonAscii") = o.nonAscii
  BY WantedValues
<1>6. Settles(st, "nonAscii", Wanted(o, "nonAscii"))
  BY <1>3, <1>4, <1>5, Zenon DEF Settles
<1> QED
  BY <1>6, SettledReturns, ReturningMembers DEF st

LEMMA ModeStatement ==
  ASSUME NEW o, NEW st, st = InFilter("score_mode", IdToken(o.scoreMode))
  PROVE  /\ Restores(st, o, "scoreMode")
         /\ \A m \in Returning :
              m \notin {"scoreMode", "goodBias", "minWordCount", "spamThreshold"} =>
                Keeps(st, m)
<1>1. st.block = "filter" /\ st.name = "score_mode" /\ st.args[1] = IdToken(o.scoreMode)
  BY StatementParts, SMT DEF InFilter
<1>2. st.args[1].string = o.scoreMode /\ Wanted(o, "scoreMode") = o.scoreMode
  BY <1>1, TokensRead, WantedValues
<1>3. ASSUME NEW s, NEW reset, DOMAIN s = Members
      PROVE  LET t == Loaded(st, s, reset).settings
             IN /\ t.scoreMode = o.scoreMode
                /\ \A m \in Members \ {"scoreMode", "goodBias", "minWordCount",
                                       "spamThreshold"} : t[m] = s[m]
  BY <1>1, <1>2, <1>3, ScoreModePuts, SMT
<1>4. Restores(st, o, "scoreMode")
  BY <1>2, <1>3, Zenon DEF Restores
<1>5. ASSUME NEW m \in Returning,
             m \notin {"scoreMode", "goodBias", "minWordCount", "spamThreshold"}
      PROVE  Keeps(st, m)
  <2>1. m \in Members \ {"scoreMode", "goodBias", "minWordCount", "spamThreshold"}
    BY <1>5, ReturningOthers
  <2> QED
    BY <1>3, <2>1, Zenon DEF Keeps
<1> QED
  BY <1>4, <1>5, Zenon

TypeName(type) == IF type = "" THEN "default" ELSE type
LEMMA TypeStatement ==
  ASSUME NEW o, Printable(o)
  PROVE  Returns(InDatabase("type", IdToken(TypeName(o.type))), o, "type")
<1> DEFINE st == InDatabase("type", IdToken(TypeName(o.type)))
<1>1. st.block = "database" /\ st.name = "type"
      /\ st.args[1] = IdToken(TypeName(o.type))
  BY StatementParts, SMT DEF InDatabase
<1> HIDE DEF st
<1>2. st.args[1].string = TypeName(o.type)
  BY <1>1, TokensRead
<1>7. o.type \in {"", "bdb", "pbl", "hash", "split"}
  BY PrintableHas, Zenon
<1> DEFINE v == IF st.args[1].string = "default" THEN "" ELSE st.args[1].string
<1>3. v = o.type
  BY <1>2, <1>7 DEF TypeName
<1>4. \A s, reset : DOMAIN s = Members =>
        Puts(s, Loaded(st, s, reset).settings, "type", v)
  BY <1>1, OtherStatementPuts, Zenon
<1>5. Wanted(o, "type") = o.type
  BY WantedValues
<1> HIDE DEF v
<1>6. Settles(st, "type", Wanted(o, "type"))
  BY <1>3, <1>4, <1>5, Zenon DEF Settles
<1> QED
  BY <1>6, SettledReturns, ReturningMembers DEF st

------------------------------------------------------------------------------
(* Every statement keeps a member, gives it back, or stands in front of one *)
(* that does.                                                                *)

Converges(list, o) ==
  \A i \in DOMAIN list, m \in Returning :
    \/ Keeps(list[i], m)
    \/ Restores(list[i], o, m)
    \/ Pending(list, o, m, i)

LEMMA FineConverges ==
  ASSUME NEW list, IsList(list), NEW o, \A st \in Elements(list) : Fine(st, o)
  PROVE  Converges(list, o)
<1> SUFFICES ASSUME NEW i \in DOMAIN list, NEW m \in Returning
             PROVE  Keeps(list[i], m) \/ Restores(list[i], o, m)
  BY DEF Converges
<1>1. list[i] \in Elements(list)
  BY ListIs DEF Elements
<1> QED
  BY <1>1 DEF Fine

LEMMA ConvergesJoined ==
  ASSUME NEW a, IsList(a), NEW b, IsList(b), NEW o, Converges(a, o), Converges(b, o)
  PROVE  Converges(a \o b, o)
<1>1. /\ Len(a) \in Nat /\ DOMAIN a = 1..Len(a)
      /\ Len(b) \in Nat /\ DOMAIN b = 1..Len(b)
      /\ DOMAIN (a \o b) = 1..(Len(a) + Len(b))
  BY Joined, ListIs
<1> SUFFICES ASSUME NEW i \in 1..(Len(a) + Len(b)), NEW m \in Returning
             PROVE  \/ Keeps((a \o b)[i], m)
                    \/ Restores((a \o b)[i], o, m)
                    \/ Pending(a \o b, o, m, i)
  BY <1>1 DEF Converges
<1>2. CASE i \in 1..Len(a)
  <2>1. (a \o b)[i] = a[i]
    BY <1>2, Joined
  <2>2. Keeps(a[i], m) \/ Restores(a[i], o, m) \/ Pending(a, o, m, i)
    BY <1>1, <1>2 DEF Converges
  <2>3. ASSUME Pending(a, o, m, i) PROVE Pending(a \o b, o, m, i)
    <3>1. PICK k \in 1..Len(a) : k > i /\ Restores(a[k], o, m)
      BY <1>1, <2>3 DEF Pending
    <3>2. (a \o b)[k] = a[k] /\ k \in DOMAIN (a \o b)
      BY <1>1, Joined
    <3> QED
      BY <3>1, <3>2 DEF Pending
  <2> QED
    BY <2>1, <2>2, <2>3
<1>3. CASE i - Len(a) \in 1..Len(b)
  <2> DEFINE j == i - Len(a)
  <2>0. j \in 1..Len(b) /\ i = Len(a) + j
    BY <1>1, <1>3
  <2>1. (a \o b)[i] = b[j]
    BY <2>0, Joined
  <2>2. Keeps(b[j], m) \/ Restores(b[j], o, m) \/ Pending(b, o, m, j)
    BY <1>1, <2>0 DEF Converges
  <2>3. ASSUME Pending(b, o, m, j) PROVE Pending(a \o b, o, m, i)
    <3>1. PICK k \in 1..Len(b) : k > j /\ Restores(b[k], o, m)
      BY <1>1, <2>3 DEF Pending
    <3>2. (a \o b)[Len(a) + k] = b[k]
      BY Joined
    <3>3. Len(a) + k \in DOMAIN (a \o b) /\ Len(a) + k > i
      BY <1>1, <2>0, <3>1
    <3> QED
      BY <3>1, <3>2, <3>3 DEF Pending
  <2> QED
    BY <2>1, <2>2, <2>3
<1> QED
  BY <1>2, <1>3, Joined

------------------------------------------------------------------------------
(* The statements of each block. *)

ParserFirst(o) ==
  <<InParser("replace_non_ascii", BoolToken(Replaces(o)))>>
  \o (IF o.nonAscii = "" THEN <<>> ELSE
        <<InParser("non_ascii_replacement", StringToken(o.nonAscii))>>)
ParserRest(o) ==
  <<InParser("min_term_length", IntToken(o.minTermLength)),
    InParser("max_term_length", IntToken(o.maxTermLength)),
    InParser("remove_html", BoolToken(o.removeHTML)),
    InParser("min_phrase_terms", IntToken(o.minPhraseTerms)),
    InParser("max_phrase_terms", IntToken(o.maxPhraseTerms)),
    InParser("max_phrase_chars", IntToken(o.maxPhraseChars)),
    InParser("min_phrase_chars", IntToken(o.minPhraseChars)),
    InParser("max_message_terms", IntToken(o.maxTermsPerMessage)),
    InParser("spamprobe_field_name", StringToken(o.fieldName)),
    InParser("keep_suspicious_tags", BoolToken(o.keepSuspiciousTags)),
    InParser("ignore_body", BoolToken(o.ignoreBody)),
    Statement("parser", "header", <<>>)>>

LEMMA JoinedParts ==
  ASSUME NEW a, IsList(a), NEW b, IsList(b), NEW list, list = a \o b
  PROVE  /\ IsList(list) /\ Len(list) = Len(a) + Len(b)
         /\ Len(a) \in Nat /\ Len(b) \in Nat
         /\ DOMAIN list = 1..Len(list)
         /\ \A i \in 1..Len(a) : list[i] = a[i]
         /\ \A i \in 1..Len(b) : list[Len(a) + i] = b[i]
  BY Joined, ListIs

Plainly(st) == st.block = "parser" /\ st.name # "header"

LEMMA ButLast ==
  ASSUME NEW a, IsList(a), NEW b, IsList(b), Len(b) > 0,
         \A st \in Elements(a) : Plainly(st),
         \A k \in 1..(Len(b) - 1) : Plainly(b[k]),
         NEW list, list = a \o b
  PROVE  /\ Len(list) \in Nat /\ Len(list) > 0 /\ DOMAIN list = 1..Len(list)
         /\ list[Len(list)] = b[Len(b)]
         /\ \A i \in 1..(Len(list) - 1) : Plainly(list[i])
<1>1. /\ Len(list) = Len(a) + Len(b) /\ Len(a) \in Nat
      /\ DOMAIN list = 1..Len(list)
      /\ \A i \in 1..Len(a) : list[i] = a[i]
      /\ \A i \in 1..Len(b) : list[Len(a) + i] = b[i]
      /\ Len(b) \in Nat
  BY JoinedParts
<1>2. ASSUME NEW i \in 1..(Len(list) - 1)
      PROVE  Plainly(list[i])
  <2>1. CASE i \in 1..Len(a)
    BY <1>1, <2>1 DEF Elements
  <2>2. CASE i \notin 1..Len(a)
    <3> DEFINE k == i - Len(a)
    <3>1. k \in 1..(Len(b) - 1) /\ i = Len(a) + k /\ k \in 1..Len(b)
      BY <1>1, <2>2
    <3> QED
      BY <1>1, <3>1
  <2> QED
    BY <2>1, <2>2
<1>3. list[Len(list)] = b[Len(b)] /\ Len(list) \in Nat /\ Len(list) > 0
  BY <1>1
<1> QED
  BY <1>1, <1>2, <1>3, Zenon

LEMMA TwoJoined ==
  ASSUME NEW x, NEW y, NEW list, list = <<x>> \o <<y>>
  PROVE  DOMAIN list = {1, 2} /\ list[1] = x /\ list[2] = y
<1>1. /\ IsList(<<x>>) /\ Len(<<x>>) = 1 /\ <<x>>[1] = x
      /\ IsList(<<y>>) /\ Len(<<y>>) = 1 /\ <<y>>[1] = y
  BY Tuples
<1>2. /\ Len(list) = 2 /\ DOMAIN list = 1..Len(list)
      /\ \A i \in 1..1 : list[i] = <<x>>[i]
      /\ \A i \in 1..1 : list[1 + i] = <<y>>[i]
  BY <1>1, JoinedParts
<1>3. 1..2 = {1, 2} /\ 1 \in 1..1 /\ 1 + 1 = 2
  OBVIOUS
<1> QED
  BY <1>1, <1>2, <1>3, Zenon

LEMMA ParserParts ==
  ASSUME NEW o
  PROVE  /\ ParserStatements(o) = ParserFirst(o) \o ParserRest(o)
         /\ IsList(ParserFirst(o)) /\ IsList(ParserRest(o))
         /\ Elements(ParserFirst(o)) =
              {InParser("replace_non_ascii", BoolToken(Replaces(o)))}
              \cup (IF Replaces(o)
                      THEN {InParser("non_ascii_replacement", StringToken(o.nonAscii))}
                      ELSE {})
         /\ Elements(ParserRest(o)) =
              {InParser("min_term_length", IntToken(o.minTermLength)),
               InParser("max_term_length", IntToken(o.maxTermLength)),
               InParser("remove_html", BoolToken(o.removeHTML)),
               InParser("min_phrase_terms", IntToken(o.minPhraseTerms)),
               InParser("max_phrase_terms", IntToken(o.maxPhraseTerms)),
               InParser("max_phrase_chars", IntToken(o.maxPhraseChars)),
               InParser("min_phrase_chars", IntToken(o.minPhraseChars)),
               InParser("max_message_terms", IntToken(o.maxTermsPerMessage)),
               InParser("spamprobe_field_name", StringToken(o.fieldName)),
               InParser("keep_suspicious_tags", BoolToken(o.keepSuspiciousTags)),
               InParser("ignore_body", BoolToken(o.ignoreBody)),
               Statement("parser", "header", <<>>)}
         /\ IsList(ParserStatements(o))
         /\ Elements(ParserStatements(o)) =
              Elements(ParserFirst(o)) \cup Elements(ParserRest(o))
<1>1. ParserStatements(o) = ParserFirst(o) \o ParserRest(o)
  BY Zenon DEF ParserStatements, ParserFirst, ParserRest, Replaces
<1> DEFINE x == InParser("replace_non_ascii", BoolToken(Replaces(o)))
           y == InParser("non_ascii_replacement", StringToken(o.nonAscii))
           second == IF o.nonAscii = "" THEN <<>> ELSE <<y>>
<1>2. ParserFirst(o) = <<x>> \o second
  BY DEF ParserFirst
<1>3. IsList(second) /\ Elements(second) = IF Replaces(o) THEN {y} ELSE {}
  <2> HIDE DEF y
  <2> QED
    BY Tuples, Zenon DEF Replaces
<1> HIDE DEF x, second
<1>4. /\ IsList(ParserFirst(o))
      /\ Elements(ParserFirst(o)) = {x} \cup (IF Replaces(o) THEN {y} ELSE {})
  <2> DEFINE one == <<x>>
  <2>1. IsList(one) /\ Elements(one) = {x}
    BY Tuples, Zenon
  <2> HIDE DEF one, y
  <2>2. IsList(one \o second) /\ Elements(one \o second) = Elements(one) \cup Elements(second)
    BY <1>3, <2>1, JoinedElements
  <2> QED
    BY <1>2, <1>3, <2>1, <2>2, Zenon DEF one
<1>5. /\ IsList(ParserRest(o))
      /\ Elements(ParserRest(o)) =
              {InParser("min_term_length", IntToken(o.minTermLength)),
               InParser("max_term_length", IntToken(o.maxTermLength)),
               InParser("remove_html", BoolToken(o.removeHTML)),
               InParser("min_phrase_terms", IntToken(o.minPhraseTerms)),
               InParser("max_phrase_terms", IntToken(o.maxPhraseTerms)),
               InParser("max_phrase_chars", IntToken(o.maxPhraseChars)),
               InParser("min_phrase_chars", IntToken(o.minPhraseChars)),
               InParser("max_message_terms", IntToken(o.maxTermsPerMessage)),
               InParser("spamprobe_field_name", StringToken(o.fieldName)),
               InParser("keep_suspicious_tags", BoolToken(o.keepSuspiciousTags)),
               InParser("ignore_body", BoolToken(o.ignoreBody)),
               Statement("parser", "header", <<>>)}
  BY TwelveStatements, SMT DEF ParserRest
<1>6. /\ IsList(ParserStatements(o))
      /\ Elements(ParserStatements(o)) =
           Elements(ParserFirst(o)) \cup Elements(ParserRest(o))
  BY <1>1, <1>4, <1>5, JoinedElements, Zenon
<1> QED
  BY <1>1, <1>4, <1>5, <1>6, Zenon DEF x

LEMMA ParserConverges ==
  ASSUME NEW o, Proper(o), Printable(o)
  PROVE  Converges(ParserStatements(o), o)
<1> DEFINE x == InParser("replace_non_ascii", BoolToken(Replaces(o)))
           y == InParser("non_ascii_replacement", StringToken(o.nonAscii))
<1>1. Converges(ParserRest(o), o)
  <2>1. Fine(Statement("parser", "header", <<>>), o)
    <3> DEFINE st == Statement("parser", "header", <<>>)
    <3>1. st.block = "parser" /\ st.name = "header"
      BY SMT DEF Statement
    <3> HIDE DEF st
    <3>2. Fine(st, o)
      BY <3>1, HeaderFine
    <3> QED
      BY <3>2 DEF st
  <2>2. /\ Fine(InParser("min_term_length", IntToken(o.minTermLength)), o)
        /\ Fine(InParser("max_term_length", IntToken(o.maxTermLength)), o)
        /\ Fine(InParser("remove_html", BoolToken(o.removeHTML)), o)
        /\ Fine(InParser("min_phrase_terms", IntToken(o.minPhraseTerms)), o)
        /\ Fine(InParser("max_phrase_terms", IntToken(o.maxPhraseTerms)), o)
        /\ Fine(InParser("max_phrase_chars", IntToken(o.maxPhraseChars)), o)
        /\ Fine(InParser("min_phrase_chars", IntToken(o.minPhraseChars)), o)
        /\ Fine(InParser("max_message_terms", IntToken(o.maxTermsPerMessage)), o)
        /\ Fine(InParser("spamprobe_field_name", StringToken(o.fieldName)), o)
        /\ Fine(InParser("keep_suspicious_tags", BoolToken(o.keepSuspiciousTags)), o)
        /\ Fine(InParser("ignore_body", BoolToken(o.ignoreBody)), o)
    BY ParserReturns, Zenon DEF Returns
  <2>3. \A st \in Elements(ParserRest(o)) : Fine(st, o)
    <3>1. Elements(ParserRest(o)) =
            {InParser("min_term_length", IntToken(o.minTermLength)),
             InParser("max_term_length", IntToken(o.maxTermLength)),
             InParser("remove_html", BoolToken(o.removeHTML)),
             InParser("min_phrase_terms", IntToken(o.minPhraseTerms)),
             InParser("max_phrase_terms", IntToken(o.maxPhraseTerms)),
             InParser("max_phrase_chars", IntToken(o.maxPhraseChars)),
             InParser("min_phrase_chars", IntToken(o.minPhraseChars)),
             InParser("max_message_terms", IntToken(o.maxTermsPerMessage)),
             InParser("spamprobe_field_name", StringToken(o.fieldName)),
             InParser("keep_suspicious_tags", BoolToken(o.keepSuspiciousTags)),
             InParser("ignore_body", BoolToken(o.ignoreBody)),
             Statement("parser", "header", <<>>)}
      BY ParserParts, Zenon
    <3> QED
      BY <2>1, <2>2, <3>1, SMT
  <2>4. IsList(ParserRest(o))
    BY ParserParts
  <2> QED
    BY <2>3, <2>4, FineConverges
<1>6. /\ IsList(ParserFirst(o)) /\ IsList(ParserRest(o))
      /\ ParserStatements(o) = ParserFirst(o) \o ParserRest(o)
  BY ParserParts, Zenon
<1>2. Replaces(o) \in BOOLEAN
  BY DEF Replaces
<1>3. \A m \in Returning : m # "nonAscii" => Keeps(x, m)
  BY <1>2, ReplaceStatement
<1> HIDE DEF x, y
<1>4. CASE ~Replaces(o)
  <2>1. Elements(ParserFirst(o)) = {x}
    BY <1>4, ParserParts, Zenon DEF x
  <2>2. Restores(x, o, "nonAscii")
    <3>1. o.nonAscii = "" /\ Replaces(o) = FALSE
      BY <1>2, <1>4, Zenon DEF Replaces
    <3> QED
      BY <1>2, <3>1, ReplaceStatement, Zenon DEF x
  <2>3. \A st \in Elements(ParserFirst(o)) : Fine(st, o)
    BY <1>3, <2>1, <2>2, Zenon DEF Fine
  <2> QED
    BY <1>1, <1>6, <2>3, FineConverges, ConvergesJoined, Zenon
<1>5. CASE Replaces(o)
  <2>1. ParserFirst(o) = <<x>> \o <<y>>
    BY <1>5, Zenon DEF ParserFirst, Replaces, x, y
  <2>2. Returns(y, o, "nonAscii")
    BY <1>5, ReplacementStatement DEF y
  <2> DEFINE list == <<x>> \o <<y>>
  <2>4. Converges(list, o)
    <3> HIDE DEF list
    <3>1. DOMAIN list = {1, 2} /\ list[1] = x /\ list[2] = y
      BY TwoJoined, Zenon DEF list
    <3>2. Pending(list, o, "nonAscii", 1)
      <4>1. 2 > 1
        OBVIOUS
      <4> QED
        BY <2>2, <3>1, <4>1, Zenon DEF Pending, Returns
    <3>3. Converges(list, o)
      BY <1>3, <2>2, <3>1, <3>2, Zenon DEF Converges, Returns, Fine
    <3> QED
      BY <3>3
  <2>5. Converges(ParserFirst(o), o)
    BY <2>1, <2>4, Zenon
  <2> QED
    BY <1>1, <1>6, <2>5, ConvergesJoined, Zenon
<1> QED
  BY <1>4, <1>5

(* Where the headers begin. *)
LEMMA ParserEnd ==
  ASSUME NEW o
  PROVE  LET list == ParserStatements(o)
         IN /\ Len(list) \in Nat /\ Len(list) > 0 /\ DOMAIN list = 1..Len(list)
            /\ list[Len(list)] = Statement("parser", "header", <<>>)
            /\ \A i \in 1..(Len(list) - 1) :
                 list[i].block = "parser" /\ list[i].name # "header"
<1> DEFINE a == ParserFirst(o)
           b == ParserRest(o)
           last == Statement("parser", "header", <<>>)
<1>1. /\ Len(b) = 12 /\ b[12] = last
      /\ \A i \in 1..11 : b[i] \in {InParser("min_term_length", IntToken(o.minTermLength)),
                                    InParser("max_term_length", IntToken(o.maxTermLength)),
                                    InParser("remove_html", BoolToken(o.removeHTML)),
                                    InParser("min_phrase_terms", IntToken(o.minPhraseTerms)),
                                    InParser("max_phrase_terms", IntToken(o.maxPhraseTerms)),
                                    InParser("max_phrase_chars", IntToken(o.maxPhraseChars)),
                                    InParser("min_phrase_chars", IntToken(o.minPhraseChars)),
                                    InParser("max_message_terms", IntToken(o.maxTermsPerMessage)),
                                    InParser("spamprobe_field_name", StringToken(o.fieldName)),
                                    InParser("keep_suspicious_tags", BoolToken(o.keepSuspiciousTags)),
                                    InParser("ignore_body", BoolToken(o.ignoreBody))}
  BY SMT DEF ParserRest
<1>2. /\ Plainly(InParser("min_term_length", IntToken(o.minTermLength)))
      /\ Plainly(InParser("max_term_length", IntToken(o.maxTermLength)))
      /\ Plainly(InParser("remove_html", BoolToken(o.removeHTML)))
      /\ Plainly(InParser("min_phrase_terms", IntToken(o.minPhraseTerms)))
      /\ Plainly(InParser("max_phrase_terms", IntToken(o.maxPhraseTerms)))
      /\ Plainly(InParser("max_phrase_chars", IntToken(o.maxPhraseChars)))
      /\ Plainly(InParser("min_phrase_chars", IntToken(o.minPhraseChars)))
      /\ Plainly(InParser("max_message_terms", IntToken(o.maxTermsPerMessage)))
      /\ Plainly(InParser("spamprobe_field_name", StringToken(o.fieldName)))
      /\ Plainly(InParser("keep_suspicious_tags", BoolToken(o.keepSuspiciousTags)))
      /\ Plainly(InParser("ignore_body", BoolToken(o.ignoreBody)))
  BY StatementParts, SMT DEF InParser, Plainly
<1>3. /\ Plainly(InParser("replace_non_ascii", BoolToken(Replaces(o))))
      /\ Plainly(InParser("non_ascii_replacement", StringToken(o.nonAscii)))
  BY StatementParts, SMT DEF InParser, Plainly
<1> HIDE DEF last
<1>4. \A st \in Elements(a) : Plainly(st)
  BY <1>3, ParserParts, Zenon
<1>5. \A i \in 1..11 : Plainly(b[i])
  BY <1>1, <1>2, SMT
<1>6. IsList(a) /\ IsList(b) /\ ParserStatements(o) = a \o b
  BY ParserParts
<1>7. Len(b) > 0 /\ b[Len(b)] = last /\ \A i \in 1..(Len(b) - 1) : Plainly(b[i])
  <2>1. Len(b) = 12 /\ b[12] = last
    BY <1>1
  <2> HIDE DEF b
  <2>2. Len(b) > 0 /\ 1..(Len(b) - 1) = 1..11
    BY <2>1
  <2> QED
    BY <1>5, <2>1, <2>2, Zenon
<1> HIDE DEF a, b
<1>8. \A list : list = a \o b =>
             /\ Len(list) \in Nat /\ Len(list) > 0 /\ DOMAIN list = 1..Len(list)
             /\ list[Len(list)] = last
             /\ \A i \in 1..(Len(list) - 1) : Plainly(list[i])
  <2> SUFFICES ASSUME NEW list, list = a \o b
               PROVE  /\ Len(list) \in Nat /\ Len(list) > 0 /\ DOMAIN list = 1..Len(list)
                      /\ list[Len(list)] = last
                      /\ \A i \in 1..(Len(list) - 1) : Plainly(list[i])
    OBVIOUS
  <2> QED
    BY <1>4, <1>6, <1>7, ButLast
<1> QED
  BY <1>6, <1>8, Zenon DEF last, Plainly

------------------------------------------------------------------------------
(* The block of the headers *)

HeaderModes(h) ==
  <<InHeader("blank_prefixes_mode", BoolToken(h.blank)),
    InHeader("ignore_x_headers_mode", BoolToken(h.all /\ h.noX)),
    InHeader("all_headers_mode", BoolToken(h.all)),
    InHeader("no_headers_mode",
             BoolToken(~h.all /\ DOMAIN h.values = {}))>>
Prefixed(h, n) ==
  Statement("header", "full_prefix",
            <<StringToken(n), StringToken(h.values[n][1]),
              StringToken(h.values[n][2])>>)
HeaderPrefixes(h) ==
  [i \in 1..Len(PrintedNames(h)) |-> Prefixed(h, PrintedNames(h)[i])]
Heading(st) == st.block = "header" /\ st.name # "header"

LEMMA FunctionIsList ==
  ASSUME NEW n \in Nat, NEW f, f = [i \in 1..n |-> f[i]]
  PROVE  IsList(f) /\ Len(f) = n
<1> DEFINE S == {f[i] : i \in 1..n}
<1>1. f \in [1..n -> S]
  OBVIOUS
<1> HIDE DEF S
<1>2. f \in Seq(S) /\ Len(f) = n
  BY <1>1
<1> QED
  BY <1>2, Zenon DEF IsList

LEMMA PrefixedParts ==
  \A h, n :
    LET st == Prefixed(h, n)
    IN /\ st.block = "header" /\ st.name = "full_prefix" /\ Len(st.args) = 3
       /\ st.args[1] = StringToken(n)
       /\ st.args[2] = StringToken(h.values[n][1])
       /\ st.args[3] = StringToken(h.values[n][2])
  BY SMT DEF Prefixed, Statement

LEMMA HeaderParts ==
  ASSUME NEW h, ProperHeaders(h), NEW list, list = HeaderStatements(h)
  PROVE  /\ IsList(list) /\ Len(PrintedNames(h)) \in Nat
         /\ Len(list) = 4 + Len(PrintedNames(h))
         /\ DOMAIN list = 1..Len(list)
         /\ list[1] = InHeader("blank_prefixes_mode", BoolToken(h.blank))
         /\ list[2] = InHeader("ignore_x_headers_mode", BoolToken(h.all /\ h.noX))
         /\ list[3] = InHeader("all_headers_mode", BoolToken(h.all))
         /\ list[4] = InHeader("no_headers_mode",
                               BoolToken(~h.all /\ DOMAIN h.values = {}))
         /\ \A i \in 1..Len(PrintedNames(h)) :
              list[4 + i] = Prefixed(h, PrintedNames(h)[i])
<1>1. list = HeaderModes(h) \o HeaderPrefixes(h)
  BY Zenon DEF HeaderStatements, HeaderModes, HeaderPrefixes, Prefixed
<1>2. Len(PrintedNames(h)) \in Nat
  BY PrintedAre
<1>3. /\ IsList(HeaderPrefixes(h)) /\ Len(HeaderPrefixes(h)) = Len(PrintedNames(h))
      /\ \A i \in 1..Len(PrintedNames(h)) :
           HeaderPrefixes(h)[i] = Prefixed(h, PrintedNames(h)[i])
  BY <1>2, FunctionIsList DEF HeaderPrefixes
<1> DEFINE b1 == InHeader("blank_prefixes_mode", BoolToken(h.blank))
           b2 == InHeader("ignore_x_headers_mode", BoolToken(h.all /\ h.noX))
           b3 == InHeader("all_headers_mode", BoolToken(h.all))
           b4 == InHeader("no_headers_mode",
                          BoolToken(~h.all /\ DOMAIN h.values = {}))
<1>4. HeaderModes(h) = <<b1, b2, b3, b4>>
  BY Zenon DEF HeaderModes
<1> HIDE DEF b1, b2, b3, b4
<1> DEFINE a == HeaderModes(h)
           b == HeaderPrefixes(h)
<1>5. /\ IsList(a) /\ Len(a) = 4
      /\ a[1] = b1 /\ a[2] = b2 /\ a[3] = b3 /\ a[4] = b4
  BY <1>4, Tuples
<1>6. IsList(b) /\ Len(b) = Len(PrintedNames(h)) /\ list = a \o b
  BY <1>1, <1>3
<1>9. IsList(a) /\ IsList(b) /\ list = a \o b
  BY <1>5, <1>6
<1> HIDE DEF a, b
<1>7. /\ Len(list) = Len(a) + Len(b)
      /\ DOMAIN list = 1..Len(list)
      /\ \A i \in 1..Len(a) : list[i] = a[i]
      /\ \A i \in 1..Len(b) : list[Len(a) + i] = b[i]
  BY <1>9, JoinedParts
<1>10. IsList(list)
  BY <1>9, JoinedElements
<1>8. /\ list[1] = b1 /\ list[2] = b2 /\ list[3] = b3 /\ list[4] = b4
      /\ Len(list) = 4 + Len(PrintedNames(h))
      /\ \A i \in 1..Len(PrintedNames(h)) : list[4 + i] = b[i]
  BY <1>5, <1>6, <1>7
<1> QED
  BY <1>2, <1>3, <1>7, <1>8, <1>10, Zenon DEF b, b1, b2, b3, b4

LEMMA HeaderStatementParts ==
  \A name, token :
    /\ InHeader(name, token).block = "header" /\ InHeader(name, token).name = name
    /\ InHeader(name, token).args[1] = token /\ Len(InHeader(name, token).args) = 1
    /\ name # "header" => Heading(InHeader(name, token))
<1> TAKE name, token
<1> DEFINE st == InHeader(name, token)
<1>1. st.block = "header" /\ st.name = name /\ st.args[1] = token /\ Len(st.args) = 1
  BY SMT DEF InHeader, Statement
<1> HIDE DEF st
<1>2. name # "header" => Heading(st)
  BY <1>1, Zenon DEF Heading
<1> QED
  BY <1>1, <1>2, Zenon DEF st

LEMMA HeadingModes ==
  \A token : /\ Heading(InHeader("blank_prefixes_mode", token))
             /\ Heading(InHeader("ignore_x_headers_mode", token))
             /\ Heading(InHeader("all_headers_mode", token))
             /\ Heading(InHeader("no_headers_mode", token))
<1>1. /\ "blank_prefixes_mode" # "header" /\ "ignore_x_headers_mode" # "header"
      /\ "all_headers_mode" # "header" /\ "no_headers_mode" # "header"
  BY SMT
<1> QED
  BY <1>1, HeaderStatementParts, Zenon

LEMMA HeadingPrefixes == \A h, n : Heading(Prefixed(h, n))
  BY PrefixedParts, SMT DEF Heading

LEMMA Headings ==
  ASSUME NEW h, ProperHeaders(h), NEW st \in Elements(HeaderStatements(h))
  PROVE  Heading(st)
<1> DEFINE list == HeaderStatements(h)
<1>0. /\ Len(PrintedNames(h)) \in Nat
      /\ Len(list) = 4 + Len(PrintedNames(h))
      /\ list[1] = InHeader("blank_prefixes_mode", BoolToken(h.blank))
      /\ list[2] = InHeader("ignore_x_headers_mode", BoolToken(h.all /\ h.noX))
      /\ list[3] = InHeader("all_headers_mode", BoolToken(h.all))
      /\ list[4] = InHeader("no_headers_mode",
                            BoolToken(~h.all /\ DOMAIN h.values = {}))
      /\ \A i \in 1..Len(PrintedNames(h)) :
           list[4 + i] = Prefixed(h, PrintedNames(h)[i])
  BY HeaderParts
<1>1. PICK i \in 1..Len(list) : st = list[i]
  BY Zenon DEF Elements
<1>2. /\ Heading(list[1]) /\ Heading(list[2]) /\ Heading(list[3]) /\ Heading(list[4])
  BY <1>0, HeadingModes
<1>3. \A k \in 1..Len(PrintedNames(h)) : Heading(list[4 + k])
  BY <1>0, HeadingPrefixes, Zenon
<1> HIDE DEF list
<1>4. \/ i = 1 \/ i = 2 \/ i = 3 \/ i = 4
      \/ (i - 4) \in 1..Len(PrintedNames(h)) /\ 4 + (i - 4) = i
  BY <1>0, <1>1
<1> QED
  BY <1>1, <1>2, <1>3, <1>4, Zenon

LEMMA HeadersConverge ==
  ASSUME NEW o, Proper(o)
  PROVE  IsList(HeaderStatements(o.headers)) /\ Converges(HeaderStatements(o.headers), o)
<1>1. ProperHeaders(o.headers)
  BY ProperHas, Zenon
<1>2. IsList(HeaderStatements(o.headers))
  BY <1>1, HeaderParts
<1>3. \A st \in Elements(HeaderStatements(o.headers)) : Fine(st, o)
  BY <1>1, Headings, HeaderFine, Zenon DEF Heading
<1> QED
  BY <1>2, <1>3, FineConverges

------------------------------------------------------------------------------
(* The blocks of the filter and of the database, and the whole file *)

LEMMA FilterParts ==
  ASSUME NEW o, NEW list, list = FilterStatements(o)
  PROVE  /\ IsList(list) /\ DOMAIN list = 1..11
         /\ list[1] = InFilter("score_mode", IdToken(o.scoreMode))
         /\ list[2] = InFilter("good_bias", IntToken(o.goodBias))
         /\ list[5] = InFilter("min_word_count", IntToken(o.minWordCount))
         /\ list[10] = InFilter("spam_threshold", DoubleToken(o.spamThreshold))
         /\ \A i \in 2..11 :
              list[i] \in {InFilter("good_bias", IntToken(o.goodBias)),
                           InFilter("terms_for_score", IntToken(o.termsForScore)),
                           InFilter("max_word_repeats", IntToken(o.maxWordRepeats)),
                           InFilter("min_word_count", IntToken(o.minWordCount)),
                           InFilter("extend_top_terms", BoolToken(o.extendTopTerms)),
                           InFilter("min_array_size", IntToken(o.minArraySize)),
                           InFilter("water_counts", BoolToken(o.waterCounts)),
                           InFilter("new_word_score", DoubleToken(o.newWordScore)),
                           InFilter("spam_threshold", DoubleToken(o.spamThreshold)),
                           InFilter("min_distance_for_score", DoubleToken(o.minDistance))}
<1>1. IsList(list)
  BY ElevenStatements, SMT DEF FilterStatements
<1> QED
  BY <1>1, SMT DEF FilterStatements

LEMMA FilterConverges ==
  ASSUME NEW o, Proper(o), Printable(o)
  PROVE  IsList(FilterStatements(o)) /\ Converges(FilterStatements(o), o)
<1> DEFINE list == FilterStatements(o)
<1>1. /\ IsList(list) /\ DOMAIN list = 1..11
      /\ list[1] = InFilter("score_mode", IdToken(o.scoreMode))
      /\ list[2] = InFilter("good_bias", IntToken(o.goodBias))
      /\ list[5] = InFilter("min_word_count", IntToken(o.minWordCount))
      /\ list[10] = InFilter("spam_threshold", DoubleToken(o.spamThreshold))
  BY FilterParts
<1>2. \A i \in 2..11 : Fine(list[i], o)
  <2>1. \A i \in 2..11 :
              list[i] \in {InFilter("good_bias", IntToken(o.goodBias)),
                           InFilter("terms_for_score", IntToken(o.termsForScore)),
                           InFilter("max_word_repeats", IntToken(o.maxWordRepeats)),
                           InFilter("min_word_count", IntToken(o.minWordCount)),
                           InFilter("extend_top_terms", BoolToken(o.extendTopTerms)),
                           InFilter("min_array_size", IntToken(o.minArraySize)),
                           InFilter("water_counts", BoolToken(o.waterCounts)),
                           InFilter("new_word_score", DoubleToken(o.newWordScore)),
                           InFilter("spam_threshold", DoubleToken(o.spamThreshold)),
                           InFilter("min_distance_for_score", DoubleToken(o.minDistance))}
    BY FilterParts
  <2>2. /\ Fine(InFilter("good_bias", IntToken(o.goodBias)), o)
        /\ Fine(InFilter("terms_for_score", IntToken(o.termsForScore)), o)
        /\ Fine(InFilter("max_word_repeats", IntToken(o.maxWordRepeats)), o)
        /\ Fine(InFilter("min_word_count", IntToken(o.minWordCount)), o)
        /\ Fine(InFilter("extend_top_terms", BoolToken(o.extendTopTerms)), o)
        /\ Fine(InFilter("min_array_size", IntToken(o.minArraySize)), o)
        /\ Fine(InFilter("water_counts", BoolToken(o.waterCounts)), o)
        /\ Fine(InFilter("new_word_score", DoubleToken(o.newWordScore)), o)
        /\ Fine(InFilter("spam_threshold", DoubleToken(o.spamThreshold)), o)
        /\ Fine(InFilter("min_distance_for_score", DoubleToken(o.minDistance)), o)
    BY FilterReturns, Zenon DEF Returns
  <2> HIDE DEF list
  <2> QED
    BY <2>1, <2>2, SMT
<1>3. /\ Restores(list[2], o, "goodBias")
      /\ Restores(list[5], o, "minWordCount")
      /\ Restores(list[10], o, "spamThreshold")
  BY <1>1, FilterReturns, Zenon DEF Returns
<1>4. /\ Restores(list[1], o, "scoreMode")
      /\ \A m \in Returning :
           m \notin {"scoreMode", "goodBias", "minWordCount", "spamThreshold"} =>
             Keeps(list[1], m)
  BY <1>1, ModeStatement
<1> HIDE DEF list
<1>5. /\ Pending(list, o, "goodBias", 1) /\ Pending(list, o, "minWordCount", 1)
      /\ Pending(list, o, "spamThreshold", 1)
  <2>1. /\ 2 \in DOMAIN list /\ 5 \in DOMAIN list /\ 10 \in DOMAIN list
        /\ 2 > 1 /\ 5 > 1 /\ 10 > 1
    BY <1>1
  <2> QED
    BY <1>3, <2>1, Zenon DEF Pending
<1>6. \A i \in DOMAIN list : i = 1 \/ i \in 2..11
  BY <1>1
<1>7. Converges(list, o)
  BY <1>2, <1>4, <1>5, <1>6, Zenon DEF Converges, Fine
<1> QED
  BY <1>1, <1>7 DEF list

LEMMA DatabaseConverges ==
  ASSUME NEW o, Proper(o), Printable(o)
  PROVE  IsList(DatabaseStatements(o)) /\ Converges(DatabaseStatements(o), o)
<1> DEFINE a == InDatabase("type", IdToken(TypeName(o.type)))
           b == InDatabase("private_filename", StringToken(o.private))
           c == InDatabase("shared_filename", StringToken(o.shared))
           d == InDatabase("target_size_mb", IntToken(o.targetSizeMB))
           e == InDatabase("max_cache_terms", IntToken(o.maxCacheTerms))
<1>1. DatabaseStatements(o) = <<a, b, c, d, e>>
  BY Zenon DEF DatabaseStatements, TypeName
<1>2. Fine(a, o) /\ Fine(b, o) /\ Fine(c, o) /\ Fine(d, o) /\ Fine(e, o)
  BY TypeStatement, DatabaseReturns, Zenon DEF Returns
<1> HIDE DEF a, b, c, d, e
<1>3. IsList(DatabaseStatements(o)) /\ Elements(DatabaseStatements(o)) = {a, b, c, d, e}
  BY <1>1, Tuples
<1>4. \A st \in Elements(DatabaseStatements(o)) : Fine(st, o)
  BY <1>2, <1>3
<1> QED
  BY <1>3, <1>4, FineConverges

(* The statements of a file that is whole. *)
WholeList(o) ==
  (ParserStatements(o) \o HeaderStatements(o.headers))
  \o (FilterStatements(o) \o DatabaseStatements(o))

LEMMA WholeWritten ==
  ASSUME NEW o, PrintsHeaders(o.headers)
  PROVE  /\ WrittenFile(o).statements = WholeList(o)
         /\ WrittenFile(o).exists /\ WrittenFile(o).complete
  BY Zenon DEF WrittenFile, WholeList

LEMMA WholeConverges ==
  ASSUME NEW o, Proper(o), Printable(o)
  PROVE  /\ IsList(WholeList(o)) /\ Converges(WholeList(o), o)
         /\ IsList(ParserStatements(o) \o HeaderStatements(o.headers))
         /\ IsList(FilterStatements(o) \o DatabaseStatements(o))
<1>1. IsList(ParserStatements(o)) /\ Converges(ParserStatements(o), o)
  BY ParserParts, ParserConverges
<1>2. /\ IsList(HeaderStatements(o.headers))
      /\ Converges(HeaderStatements(o.headers), o)
  BY HeadersConverge
<1>3. IsList(FilterStatements(o)) /\ Converges(FilterStatements(o), o)
  BY FilterConverges
<1>4. IsList(DatabaseStatements(o)) /\ Converges(DatabaseStatements(o), o)
  BY DatabaseConverges
<1> DEFINE a == ParserStatements(o) \o HeaderStatements(o.headers)
           b == FilterStatements(o) \o DatabaseStatements(o)
<1>5. IsList(a) /\ Converges(a, o)
  BY <1>1, <1>2, JoinedElements, ConvergesJoined
<1>6. IsList(b) /\ Converges(b, o)
  BY <1>3, <1>4, JoinedElements, ConvergesJoined
<1>7. WholeList(o) = a \o b
  BY Zenon DEF WholeList
<1> HIDE DEF a, b
<1>8. IsList(a \o b) /\ Converges(a \o b, o)
  BY <1>5, <1>6, JoinedElements, ConvergesJoined
<1> QED
  BY <1>5, <1>6, <1>7, <1>8, Zenon DEF a, b

LEMMA WholeElements ==
  ASSUME NEW o, Proper(o), Printable(o)
  PROVE  Elements(WholeList(o)) =
           (Elements(ParserStatements(o)) \cup Elements(HeaderStatements(o.headers)))
           \cup (Elements(FilterStatements(o)) \cup Elements(DatabaseStatements(o)))
<1>1. /\ IsList(ParserStatements(o)) /\ IsList(HeaderStatements(o.headers))
      /\ IsList(FilterStatements(o)) /\ IsList(DatabaseStatements(o))
  BY ParserParts, HeadersConverge, FilterConverges, DatabaseConverges, Zenon
<1> DEFINE a == ParserStatements(o) \o HeaderStatements(o.headers)
           b == FilterStatements(o) \o DatabaseStatements(o)
<1>2. /\ IsList(a)
      /\ Elements(a) = Elements(ParserStatements(o)) \cup Elements(HeaderStatements(o.headers))
  BY <1>1, JoinedElements
<1>3. /\ IsList(b)
      /\ Elements(b) = Elements(FilterStatements(o)) \cup Elements(DatabaseStatements(o))
  BY <1>1, JoinedElements
<1>4. WholeList(o) = a \o b
  BY Zenon DEF WholeList
<1> HIDE DEF a, b
<1>5. Elements(a \o b) = Elements(a) \cup Elements(b)
  BY <1>2, <1>3, JoinedElements
<1> QED
  BY <1>2, <1>3, <1>4, <1>5, Zenon

LEMMA ElementPends ==
  ASSUME NEW list, IsList(list), NEW st \in Elements(list), NEW o, NEW m,
         Restores(st, o, m)
  PROVE  Pending(list, o, m, 0)
<1>1. PICK i \in 1..Len(list) : st = list[i]
  BY Zenon DEF Elements
<1>2. i \in DOMAIN list /\ i > 0
  BY <1>1, ListIs
<1> QED
  BY <1>1, <1>2, Zenon DEF Pending

LEMMA DatabaseElements ==
  ASSUME NEW o
  PROVE  Elements(DatabaseStatements(o)) =
           {InDatabase("type", IdToken(TypeName(o.type))),
            InDatabase("private_filename", StringToken(o.private)),
            InDatabase("shared_filename", StringToken(o.shared)),
            InDatabase("target_size_mb", IntToken(o.targetSizeMB)),
            InDatabase("max_cache_terms", IntToken(o.maxCacheTerms))}
<1> DEFINE a == InDatabase("type", IdToken(TypeName(o.type)))
           b == InDatabase("private_filename", StringToken(o.private))
           c == InDatabase("shared_filename", StringToken(o.shared))
           d == InDatabase("target_size_mb", IntToken(o.targetSizeMB))
           e == InDatabase("max_cache_terms", IntToken(o.maxCacheTerms))
<1>1. DatabaseStatements(o) = <<a, b, c, d, e>>
  BY Zenon DEF DatabaseStatements, TypeName
<1> HIDE DEF a, b, c, d, e
<1>2. Elements(DatabaseStatements(o)) = {a, b, c, d, e}
  BY <1>1, Tuples
<1> QED
  BY <1>2, Zenon DEF a, b, c, d, e

LEMMA FilterElements ==
  ASSUME NEW o
  PROVE  Elements(FilterStatements(o)) =
           {InFilter("score_mode", IdToken(o.scoreMode)),
            InFilter("good_bias", IntToken(o.goodBias)),
            InFilter("terms_for_score", IntToken(o.termsForScore)),
            InFilter("max_word_repeats", IntToken(o.maxWordRepeats)),
            InFilter("min_word_count", IntToken(o.minWordCount)),
            InFilter("extend_top_terms", BoolToken(o.extendTopTerms)),
            InFilter("min_array_size", IntToken(o.minArraySize)),
            InFilter("water_counts", BoolToken(o.waterCounts)),
            InFilter("new_word_score", DoubleToken(o.newWordScore)),
            InFilter("spam_threshold", DoubleToken(o.spamThreshold)),
            InFilter("min_distance_for_score", DoubleToken(o.minDistance))}
  BY ElevenStatements, SMT DEF FilterStatements

LEMMA AllPending ==
  ASSUME NEW o, Proper(o), Printable(o), NEW m \in Returning
  PROVE  Pending(WholeList(o), o, m, 0)
<1> DEFINE S == Elements(WholeList(o))
<1>1. \A st \in S : \A n : Restores(st, o, n) => Pending(WholeList(o), o, n, 0)
  BY WholeConverges, ElementPends, Zenon
<1>2. S = (Elements(ParserStatements(o)) \cup Elements(HeaderStatements(o.headers)))
           \cup (Elements(FilterStatements(o)) \cup Elements(DatabaseStatements(o)))
  BY WholeElements, Zenon
<1> HIDE DEF S
<1>3. /\ InParser("min_term_length", IntToken(o.minTermLength)) \in S
      /\ InParser("max_term_length", IntToken(o.maxTermLength)) \in S
      /\ InParser("remove_html", BoolToken(o.removeHTML)) \in S
      /\ InParser("min_phrase_terms", IntToken(o.minPhraseTerms)) \in S
      /\ InParser("max_phrase_terms", IntToken(o.maxPhraseTerms)) \in S
      /\ InParser("max_phrase_chars", IntToken(o.maxPhraseChars)) \in S
      /\ InParser("min_phrase_chars", IntToken(o.minPhraseChars)) \in S
      /\ InParser("max_message_terms", IntToken(o.maxTermsPerMessage)) \in S
      /\ InParser("spamprobe_field_name", StringToken(o.fieldName)) \in S
      /\ InParser("keep_suspicious_tags", BoolToken(o.keepSuspiciousTags)) \in S
      /\ InParser("ignore_body", BoolToken(o.ignoreBody)) \in S
  <2>1. Elements(ParserRest(o)) \subseteq S
    BY <1>2, ParserParts
  <2>2. Elements(ParserRest(o)) =
              {InParser("min_term_length", IntToken(o.minTermLength)),
               InParser("max_term_length", IntToken(o.maxTermLength)),
               InParser("remove_html", BoolToken(o.removeHTML)),
               InParser("min_phrase_terms", IntToken(o.minPhraseTerms)),
               InParser("max_phrase_terms", IntToken(o.maxPhraseTerms)),
               InParser("max_phrase_chars", IntToken(o.maxPhraseChars)),
               InParser("min_phrase_chars", IntToken(o.minPhraseChars)),
               InParser("max_message_terms", IntToken(o.maxTermsPerMessage)),
               InParser("spamprobe_field_name", StringToken(o.fieldName)),
               InParser("keep_suspicious_tags", BoolToken(o.keepSuspiciousTags)),
               InParser("ignore_body", BoolToken(o.ignoreBody)),
               Statement("parser", "header", <<>>)}
    BY ParserParts, Zenon
  <2> QED
    BY <2>1, <2>2, SMT
<1>4. Elements(ParserFirst(o)) \subseteq S
  BY <1>2, ParserParts
<1>5. Elements(FilterStatements(o)) \subseteq S /\ Elements(DatabaseStatements(o)) \subseteq S
  BY <1>2
<1>6. m = "nonAscii" => Pending(WholeList(o), o, "nonAscii", 0)
  <2> DEFINE x == InParser("replace_non_ascii", BoolToken(Replaces(o)))
             y == InParser("non_ascii_replacement", StringToken(o.nonAscii))
  <2>1. Elements(ParserFirst(o)) = {x} \cup (IF Replaces(o) THEN {y} ELSE {})
    BY ParserParts, Zenon
  <2>2. CASE Replaces(o)
    <3>1. Restores(y, o, "nonAscii")
      BY <2>2, ReplacementStatement, Zenon DEF Returns
    <3> HIDE DEF x, y
    <3> QED
      BY <1>1, <1>4, <2>1, <2>2, <3>1, Zenon
  <2>3. CASE ~Replaces(o)
    <3>0. Replaces(o) \in BOOLEAN
      BY DEF Replaces
    <3>1. o.nonAscii = "" /\ Replaces(o) = FALSE
      BY <2>3, <3>0, Zenon DEF Replaces
    <3>2. Restores(x, o, "nonAscii")
      BY <3>0, <3>1, ReplaceStatement, Zenon
    <3> HIDE DEF x, y
    <3> QED
      BY <1>1, <1>4, <2>1, <3>2, Zenon
  <2> QED
    BY <2>2, <2>3
<1>7. m \in {"minTermLength", "maxTermLength", "removeHTML", "minPhraseTerms",
             "maxPhraseTerms", "maxPhraseChars", "minPhraseChars", "maxTermsPerMessage",
             "fieldName", "keepSuspiciousTags", "ignoreBody"} =>
        Pending(WholeList(o), o, m, 0)
  BY <1>1, <1>3, ParserReturns, Zenon DEF Returns
<1>8. m \in {"scoreMode", "goodBias", "termsForScore", "maxWordRepeats", "extendTopTerms",
             "minArraySize", "waterCounts", "newWordScore", "minDistance",
             "minWordCount", "spamThreshold"} => Pending(WholeList(o), o, m, 0)
  <2> DEFINE a == InFilter("score_mode", IdToken(o.scoreMode))
  <2>1. /\ a \in S
        /\ InFilter("good_bias", IntToken(o.goodBias)) \in S
        /\ InFilter("terms_for_score", IntToken(o.termsForScore)) \in S
        /\ InFilter("max_word_repeats", IntToken(o.maxWordRepeats)) \in S
        /\ InFilter("min_word_count", IntToken(o.minWordCount)) \in S
        /\ InFilter("extend_top_terms", BoolToken(o.extendTopTerms)) \in S
        /\ InFilter("min_array_size", IntToken(o.minArraySize)) \in S
        /\ InFilter("water_counts", BoolToken(o.waterCounts)) \in S
        /\ InFilter("new_word_score", DoubleToken(o.newWordScore)) \in S
        /\ InFilter("spam_threshold", DoubleToken(o.spamThreshold)) \in S
        /\ InFilter("min_distance_for_score", DoubleToken(o.minDistance)) \in S
    BY <1>5, FilterElements, SMT
  <2>2. Restores(a, o, "scoreMode")
    BY ModeStatement
  <2> HIDE DEF a
  <2> QED
    BY <1>1, <2>1, <2>2, FilterReturns, Zenon DEF Returns
<1>9. m \in {"private", "shared", "targetSizeMB", "maxCacheTerms", "type"} =>
        Pending(WholeList(o), o, m, 0)
  <2>1. /\ InDatabase("type", IdToken(TypeName(o.type))) \in S
        /\ InDatabase("private_filename", StringToken(o.private)) \in S
        /\ InDatabase("shared_filename", StringToken(o.shared)) \in S
        /\ InDatabase("target_size_mb", IntToken(o.targetSizeMB)) \in S
        /\ InDatabase("max_cache_terms", IntToken(o.maxCacheTerms)) \in S
    BY <1>5, DatabaseElements, SMT
  <2> QED
    BY <1>1, <2>1, DatabaseReturns, TypeStatement, Zenon DEF Returns
<1> QED
  BY <1>6, <1>7, <1>8, <1>9, ReturningAre, SMT

------------------------------------------------------------------------------
(* What was written is known, and can be read. *)

PrefixNames == {"simple_prefix", "full_prefix"}

LEMMA KnownOne ==
  \A block, name, token :
    token.number \in Nat /\ name \notin PrefixNames =>
      KnownStatement(Statement(block, name, <<token>>))
<1> SUFFICES ASSUME NEW block, NEW name, NEW token,
                    token.number \in Nat, name \notin PrefixNames
             PROVE  KnownStatement(Statement(block, name, <<token>>))
  OBVIOUS
<1> DEFINE st == Statement(block, name, <<token>>)
<1>1. st.name = name /\ st.args[1] = token /\ Len(st.args) = 1
  BY SMT DEF Statement
<1> HIDE DEF st
<1>2. \A k \in 1..Len(st.args) : st.args[k].number \in Nat
  BY <1>1
<1>3. KnownStatement(st)
  BY <1>1, <1>2, Zenon DEF KnownStatement, PrefixNames
<1> QED
  BY <1>3 DEF st

LEMMA KnownParser ==
  ASSUME NEW o, Proper(o), NEW st \in Elements(ParserStatements(o))
  PROVE  KnownStatement(st)
<1> DEFINE K(block, name, token) == KnownStatement(Statement(block, name, <<token>>))
<1>1. /\ IntToken(o.minTermLength).number \in Nat
      /\ IntToken(o.maxTermLength).number \in Nat
      /\ IntToken(o.minPhraseTerms).number \in Nat
      /\ IntToken(o.maxPhraseTerms).number \in Nat
      /\ IntToken(o.maxPhraseChars).number \in Nat
      /\ IntToken(o.minPhraseChars).number \in Nat
      /\ IntToken(o.maxTermsPerMessage).number \in Nat
  <2>1. \A n \in Nat : IntToken(n).number \in Nat
    BY TokensRead
  <2> QED
    BY <2>1, ProperHas, Zenon
<1>2. /\ BoolToken(o.removeHTML).number \in Nat
      /\ BoolToken(o.keepSuspiciousTags).number \in Nat
      /\ BoolToken(o.ignoreBody).number \in Nat
      /\ BoolToken(Replaces(o)).number \in Nat
  <2>1. \A b \in BOOLEAN : BoolToken(b).number \in Nat
    <3>1. \A b \in BOOLEAN : BoolToken(b).number = 0
      BY TokensRead, Zenon
    <3>2. 0 \in Nat
      OBVIOUS
    <3> QED
      BY <3>1, <3>2, Zenon
  <2>2. Replaces(o) \in BOOLEAN
    BY DEF Replaces
  <2> QED
    BY <2>1, <2>2, ProperHas, Zenon
<1>3. \A str : StringToken(str).number \in Nat
  BY TokensRead
<1>4. /\ "min_term_length" \notin PrefixNames /\ "max_term_length" \notin PrefixNames
      /\ "min_phrase_terms" \notin PrefixNames /\ "max_phrase_terms" \notin PrefixNames
      /\ "max_phrase_chars" \notin PrefixNames /\ "min_phrase_chars" \notin PrefixNames
      /\ "max_message_terms" \notin PrefixNames /\ "remove_html" \notin PrefixNames
      /\ "keep_suspicious_tags" \notin PrefixNames /\ "ignore_body" \notin PrefixNames
      /\ "replace_non_ascii" \notin PrefixNames /\ "non_ascii_replacement" \notin PrefixNames
      /\ "spamprobe_field_name" \notin PrefixNames /\ "header" \notin PrefixNames
  BY SMT DEF PrefixNames
<1>5. /\ KnownStatement(InParser("min_term_length", IntToken(o.minTermLength)))
      /\ KnownStatement(InParser("max_term_length", IntToken(o.maxTermLength)))
      /\ KnownStatement(InParser("remove_html", BoolToken(o.removeHTML)))
      /\ KnownStatement(InParser("min_phrase_terms", IntToken(o.minPhraseTerms)))
      /\ KnownStatement(InParser("max_phrase_terms", IntToken(o.maxPhraseTerms)))
      /\ KnownStatement(InParser("max_phrase_chars", IntToken(o.maxPhraseChars)))
      /\ KnownStatement(InParser("min_phrase_chars", IntToken(o.minPhraseChars)))
      /\ KnownStatement(InParser("max_message_terms", IntToken(o.maxTermsPerMessage)))
      /\ KnownStatement(InParser("spamprobe_field_name", StringToken(o.fieldName)))
      /\ KnownStatement(InParser("keep_suspicious_tags", BoolToken(o.keepSuspiciousTags)))
      /\ KnownStatement(InParser("ignore_body", BoolToken(o.ignoreBody)))
      /\ KnownStatement(InParser("replace_non_ascii", BoolToken(Replaces(o))))
      /\ KnownStatement(InParser("non_ascii_replacement", StringToken(o.nonAscii)))
  BY <1>1, <1>2, <1>3, <1>4, KnownOne, Zenon DEF InParser
<1>6. KnownStatement(Statement("parser", "header", <<>>))
  <2> DEFINE h == Statement("parser", "header", <<>>)
  <2>1. h.name = "header" /\ Len(h.args) = 0
    BY SMT DEF Statement
  <2> HIDE DEF h
  <2>2. \A k \in 1..Len(h.args) : h.args[k].number \in Nat
    BY <2>1
  <2>3. KnownStatement(h)
    BY <1>4, <2>1, <2>2, Zenon DEF KnownStatement, PrefixNames
  <2> QED
    BY <2>3 DEF h
<1>7. CASE st \in Elements(ParserRest(o))
  <2>1. Elements(ParserRest(o)) =
              {InParser("min_term_length", IntToken(o.minTermLength)),
               InParser("max_term_length", IntToken(o.maxTermLength)),
               InParser("remove_html", BoolToken(o.removeHTML)),
               InParser("min_phrase_terms", IntToken(o.minPhraseTerms)),
               InParser("max_phrase_terms", IntToken(o.maxPhraseTerms)),
               InParser("max_phrase_chars", IntToken(o.maxPhraseChars)),
               InParser("min_phrase_chars", IntToken(o.minPhraseChars)),
               InParser("max_message_terms", IntToken(o.maxTermsPerMessage)),
               InParser("spamprobe_field_name", StringToken(o.fieldName)),
               InParser("keep_suspicious_tags", BoolToken(o.keepSuspiciousTags)),
               InParser("ignore_body", BoolToken(o.ignoreBody)),
               Statement("parser", "header", <<>>)}
    BY ParserParts, Zenon
  <2> QED
    BY <1>5, <1>6, <1>7, <2>1, SMT
<1>8. CASE st \in Elements(ParserFirst(o))
  <2>1. Elements(ParserFirst(o)) =
              {InParser("replace_non_ascii", BoolToken(Replaces(o)))}
              \cup (IF Replaces(o)
                      THEN {InParser("non_ascii_replacement", StringToken(o.nonAscii))}
                      ELSE {})
    BY ParserParts, Zenon
  <2> QED
    BY <1>5, <1>8, <2>1, Zenon
<1>9. Elements(ParserStatements(o)) = Elements(ParserFirst(o)) \cup Elements(ParserRest(o))
  BY ParserParts, Zenon
<1> QED
  BY <1>7, <1>8, <1>9, Zenon

LEMMA KnownFilter ==
  ASSUME NEW o, Proper(o), NEW st \in Elements(FilterStatements(o))
  PROVE  KnownStatement(st)
<1>1. /\ IntToken(o.goodBias).number \in Nat /\ IntToken(o.termsForScore).number \in Nat
      /\ IntToken(o.maxWordRepeats).number \in Nat /\ IntToken(o.minWordCount).number \in Nat
      /\ IntToken(o.minArraySize).number \in Nat
  <2>1. \A n \in Nat : IntToken(n).number \in Nat
    BY TokensRead
  <2> QED
    BY <2>1, ProperHas, Zenon
<1>2. /\ BoolToken(o.extendTopTerms).number \in Nat /\ BoolToken(o.waterCounts).number \in Nat
  <2>1. \A b \in BOOLEAN : BoolToken(b).number = 0
    BY TokensRead, Zenon
  <2>2. 0 \in Nat
    OBVIOUS
  <2> QED
    BY <2>1, <2>2, ProperHas, Zenon
<1>3. IdToken(o.scoreMode).number \in Nat
  BY TokensRead
<1>4. /\ DoubleToken(o.newWordScore).number \in Nat /\ DoubleToken(o.spamThreshold).number \in Nat
      /\ DoubleToken(o.minDistance).number \in Nat
  BY FractionsRead, ProperHas, Zenon
<1>5. /\ "score_mode" \notin PrefixNames /\ "good_bias" \notin PrefixNames
      /\ "terms_for_score" \notin PrefixNames /\ "max_word_repeats" \notin PrefixNames
      /\ "min_word_count" \notin PrefixNames /\ "extend_top_terms" \notin PrefixNames
      /\ "min_array_size" \notin PrefixNames /\ "water_counts" \notin PrefixNames
      /\ "new_word_score" \notin PrefixNames /\ "spam_threshold" \notin PrefixNames
      /\ "min_distance_for_score" \notin PrefixNames
  BY SMT DEF PrefixNames
<1>6. /\ KnownStatement(InFilter("score_mode", IdToken(o.scoreMode)))
      /\ KnownStatement(InFilter("good_bias", IntToken(o.goodBias)))
      /\ KnownStatement(InFilter("terms_for_score", IntToken(o.termsForScore)))
      /\ KnownStatement(InFilter("max_word_repeats", IntToken(o.maxWordRepeats)))
      /\ KnownStatement(InFilter("min_word_count", IntToken(o.minWordCount)))
      /\ KnownStatement(InFilter("extend_top_terms", BoolToken(o.extendTopTerms)))
      /\ KnownStatement(InFilter("min_array_size", IntToken(o.minArraySize)))
      /\ KnownStatement(InFilter("water_counts", BoolToken(o.waterCounts)))
      /\ KnownStatement(InFilter("new_word_score", DoubleToken(o.newWordScore)))
      /\ KnownStatement(InFilter("spam_threshold", DoubleToken(o.spamThreshold)))
      /\ KnownStatement(InFilter("min_distance_for_score", DoubleToken(o.minDistance)))
  BY <1>1, <1>2, <1>3, <1>4, <1>5, KnownOne, Zenon DEF InFilter
<1> QED
  BY <1>6, FilterElements, SMT

LEMMA KnownDatabase ==
  ASSUME NEW o, Proper(o), NEW st \in Elements(DatabaseStatements(o))
  PROVE  KnownStatement(st)
<1>1. /\ IntToken(o.targetSizeMB).number \in Nat /\ IntToken(o.maxCacheTerms).number \in Nat
  <2>1. \A n \in Int : IntToken(n).number \in Nat
    BY TokensRead
  <2>2. \A n \in Nat : n \in Int
    OBVIOUS
  <2> QED
    BY <2>1, <2>2, ProperHas, Zenon
<1>2. /\ IdToken(TypeName(o.type)).number \in Nat
      /\ StringToken(o.private).number \in Nat /\ StringToken(o.shared).number \in Nat
  BY TokensRead
<1>3. /\ "type" \notin PrefixNames /\ "private_filename" \notin PrefixNames
      /\ "shared_filename" \notin PrefixNames /\ "target_size_mb" \notin PrefixNames
      /\ "max_cache_terms" \notin PrefixNames
  BY SMT DEF PrefixNames
<1>4. /\ KnownStatement(InDatabase("type", IdToken(TypeName(o.type))))
      /\ KnownStatement(InDatabase("private_filename", StringToken(o.private)))
      /\ KnownStatement(InDatabase("shared_filename", StringToken(o.shared)))
      /\ KnownStatement(InDatabase("target_size_mb", IntToken(o.targetSizeMB)))
      /\ KnownStatement(InDatabase("max_cache_terms", IntToken(o.maxCacheTerms)))
  BY <1>1, <1>2, <1>3, KnownOne, Zenon DEF InDatabase
<1> QED
  BY <1>4, DatabaseElements, SMT

LEMMA KnownPrefix ==
  ASSUME NEW h, NEW n \in HeaderNames
  PROVE  KnownStatement(Prefixed(h, n))
<1> DEFINE st == Prefixed(h, n)
<1>1. /\ st.name = "full_prefix" /\ Len(st.args) = 3
      /\ st.args[1] = StringToken(n)
      /\ st.args[2] = StringToken(h.values[n][1])
      /\ st.args[3] = StringToken(h.values[n][2])
  BY PrefixedParts, Zenon
<1>2. \A str : StringToken(str).number \in Nat
  BY TokensRead
<1>3. StringToken(n).string = n
  <2>1. n \notin Unquotable
    BY TokensAssumption
  <2> QED
    BY <2>1, TokensRead
<1> HIDE DEF st
<1>4. \A k \in 1..Len(st.args) : k = 1 \/ k = 2 \/ k = 3
  BY <1>1
<1>5. \A k \in 1..Len(st.args) : st.args[k].number \in Nat
  BY <1>1, <1>2, <1>4, Zenon
<1>6. st.args[1].string \in HeaderNames
  BY <1>1, <1>3, Zenon
<1>7. KnownStatement(st)
  BY <1>5, <1>6, Zenon DEF KnownStatement
<1> QED
  BY <1>7 DEF st

LEMMA KnownHeaders ==
  ASSUME NEW h, ProperHeaders(h), NEW st \in Elements(HeaderStatements(h))
  PROVE  KnownStatement(st)
<1> DEFINE list == HeaderStatements(h)
<1>0. /\ Len(PrintedNames(h)) \in Nat
      /\ Len(list) = 4 + Len(PrintedNames(h))
      /\ list[1] = InHeader("blank_prefixes_mode", BoolToken(h.blank))
      /\ list[2] = InHeader("ignore_x_headers_mode", BoolToken(h.all /\ h.noX))
      /\ list[3] = InHeader("all_headers_mode", BoolToken(h.all))
      /\ list[4] = InHeader("no_headers_mode",
                            BoolToken(~h.all /\ DOMAIN h.values = {}))
      /\ \A i \in 1..Len(PrintedNames(h)) :
           list[4 + i] = Prefixed(h, PrintedNames(h)[i])
  BY HeaderParts
<1>1. PICK i \in 1..Len(list) : st = list[i]
  BY Zenon DEF Elements
<1>2. \A b : BoolToken(b).number \in Nat
  <2>1. \A id : IdToken(id).number \in Nat
    BY TokensRead
  <2> QED
    BY <2>1, Zenon DEF BoolToken
<1>3. /\ "blank_prefixes_mode" \notin PrefixNames /\ "ignore_x_headers_mode" \notin PrefixNames
      /\ "all_headers_mode" \notin PrefixNames /\ "no_headers_mode" \notin PrefixNames
  BY SMT DEF PrefixNames
<1> HIDE DEF list
<1>4. /\ KnownStatement(list[1]) /\ KnownStatement(list[2])
      /\ KnownStatement(list[3]) /\ KnownStatement(list[4])
  BY <1>0, <1>2, <1>3, KnownOne, Zenon DEF InHeader
<1>5. \A k \in 1..Len(PrintedNames(h)) : KnownStatement(list[4 + k])
  <2>1. \A k \in 1..Len(PrintedNames(h)) : PrintedNames(h)[k] \in HeaderNames
    BY PrintedAre
  <2> QED
    BY <1>0, <2>1, KnownPrefix, Zenon
<1>6. \/ i = 1 \/ i = 2 \/ i = 3 \/ i = 4
      \/ (i - 4) \in 1..Len(PrintedNames(h)) /\ 4 + (i - 4) = i
  BY <1>0, <1>1
<1> QED
  BY <1>1, <1>4, <1>5, <1>6, Zenon

LEMMA ListsOfStatements ==
  ASSUME NEW o, Proper(o)
  PROVE  /\ IsList(ParserStatements(o)) /\ IsList(HeaderStatements(o.headers))
         /\ IsList(FilterStatements(o)) /\ IsList(DatabaseStatements(o))
<1>1. IsList(ParserStatements(o)) /\ IsList(HeaderStatements(o.headers))
  BY ParserParts, HeadersConverge, Zenon
<1>2. IsList(FilterStatements(o))
  BY FilterParts
<1>3. IsList(DatabaseStatements(o))
  <2> DEFINE a == InDatabase("type", IdToken(TypeName(o.type)))
             b == InDatabase("private_filename", StringToken(o.private))
             c == InDatabase("shared_filename", StringToken(o.shared))
             d == InDatabase("target_size_mb", IntToken(o.targetSizeMB))
             e == InDatabase("max_cache_terms", IntToken(o.maxCacheTerms))
  <2>1. DatabaseStatements(o) = <<a, b, c, d, e>>
    BY Zenon DEF DatabaseStatements, TypeName
  <2> HIDE DEF a, b, c, d, e
  <2> QED
    BY <2>1, Tuples
<1> QED
  BY <1>1, <1>2, <1>3

LEMMA WrittenElements ==
  ASSUME NEW o, Proper(o)
  PROVE  /\ IsList(WrittenFile(o).statements)
         /\ Elements(WrittenFile(o).statements) \subseteq
              (Elements(ParserStatements(o)) \cup Elements(HeaderStatements(o.headers)))
              \cup (Elements(FilterStatements(o)) \cup Elements(DatabaseStatements(o)))
<1> DEFINE a == ParserStatements(o) \o HeaderStatements(o.headers)
           b == IF PrintsHeaders(o.headers)
                  THEN FilterStatements(o) \o DatabaseStatements(o) ELSE <<>>
<1>1. WrittenFile(o).statements = a \o b
  BY Zenon DEF WrittenFile
<1>2. /\ IsList(a)
      /\ Elements(a) = Elements(ParserStatements(o)) \cup Elements(HeaderStatements(o.headers))
  BY ListsOfStatements, JoinedElements
<1>3. /\ IsList(b)
      /\ Elements(b) \subseteq Elements(FilterStatements(o)) \cup Elements(DatabaseStatements(o))
  <2> DEFINE c == FilterStatements(o) \o DatabaseStatements(o)
  <2>1. /\ IsList(c)
        /\ Elements(c) = Elements(FilterStatements(o)) \cup Elements(DatabaseStatements(o))
    BY ListsOfStatements, JoinedElements
  <2>2. IsList(<<>>) /\ Elements(<<>>) = {}
    BY Tuples
  <2>3. b = IF PrintsHeaders(o.headers) THEN c ELSE <<>>
    OBVIOUS
  <2> HIDE DEF b, c
  <2> QED
    BY <2>1, <2>2, <2>3, Zenon
<1> HIDE DEF a, b
<1>4. IsList(a \o b) /\ Elements(a \o b) = Elements(a) \cup Elements(b)
  BY <1>2, <1>3, JoinedElements
<1> DEFINE list == a \o b
<1>5. IsList(list) /\ Elements(list) = Elements(a) \cup Elements(b)
  BY <1>4
<1>6. WrittenFile(o).statements = list
  BY <1>1
<1> HIDE DEF list
<1> QED
  BY <1>2, <1>3, <1>5, <1>6, Zenon

LEMMA KnownWritten == ASSUME NEW o, Proper(o) PROVE KnownTokens(WrittenFile(o))
<1> DEFINE list == WrittenFile(o).statements
<1>1. /\ IsList(list)
      /\ \A st \in Elements(list) :
           \/ st \in Elements(ParserStatements(o))
           \/ st \in Elements(HeaderStatements(o.headers))
           \/ st \in Elements(FilterStatements(o))
           \/ st \in Elements(DatabaseStatements(o))
  BY WrittenElements, Zenon
<1>2. ProperHeaders(o.headers)
  BY ProperHas, Zenon
<1>3. \A st \in Elements(list) : KnownStatement(st)
  BY <1>1, <1>2, KnownParser, KnownHeaders, KnownFilter, KnownDatabase, Zenon
<1> HIDE DEF list
<1>4. \A i \in DOMAIN list : list[i] \in Elements(list)
  BY <1>1, ListIs, Zenon DEF Elements
<1>5. \A i \in DOMAIN list : KnownStatement(list[i])
  BY <1>3, <1>4
<1> QED
  BY <1>5, KnownStatements, Zenon DEF list

LEMMA ValidOne ==
  ASSUME NEW block, NEW names, NEW args, Rule(block, names, args) \in Syntax,
         Len(args) = 1, NEW name \in names, NEW token, ValidArgument(args[1], token)
  PROVE  ValidStatement(Statement(block, name, <<token>>))
<1> DEFINE st == Statement(block, name, <<token>>)
           rule == Rule(block, names, args)
<1>1. st.block = block /\ st.name = name /\ st.args[1] = token /\ Len(st.args) = 1
  BY SMT DEF Statement
<1>2. rule.block = block /\ rule.names = names /\ rule.args = args
  BY SMT DEF Rule
<1>3. rule \in Syntax
  OBVIOUS
<1> HIDE DEF st, rule
<1>4. \A i \in 1..Len(st.args) : i = 1
  BY <1>1
<1>5. \A i \in 1..Len(st.args) : ValidArgument(rule.args[i], st.args[i])
  BY <1>1, <1>2, <1>4, Zenon
<1>6. ValidStatement(st)
  BY <1>1, <1>2, <1>3, <1>5, Zenon DEF ValidStatement
<1> QED
  BY <1>6 DEF st

(* The rules by the kind of their argument. *)
ParserSwitches == {"replace_non_ascii", "remove_html", "keep_suspicious_tags", "ignore_body"}
ParserStrings == {"non_ascii_replacement", "spamprobe_field_name"}
ParserNumbers == {"min_term_length", "max_term_length", "min_phrase_terms",
                  "max_phrase_terms", "min_phrase_chars", "max_phrase_chars",
                  "max_message_terms"}
HeaderSwitches == {"blank_prefixes_mode", "ignore_x_headers_mode",
                   "all_headers_mode", "no_headers_mode"}
FilterNumbers == {"good_bias", "terms_for_score", "max_word_repeats",
                  "min_word_count", "min_array_size"}
FilterSwitches == {"extend_top_terms", "water_counts"}
FilterFractions == {"new_word_score", "spam_threshold", "min_distance_for_score"}
DatabaseStrings == {"private_filename", "shared_filename"}
DatabaseNumbers == {"target_size_mb", "max_cache_terms"}
ThreeStrings == AString \o AString \o AString

LEMMA Rules ==
  /\ Rule("parser", ParserSwitches, ABool) \in Syntax
  /\ Rule("parser", ParserStrings, AString) \in Syntax
  /\ Rule("parser", ParserNumbers, AnInt) \in Syntax
  /\ Rule("parser", {"header"}, <<>>) \in Syntax
  /\ Rule("header", {"full_prefix"}, ThreeStrings) \in Syntax
  /\ Rule("header", HeaderSwitches, ABool) \in Syntax
  /\ Rule("filter", {"score_mode"}, ScoreModeArg) \in Syntax
  /\ Rule("filter", FilterNumbers, AnInt) \in Syntax
  /\ Rule("filter", FilterSwitches, ABool) \in Syntax
  /\ Rule("filter", FilterFractions, ADouble) \in Syntax
  /\ Rule("database", {"type"}, TypeArg) \in Syntax
  /\ Rule("database", DatabaseStrings, AString) \in Syntax
  /\ Rule("database", DatabaseNumbers, AnInt) \in Syntax
  BY Zenon DEF Syntax, ParserSwitches, ParserStrings, ParserNumbers, HeaderSwitches,
     FilterNumbers, FilterSwitches, FilterFractions, DatabaseStrings, DatabaseNumbers,
     ThreeStrings, ScoreModeArg, TypeArg

LEMMA TakenArguments ==
  \A token :
    /\ token.type = "int" => ValidArgument(AnInt[1], token)
    /\ token.type \in {"int", "double"} => ValidArgument(ADouble[1], token)
    /\ token.type = "string" => ValidArgument(AString[1], token)
    /\ token.type = "id" /\ token.string \in {"true", "false"} =>
         ValidArgument(ABool[1], token)
    /\ token.type = "id" /\ token.string \in ScoreModes =>
         ValidArgument(ScoreModeArg[1], token)
    /\ token.type = "id" /\ token.string \in {"default", "bdb", "pbl", "hash", "split"} =>
         ValidArgument(TypeArg[1], token)
<1> TAKE token
<1>1. token.type = "int" => ValidArgument(AnInt[1], token)
  BY SMT DEF ValidArgument, AnInt, Accepts
<1>2. token.type \in {"int", "double"} => ValidArgument(ADouble[1], token)
  BY SMT DEF ValidArgument, ADouble, Accepts
<1>3. token.type = "string" => ValidArgument(AString[1], token)
  BY SMT DEF ValidArgument, AString, Accepts
<1>4. token.type = "id" /\ token.string \in {"true", "false"} =>
         ValidArgument(ABool[1], token)
  BY SMT DEF ValidArgument, ABool, Accepts
<1>5. token.type = "id" /\ token.string \in ScoreModes =>
         ValidArgument(ScoreModeArg[1], token)
  BY SMT DEF ValidArgument, ScoreModeArg, OneOf, Accepts, ScoreModes
<1>6. token.type = "id" /\ token.string \in {"default", "bdb", "pbl", "hash", "split"} =>
         ValidArgument(TypeArg[1], token)
  BY SMT DEF ValidArgument, TypeArg, OneOf, Accepts
<1> QED
  BY <1>1, <1>2, <1>3, <1>4, <1>5, <1>6, Zenon

LEMMA ValidKinds ==
  \A token, name :
    /\ token.type = "int" =>
         /\ name \in ParserNumbers => ValidStatement(InParser(name, token))
         /\ name \in FilterNumbers => ValidStatement(InFilter(name, token))
         /\ name \in DatabaseNumbers => ValidStatement(InDatabase(name, token))
    /\ token.type \in {"int", "double"} =>
         (name \in FilterFractions => ValidStatement(InFilter(name, token)))
    /\ token.type = "string" =>
         /\ name \in ParserStrings => ValidStatement(InParser(name, token))
         /\ name \in DatabaseStrings => ValidStatement(InDatabase(name, token))
    /\ token.type = "id" /\ token.string \in {"true", "false"} =>
         /\ name \in ParserSwitches => ValidStatement(InParser(name, token))
         /\ name \in HeaderSwitches => ValidStatement(InHeader(name, token))
         /\ name \in FilterSwitches => ValidStatement(InFilter(name, token))
    /\ token.type = "id" /\ token.string \in ScoreModes =>
         ValidStatement(InFilter("score_mode", token))
    /\ token.type = "id" /\ token.string \in {"default", "bdb", "pbl", "hash", "split"} =>
         ValidStatement(InDatabase("type", token))
<1> TAKE token, name
<1>1. token.type = "int" =>
         /\ name \in ParserNumbers => ValidStatement(InParser(name, token))
         /\ name \in FilterNumbers => ValidStatement(InFilter(name, token))
         /\ name \in DatabaseNumbers => ValidStatement(InDatabase(name, token))
  BY Rules, TakenArguments, OneArgument, ValidOne, Zenon DEF InParser, InFilter, InDatabase
<1>2. token.type \in {"int", "double"} =>
         (name \in FilterFractions => ValidStatement(InFilter(name, token)))
  BY Rules, TakenArguments, OneArgument, ValidOne, Zenon DEF InFilter
<1>3. token.type = "string" =>
         /\ name \in ParserStrings => ValidStatement(InParser(name, token))
         /\ name \in DatabaseStrings => ValidStatement(InDatabase(name, token))
  BY Rules, TakenArguments, OneArgument, ValidOne, Zenon DEF InParser, InDatabase
<1>4. token.type = "id" /\ token.string \in {"true", "false"} =>
         /\ name \in ParserSwitches => ValidStatement(InParser(name, token))
         /\ name \in HeaderSwitches => ValidStatement(InHeader(name, token))
         /\ name \in FilterSwitches => ValidStatement(InFilter(name, token))
  BY Rules, TakenArguments, OneArgument, ValidOne, Zenon DEF InParser, InHeader, InFilter
<1>7. "score_mode" \in {"score_mode"} /\ "type" \in {"type"}
  OBVIOUS
<1>5. token.type = "id" /\ token.string \in ScoreModes =>
         ValidStatement(InFilter("score_mode", token))
  BY <1>7, Rules, TakenArguments, OneArgument, ValidOne, Zenon DEF InFilter
<1>6. token.type = "id" /\ token.string \in {"default", "bdb", "pbl", "hash", "split"} =>
         ValidStatement(InDatabase("type", token))
  BY <1>7, Rules, TakenArguments, OneArgument, ValidOne, Zenon DEF InDatabase
<1> QED
  BY <1>1, <1>2, <1>3, <1>4, <1>5, <1>6, Zenon

LEMMA ValidPrefix ==
  ASSUME NEW h, NEW n, n \notin Unquotable,
         h.values[n][1] \notin Unquotable, h.values[n][2] \notin Unquotable
  PROVE  ValidStatement(Prefixed(h, n))
<1> DEFINE st == Prefixed(h, n)
           rule == Rule("header", {"full_prefix"}, ThreeStrings)
           c == Accepts({"string"}, {})
<1>1. /\ st.block = "header" /\ st.name = "full_prefix" /\ Len(st.args) = 3
      /\ st.args[1] = StringToken(n)
      /\ st.args[2] = StringToken(h.values[n][1])
      /\ st.args[3] = StringToken(h.values[n][2])
  BY PrefixedParts, Zenon
<1>2. /\ StringToken(n).type = "string"
      /\ StringToken(h.values[n][1]).type = "string"
      /\ StringToken(h.values[n][2]).type = "string"
  BY TokensRead
<1>3. \A token : token.type = "string" => ValidArgument(c, token)
  BY SMT DEF ValidArgument, Accepts
<1>4. rule.block = "header" /\ rule.names = {"full_prefix"} /\ rule.args = ThreeStrings
  BY SMT DEF Rule
<1>5. rule \in Syntax
  BY Rules, Zenon
<1>7. AString = <<c>>
  BY DEF AString
<1> HIDE DEF st, rule, c
<1>6. /\ Len(ThreeStrings) = 3
      /\ ThreeStrings[1] = c /\ ThreeStrings[2] = c /\ ThreeStrings[3] = c
  <2> DEFINE one == <<c>>
             two == one \o one
  <2>1. Len(two) = 2 /\ IsList(two) /\ two[1] = c /\ two[2] = c
    <3>1. IsList(two)
      BY Tuples, JoinedElements
    <3>2. DOMAIN two = {1, 2} /\ two[1] = c /\ two[2] = c
      BY TwoJoined, Zenon
    <3>3. Len(two) = 2
      BY SMT
    <3> QED
      BY <3>1, <3>2, <3>3
  <2>2. ThreeStrings = two \o one
    BY <1>7, Zenon DEF ThreeStrings
  <2>3. IsList(one) /\ Len(one) = 1 /\ one[1] = c
    BY Tuples
  <2>5. IsList(one) /\ IsList(two)
    BY <2>1, <2>3
  <2> HIDE DEF one, two
  <2>4. /\ Len(two \o one) = Len(two) + Len(one)
        /\ \A i \in 1..Len(two) : (two \o one)[i] = two[i]
        /\ \A i \in 1..Len(one) : (two \o one)[Len(two) + i] = one[i]
    BY <2>5, Joined
  <2> DEFINE all == two \o one
  <2>6. /\ Len(all) = Len(two) + Len(one)
        /\ \A i \in 1..Len(two) : all[i] = two[i]
        /\ \A i \in 1..Len(one) : all[Len(two) + i] = one[i]
        /\ ThreeStrings = all
    BY <2>2, <2>4
  <2> HIDE DEF all
  <2> QED
    BY <2>1, <2>3, <2>6
<1>8. \A i \in 1..Len(st.args) : i = 1 \/ i = 2 \/ i = 3
  BY <1>1
<1>9. \A i \in 1..Len(st.args) : ValidArgument(rule.args[i], st.args[i])
  BY <1>1, <1>2, <1>3, <1>4, <1>6, <1>8, Zenon
<1>10. Len(st.args) = Len(rule.args) /\ st.name \in rule.names
  BY <1>1, <1>4, <1>6
<1>11. ValidStatement(st)
  BY <1>1, <1>4, <1>5, <1>9, <1>10, Zenon DEF ValidStatement
<1> QED
  BY <1>11 DEF st

LEMMA PrintedNamesAre ==
  ASSUME NEW h, ProperHeaders(h), PrintsHeaders(h)
  PROVE  /\ ~h.all => {PrintedNames(h)[i] : i \in 1..Len(PrintedNames(h))} = DOMAIN h.values
         /\ h.all => Len(PrintedNames(h)) = 0
         /\ \A i \in 1..Len(PrintedNames(h)) :
              PrintedNames(h)[i] \in HeaderNames \cap DOMAIN h.values
<1>1. /\ PrintedNames(h) \in Seq(HeaderNames) /\ PrintedNames(h) = ListedNames(h)
      /\ h.all => PrintedNames(h) = <<>>
  BY PrintedAre
<1>2. ~h.all => {PrintedNames(h)[i] : i \in 1..Len(PrintedNames(h))} = DOMAIN h.values
  <2>1. DOMAIN h.values \subseteq HeaderNames
    BY DEF ProperHeaders
  <2> QED
    BY <1>1, <2>1, ListedAre, Zenon
<1>3. h.all => Len(PrintedNames(h)) = 0
  BY <1>1
<1>4. ASSUME NEW i \in 1..Len(PrintedNames(h))
      PROVE  PrintedNames(h)[i] \in HeaderNames \cap DOMAIN h.values
  <2>1. ~h.all
    BY <1>3
  <2>2. PrintedNames(h)[i] \in DOMAIN h.values
    BY <1>2, <2>1
  <2>3. PrintedNames(h)[i] \in HeaderNames
    BY <1>1
  <2> QED
    BY <2>2, <2>3
<1> QED
  BY <1>2, <1>3, <1>4

LEMMA SwitchTokens ==
  \A b : BoolToken(b).type = "id" /\ BoolToken(b).string \in {"true", "false"}
<1>1. \A id : IdToken(id).type = "id" /\ IdToken(id).string = id
  BY TokensRead
<1> QED
  BY <1>1, Zenon DEF BoolToken

LEMMA ValidParser ==
  ASSUME NEW o, Proper(o), Printable(o), NEW st \in Elements(ParserStatements(o))
  PROVE  ValidStatement(st)
<1>1. /\ IntToken(o.minTermLength).type = "int" /\ IntToken(o.maxTermLength).type = "int"
      /\ IntToken(o.minPhraseTerms).type = "int" /\ IntToken(o.maxPhraseTerms).type = "int"
      /\ IntToken(o.maxPhraseChars).type = "int" /\ IntToken(o.minPhraseChars).type = "int"
      /\ IntToken(o.maxTermsPerMessage).type = "int"
  <2>1. \A n \in Nat : IntToken(n).type = "int"
    BY TokensRead
  <2> QED
    BY <2>1, ProperHas, Zenon
<1>2. /\ StringToken(o.fieldName).type = "string" /\ StringToken(o.nonAscii).type = "string"
  <2>1. \A str : str \notin Unquotable => StringToken(str).type = "string"
    BY TokensRead
  <2> QED
    BY <2>1, PrintableHas, Zenon
<1>3. /\ "min_term_length" \in ParserNumbers /\ "max_term_length" \in ParserNumbers
      /\ "min_phrase_terms" \in ParserNumbers /\ "max_phrase_terms" \in ParserNumbers
      /\ "max_phrase_chars" \in ParserNumbers /\ "min_phrase_chars" \in ParserNumbers
      /\ "max_message_terms" \in ParserNumbers /\ "remove_html" \in ParserSwitches
      /\ "keep_suspicious_tags" \in ParserSwitches /\ "ignore_body" \in ParserSwitches
      /\ "replace_non_ascii" \in ParserSwitches /\ "non_ascii_replacement" \in ParserStrings
      /\ "spamprobe_field_name" \in ParserStrings
  BY DEF ParserNumbers, ParserSwitches, ParserStrings
<1>5. /\ ValidStatement(InParser("min_term_length", IntToken(o.minTermLength)))
      /\ ValidStatement(InParser("max_term_length", IntToken(o.maxTermLength)))
      /\ ValidStatement(InParser("remove_html", BoolToken(o.removeHTML)))
      /\ ValidStatement(InParser("min_phrase_terms", IntToken(o.minPhraseTerms)))
      /\ ValidStatement(InParser("max_phrase_terms", IntToken(o.maxPhraseTerms)))
      /\ ValidStatement(InParser("max_phrase_chars", IntToken(o.maxPhraseChars)))
      /\ ValidStatement(InParser("min_phrase_chars", IntToken(o.minPhraseChars)))
      /\ ValidStatement(InParser("max_message_terms", IntToken(o.maxTermsPerMessage)))
      /\ ValidStatement(InParser("spamprobe_field_name", StringToken(o.fieldName)))
      /\ ValidStatement(InParser("keep_suspicious_tags", BoolToken(o.keepSuspiciousTags)))
      /\ ValidStatement(InParser("ignore_body", BoolToken(o.ignoreBody)))
      /\ ValidStatement(InParser("replace_non_ascii", BoolToken(Replaces(o))))
      /\ ValidStatement(InParser("non_ascii_replacement", StringToken(o.nonAscii)))
  BY <1>1, <1>2, <1>3, SwitchTokens, ValidKinds, Zenon
<1>6. ValidStatement(Statement("parser", "header", <<>>))
  <2> DEFINE h == Statement("parser", "header", <<>>)
             rule == Rule("parser", {"header"}, <<>>)
  <2>1. h.block = "parser" /\ h.name = "header" /\ h.args = <<>>
    BY SMT DEF Statement
  <2>2. rule.block = "parser" /\ rule.names = {"header"} /\ rule.args = <<>>
    BY SMT DEF Rule
  <2>3. rule \in Syntax
    BY Rules, Zenon
  <2> HIDE DEF h, rule
  <2>4. /\ Len(h.args) = Len(rule.args) /\ h.name \in rule.names
        /\ \A i \in 1..Len(h.args) : ValidArgument(rule.args[i], h.args[i])
    BY <2>1, <2>2
  <2>5. ValidStatement(h)
    BY <2>1, <2>2, <2>3, <2>4, Zenon DEF ValidStatement
  <2> QED
    BY <2>5 DEF h
<1>7. CASE st \in Elements(ParserRest(o))
  <2>1. Elements(ParserRest(o)) =
              {InParser("min_term_length", IntToken(o.minTermLength)),
               InParser("max_term_length", IntToken(o.maxTermLength)),
               InParser("remove_html", BoolToken(o.removeHTML)),
               InParser("min_phrase_terms", IntToken(o.minPhraseTerms)),
               InParser("max_phrase_terms", IntToken(o.maxPhraseTerms)),
               InParser("max_phrase_chars", IntToken(o.maxPhraseChars)),
               InParser("min_phrase_chars", IntToken(o.minPhraseChars)),
               InParser("max_message_terms", IntToken(o.maxTermsPerMessage)),
               InParser("spamprobe_field_name", StringToken(o.fieldName)),
               InParser("keep_suspicious_tags", BoolToken(o.keepSuspiciousTags)),
               InParser("ignore_body", BoolToken(o.ignoreBody)),
               Statement("parser", "header", <<>>)}
    BY ParserParts, Zenon
  <2> QED
    BY <1>5, <1>6, <1>7, <2>1, SMT
<1>8. CASE st \in Elements(ParserFirst(o))
  <2>1. Elements(ParserFirst(o)) =
              {InParser("replace_non_ascii", BoolToken(Replaces(o)))}
              \cup (IF Replaces(o)
                      THEN {InParser("non_ascii_replacement", StringToken(o.nonAscii))}
                      ELSE {})
    BY ParserParts, Zenon
  <2> QED
    BY <1>5, <1>8, <2>1, Zenon
<1>9. Elements(ParserStatements(o)) = Elements(ParserFirst(o)) \cup Elements(ParserRest(o))
  BY ParserParts, Zenon
<1> QED
  BY <1>7, <1>8, <1>9, Zenon

LEMMA ValidFilter ==
  ASSUME NEW o, Proper(o), Printable(o), NEW st \in Elements(FilterStatements(o))
  PROVE  ValidStatement(st)
<1>1. /\ IntToken(o.goodBias).type = "int" /\ IntToken(o.termsForScore).type = "int"
      /\ IntToken(o.maxWordRepeats).type = "int" /\ IntToken(o.minWordCount).type = "int"
      /\ IntToken(o.minArraySize).type = "int"
  <2>1. \A n \in Nat : IntToken(n).type = "int"
    BY TokensRead
  <2> QED
    BY <2>1, ProperHas, Zenon
<1>2. /\ DoubleToken(o.newWordScore).type \in {"int", "double"}
      /\ DoubleToken(o.spamThreshold).type \in {"int", "double"}
      /\ DoubleToken(o.minDistance).type \in {"int", "double"}
  BY FractionsRead, ProperHas, PrintableHas, Zenon
<1>3. IdToken(o.scoreMode).type = "id" /\ IdToken(o.scoreMode).string \in ScoreModes
  <2>1. \A id : IdToken(id).type = "id" /\ IdToken(id).string = id
    BY TokensRead
  <2> QED
    BY <2>1, ProperHas, Zenon
<1>5. /\ "good_bias" \in FilterNumbers /\ "terms_for_score" \in FilterNumbers
      /\ "max_word_repeats" \in FilterNumbers /\ "min_word_count" \in FilterNumbers
      /\ "min_array_size" \in FilterNumbers
      /\ "extend_top_terms" \in FilterSwitches /\ "water_counts" \in FilterSwitches
      /\ "new_word_score" \in FilterFractions /\ "spam_threshold" \in FilterFractions
      /\ "min_distance_for_score" \in FilterFractions
  BY DEF FilterNumbers, FilterSwitches, FilterFractions
<1>6. /\ ValidStatement(InFilter("score_mode", IdToken(o.scoreMode)))
      /\ ValidStatement(InFilter("good_bias", IntToken(o.goodBias)))
      /\ ValidStatement(InFilter("terms_for_score", IntToken(o.termsForScore)))
      /\ ValidStatement(InFilter("max_word_repeats", IntToken(o.maxWordRepeats)))
      /\ ValidStatement(InFilter("min_word_count", IntToken(o.minWordCount)))
      /\ ValidStatement(InFilter("extend_top_terms", BoolToken(o.extendTopTerms)))
      /\ ValidStatement(InFilter("min_array_size", IntToken(o.minArraySize)))
      /\ ValidStatement(InFilter("water_counts", BoolToken(o.waterCounts)))
      /\ ValidStatement(InFilter("new_word_score", DoubleToken(o.newWordScore)))
      /\ ValidStatement(InFilter("spam_threshold", DoubleToken(o.spamThreshold)))
      /\ ValidStatement(InFilter("min_distance_for_score", DoubleToken(o.minDistance)))
  BY <1>1, <1>2, <1>3, <1>5, SwitchTokens, ValidKinds, Zenon
<1> QED
  BY <1>6, FilterElements, SMT

LEMMA ValidDatabase ==
  ASSUME NEW o, Proper(o), Printable(o), NEW st \in Elements(DatabaseStatements(o))
  PROVE  ValidStatement(st)
<1>1. /\ IntToken(o.targetSizeMB).type = "int" /\ IntToken(o.maxCacheTerms).type = "int"
  <2>1. \A n \in Nat : IntToken(n).type = "int"
    BY TokensRead
  <2>2. o.targetSizeMB \in Nat /\ o.maxCacheTerms \in Nat
    <3>1. o.targetSizeMB \in Int /\ o.targetSizeMB >= 0 /\ o.maxCacheTerms \in Nat
      BY ProperHas, PrintableHas, Zenon
    <3> QED
      BY <3>1
  <2> QED
    BY <2>1, <2>2, Zenon
<1>2. /\ IdToken(TypeName(o.type)).type = "id"
      /\ IdToken(TypeName(o.type)).string \in {"default", "bdb", "pbl", "hash", "split"}
  <2>1. \A id : IdToken(id).type = "id" /\ IdToken(id).string = id
    BY TokensRead
  <2>2. o.type \in {"", "bdb", "pbl", "hash", "split"}
    BY PrintableHas, Zenon
  <2>3. TypeName(o.type) \in {"default", "bdb", "pbl", "hash", "split"}
    BY <2>2, Zenon DEF TypeName
  <2> QED
    BY <2>1, <2>3, Zenon
<1>3. StringToken(o.private).type = "string" /\ StringToken(o.shared).type = "string"
  <2>1. \A str : str \notin Unquotable => StringToken(str).type = "string"
    BY TokensRead
  <2> QED
    BY <2>1, PrintableHas, Zenon
<1>4. /\ "private_filename" \in DatabaseStrings /\ "shared_filename" \in DatabaseStrings
      /\ "target_size_mb" \in DatabaseNumbers /\ "max_cache_terms" \in DatabaseNumbers
  BY DEF DatabaseStrings, DatabaseNumbers
<1>5. /\ ValidStatement(InDatabase("type", IdToken(TypeName(o.type))))
      /\ ValidStatement(InDatabase("private_filename", StringToken(o.private)))
      /\ ValidStatement(InDatabase("shared_filename", StringToken(o.shared)))
      /\ ValidStatement(InDatabase("target_size_mb", IntToken(o.targetSizeMB)))
      /\ ValidStatement(InDatabase("max_cache_terms", IntToken(o.maxCacheTerms)))
  BY <1>1, <1>2, <1>3, <1>4, ValidKinds, Zenon
<1> QED
  BY <1>5, DatabaseElements, SMT

LEMMA ValidHeaders ==
  ASSUME NEW o, Proper(o), Printable(o), PrintsHeaders(o.headers),
         NEW st \in Elements(HeaderStatements(o.headers))
  PROVE  ValidStatement(st)
<1> DEFINE h == o.headers
           list == HeaderStatements(h)
<1>9. ProperHeaders(h)
  BY ProperHas, Zenon
<1>0. /\ Len(PrintedNames(h)) \in Nat
      /\ Len(list) = 4 + Len(PrintedNames(h))
      /\ list[1] = InHeader("blank_prefixes_mode", BoolToken(h.blank))
      /\ list[2] = InHeader("ignore_x_headers_mode", BoolToken(h.all /\ h.noX))
      /\ list[3] = InHeader("all_headers_mode", BoolToken(h.all))
      /\ list[4] = InHeader("no_headers_mode",
                            BoolToken(~h.all /\ DOMAIN h.values = {}))
      /\ \A i \in 1..Len(PrintedNames(h)) :
           list[4 + i] = Prefixed(h, PrintedNames(h)[i])
  BY <1>9, HeaderParts
<1>1. PICK i \in 1..Len(list) : st = list[i]
  BY Zenon DEF Elements
<1>3. /\ "blank_prefixes_mode" \in HeaderSwitches /\ "ignore_x_headers_mode" \in HeaderSwitches
      /\ "all_headers_mode" \in HeaderSwitches /\ "no_headers_mode" \in HeaderSwitches
  BY DEF HeaderSwitches
<1> HIDE DEF list
<1>4. /\ ValidStatement(list[1]) /\ ValidStatement(list[2])
      /\ ValidStatement(list[3]) /\ ValidStatement(list[4])
  BY <1>0, <1>3, SwitchTokens, ValidKinds, Zenon
<1>5. \A k \in 1..Len(PrintedNames(h)) : ValidStatement(list[4 + k])
  <2>1. \A k \in 1..Len(PrintedNames(h)) :
          PrintedNames(h)[k] \in HeaderNames /\ PrintedNames(h)[k] \in DOMAIN h.values
    BY <1>9, PrintedNamesAre
  <2>2. \A n \in HeaderNames : n \notin Unquotable
    BY TokensAssumption
  <2>3. \A n \in DOMAIN h.values :
          h.values[n][1] \notin Unquotable /\ h.values[n][2] \notin Unquotable
    BY PrintableHas, Zenon
  <2> QED
    BY <1>0, <2>1, <2>2, <2>3, ValidPrefix, Zenon
<1>6. \/ i = 1 \/ i = 2 \/ i = 3 \/ i = 4
      \/ (i - 4) \in 1..Len(PrintedNames(h)) /\ 4 + (i - 4) = i
  BY <1>0, <1>1
<1> QED
  BY <1>1, <1>4, <1>5, <1>6, Zenon

LEMMA ReadableWritten ==
  ASSUME NEW o, Proper(o), Printable(o), PrintsHeaders(o.headers)
  PROVE  Readable(WrittenFile(o))
<1> DEFINE list == WrittenFile(o).statements
<1>1. /\ IsList(list)
      /\ \A st \in Elements(list) :
           \/ st \in Elements(ParserStatements(o))
           \/ st \in Elements(HeaderStatements(o.headers))
           \/ st \in Elements(FilterStatements(o))
           \/ st \in Elements(DatabaseStatements(o))
  BY WrittenElements, Zenon
<1>3. \A st \in Elements(list) : ValidStatement(st)
  BY <1>1, ValidParser, ValidHeaders, ValidFilter, ValidDatabase, Zenon
<1> HIDE DEF list
<1>4. \A i \in DOMAIN list : list[i] \in Elements(list)
  BY <1>1, ListIs, Zenon DEF Elements
<1>5. \A i \in DOMAIN list : ValidStatement(list[i])
  BY <1>3, <1>4
<1> QED
  BY <1>5, WholeWritten, Zenon DEF Readable, list

------------------------------------------------------------------------------
(* Statements that pass the headers by. *)

Passing(st) ==
  \A s, reset :
    DOMAIN s = Members =>
      /\ Loaded(st, s, reset).settings.headers = s.headers
      /\ Loaded(st, s, reset).reset = reset

LEMMA PutElsewhere ==
  ASSUME NEW s, NEW t, NEW m, NEW v, Puts(s, t, m, v), m # "headers"
  PROVE  t.headers = s.headers
<1>1. "headers" \in Members \ ({m} \cup Aftermath)
  BY NamedMembers, SMT DEF Aftermath
<1> QED
  BY <1>1, Zenon DEF Puts

LEMMA ResetKept ==
  ASSUME NEW st, st.block \in {"parser", "filter", "database"}, st.name # "header",
         NEW s, NEW reset
  PROVE  Loaded(st, s, reset).reset = reset
<1>1. CASE st.block = "parser"
  BY <1>1, SMT DEF Loaded
<1>2. CASE st.block = "filter"
  BY <1>2, SMT DEF Loaded
<1>3. CASE st.block = "database"
  BY <1>3, SMT DEF Loaded
<1> QED
  BY <1>1, <1>2, <1>3

Textual(token) == token.string # ""

LEMMA ParserPassing ==
  ASSUME NEW name \in ParserSwitches \cup ParserNumbers \cup ParserStrings, NEW token,
         name = "non_ascii_replacement" => Textual(token)
  PROVE  Passing(InParser(name, token))
<1> DEFINE st == InParser(name, token)
<1>1. st.block = "parser" /\ st.name = name /\ st.args[1] = token
  BY SMT DEF InParser, Statement
<1>2. st.name # "header" /\ st.block \in {"parser", "filter", "database"}
  BY <1>1, SMT DEF ParserSwitches, ParserNumbers, ParserStrings
<1> HIDE DEF st
<1>3. ASSUME NEW s, NEW reset, DOMAIN s = Members
      PROVE  Loaded(st, s, reset).settings.headers = s.headers
  <2> DEFINE t == Loaded(st, s, reset).settings
  <2>1. ParserPuts(st, s, t)
    BY <1>1, <1>3, ParserStatementPuts
  <2>2. /\ name = "replace_non_ascii" =>
             Puts(s, t, "nonAscii", IF IsTrueValue(token) THEN "z" ELSE "")
        /\ name = "non_ascii_replacement" => Puts(s, t, "nonAscii", token.string)
    BY <1>1, <1>3, OtherStatementPuts, Zenon DEF Textual
  <2> HIDE DEF t
  <2>3. \/ name = "min_term_length" \/ name = "max_term_length" \/ name = "remove_html"
        \/ name = "min_phrase_terms" \/ name = "max_phrase_terms"
        \/ name = "max_phrase_chars" \/ name = "min_phrase_chars"
        \/ name = "max_message_terms" \/ name = "spamprobe_field_name"
        \/ name = "keep_suspicious_tags" \/ name = "ignore_body"
        \/ name = "replace_non_ascii" \/ name = "non_ascii_replacement"
    BY DEF ParserSwitches, ParserNumbers, ParserStrings
  <2>4. \E m, v : m # "headers" /\ Puts(s, t, m, v)
    <3>1. /\ "minTermLength" # "headers" /\ "maxTermLength" # "headers"
          /\ "removeHTML" # "headers" /\ "minPhraseTerms" # "headers"
          /\ "maxPhraseTerms" # "headers" /\ "maxPhraseChars" # "headers"
          /\ "minPhraseChars" # "headers" /\ "maxTermsPerMessage" # "headers"
          /\ "fieldName" # "headers" /\ "keepSuspiciousTags" # "headers"
          /\ "ignoreBody" # "headers" /\ "nonAscii" # "headers"
      BY SMT
    <3> QED
      BY <1>1, <2>1, <2>2, <2>3, <3>1, Zenon DEF ParserPuts
  <2>5. t.headers = s.headers
    BY <2>4, PutElsewhere, Zenon
  <2> QED
    BY <2>5 DEF t
<1>4. \A s, reset : Loaded(st, s, reset).reset = reset
  BY <1>2, ResetKept
<1>5. Passing(st)
  BY <1>3, <1>4, Zenon DEF Passing
<1> QED
  BY <1>5 DEF st

LEMMA FilterPassing ==
  ASSUME NEW name \in FilterSwitches \cup FilterNumbers \cup FilterFractions
                      \cup {"score_mode"}, NEW token
  PROVE  Passing(InFilter(name, token))
<1> DEFINE st == InFilter(name, token)
<1>1. st.block = "filter" /\ st.name = name /\ st.args[1] = token
  BY SMT DEF InFilter, Statement
<1>2. st.name # "header" /\ st.block \in {"parser", "filter", "database"}
  BY <1>1, SMT DEF FilterSwitches, FilterNumbers, FilterFractions
<1> HIDE DEF st
<1>3. ASSUME NEW s, NEW reset, DOMAIN s = Members
      PROVE  Loaded(st, s, reset).settings.headers = s.headers
  <2> DEFINE t == Loaded(st, s, reset).settings
  <2>1. FilterPuts(st, s, t)
    BY <1>1, <1>3, FilterStatementPuts
  <2>2. /\ name = "min_word_count" => Puts(s, t, "minWordCount", token.number)
        /\ name = "spam_threshold" => Puts(s, t, "spamThreshold", DoubleValue(token))
    BY <1>1, <1>3, OtherStatementPuts, Zenon
  <2>3. name = "score_mode" => t.headers = s.headers
    <3>1. "headers" \in Members \ {"scoreMode", "goodBias", "minWordCount",
                                    "spamThreshold"}
      BY NamedMembers, SMT
    <3> QED
      BY <1>1, <1>3, <3>1, ScoreModePuts
  <2> HIDE DEF t
  <2>4. \/ name = "good_bias" \/ name = "terms_for_score" \/ name = "max_word_repeats"
        \/ name = "min_word_count" \/ name = "extend_top_terms"
        \/ name = "min_array_size" \/ name = "water_counts" \/ name = "new_word_score"
        \/ name = "spam_threshold" \/ name = "min_distance_for_score"
        \/ name = "score_mode"
    BY DEF FilterSwitches, FilterNumbers, FilterFractions
  <2>5. name # "score_mode" => \E m, v : m # "headers" /\ Puts(s, t, m, v)
    <3>1. /\ "goodBias" # "headers" /\ "termsForScore" # "headers"
          /\ "maxWordRepeats" # "headers" /\ "extendTopTerms" # "headers"
          /\ "minArraySize" # "headers" /\ "waterCounts" # "headers"
          /\ "newWordScore" # "headers" /\ "minDistance" # "headers"
          /\ "minWordCount" # "headers" /\ "spamThreshold" # "headers"
      BY SMT
    <3> QED
      BY <1>1, <2>1, <2>2, <2>4, <3>1, Zenon DEF FilterPuts
  <2>6. t.headers = s.headers
    BY <2>3, <2>5, PutElsewhere, Zenon
  <2> QED
    BY <2>6 DEF t
<1>4. \A s, reset : Loaded(st, s, reset).reset = reset
  BY <1>2, ResetKept
<1>5. Passing(st)
  BY <1>3, <1>4, Zenon DEF Passing
<1> QED
  BY <1>5 DEF st

LEMMA DatabasePassing ==
  ASSUME NEW name \in DatabaseStrings \cup DatabaseNumbers \cup {"type"}, NEW token
  PROVE  Passing(InDatabase(name, token))
<1> DEFINE st == InDatabase(name, token)
<1>1. st.block = "database" /\ st.name = name /\ st.args[1] = token
  BY SMT DEF InDatabase, Statement
<1>2. st.name # "header" /\ st.block \in {"parser", "filter", "database"}
  BY <1>1, SMT DEF DatabaseStrings, DatabaseNumbers
<1> HIDE DEF st
<1>3. ASSUME NEW s, NEW reset, DOMAIN s = Members
      PROVE  Loaded(st, s, reset).settings.headers = s.headers
  <2> DEFINE t == Loaded(st, s, reset).settings
  <2>1. DatabasePuts(st, s, t)
    BY <1>1, <1>3, DatabaseStatementPuts
  <2>2. name = "type" =>
          Puts(s, t, "type", IF token.string = "default" THEN "" ELSE token.string)
    BY <1>1, <1>3, OtherStatementPuts, Zenon
  <2> HIDE DEF t
  <2>4. \/ name = "private_filename" \/ name = "shared_filename"
        \/ name = "target_size_mb" \/ name = "max_cache_terms" \/ name = "type"
    BY DEF DatabaseStrings, DatabaseNumbers
  <2>5. \E m, v : m # "headers" /\ Puts(s, t, m, v)
    <3>1. /\ "private" # "headers" /\ "shared" # "headers" /\ "targetSizeMB" # "headers"
          /\ "maxCacheTerms" # "headers" /\ "type" # "headers"
      BY SMT
    <3> QED
      BY <1>1, <2>1, <2>2, <2>4, <3>1, Zenon DEF DatabasePuts
  <2>6. t.headers = s.headers
    BY <2>5, PutElsewhere, Zenon
  <2> QED
    BY <2>6 DEF t
<1>4. \A s, reset : Loaded(st, s, reset).reset = reset
  BY <1>2, ResetKept
<1>5. Passing(st)
  BY <1>3, <1>4, Zenon DEF Passing
<1> QED
  BY <1>5 DEF st

------------------------------------------------------------------------------
(* The statements of the block of the headers, one by one. *)

ModeNames == {"ignore_x_headers_mode", "all_headers_mode", "no_headers_mode"}
ModeHeaders == [ignore_x_headers_mode |-> NonXHeaders,
                all_headers_mode |-> AllHeaders,
                no_headers_mode |-> NoHeaders]

LEMMA ModesAre ==
  /\ DOMAIN ModeHeaders = ModeNames
  /\ ModeHeaders["ignore_x_headers_mode"] = NonXHeaders
  /\ ModeHeaders["all_headers_mode"] = AllHeaders
  /\ ModeHeaders["no_headers_mode"] = NoHeaders
  /\ "ignore_x_headers_mode" \in ModeNames /\ "all_headers_mode" \in ModeNames
  /\ "no_headers_mode" \in ModeNames
  BY SMT DEF ModeHeaders, ModeNames

LEMMA ModeEffects ==
  ASSUME NEW name \in ModeNames, NEW token, NEW h, NEW reset,
         NEW either, either = (reset \/ IsTrueValue(token)),
         NEW step, step = LoadHeaderStatement(InHeader(name, token), h, reset)
  PROVE  /\ step.headers = IF IsTrueValue(token) THEN ModeHeaders[name] ELSE h
         /\ step.reset = either
<1> DEFINE st == InHeader(name, token)
           g == IF IsTrueValue(token) THEN ModeHeaders[name] ELSE h
<1>1. st.name = name /\ st.args[1] = token
  BY HeaderStatementParts, Zenon
<1> HIDE DEF st
<1>2. /\ st.name # "simple_prefix" /\ st.name # "full_prefix"
      /\ st.name # "blank_prefixes_mode" /\ st.name \in DOMAIN ModeHeaders
  BY <1>1, ModesAre, SMT DEF ModeNames
<1>3. step = LoadHeaderStatement(st, h, reset)
  BY DEF st
<1> DEFINE r == reset \/ IsTrueValue(token)
           result == LoadHeaderStatement(st, h, reset)
<1>4. result = [headers |-> g, reset |-> r]
  BY <1>1, <1>2, SMT DEF LoadHeaderStatement, ModeHeaders
<1> HIDE DEF g, r, result
<1>5. result.headers = g /\ result.reset = r
  BY <1>4
<1>6. step = result /\ either = r
  BY <1>3, Zenon DEF r, result
<1> QED
  BY <1>5, <1>6, Zenon DEF g

LEMMA BlankEffect ==
  ASSUME NEW token, NEW g, ProperHeaders(g), NEW reset,
         NEW step,
         step = LoadHeaderStatement(InHeader("blank_prefixes_mode", token), g, reset)
  PROVE  /\ step.reset = reset
         /\ step.headers.all = g.all /\ step.headers.values = g.values
<1> DEFINE st == InHeader("blank_prefixes_mode", token)
           b == g.blank \/ IsTrueValue(token)
           result == LoadHeaderStatement(st, g, reset)
           changed == SetBlank(g, b)
<1>1. st.name = "blank_prefixes_mode" /\ st.args[1] = token
  BY HeaderStatementParts, Zenon
<1> HIDE DEF st
<1>2. result = [headers |-> changed, reset |-> reset]
  BY <1>1, SMT DEF LoadHeaderStatement, SetBlank
<1>3. step = result
  BY DEF st
<1>4. changed.all = g.all /\ changed.values = g.values
  <2> HIDE DEF b
  <2>1. g = HeaderList(g.all, g.noX, g.blank, g.values)
    BY DEF ProperHeaders, HeaderList
  <2>3. changed = HeaderList(g.all, g.noX, b, g.values)
    BY <2>1, ListUpdates, SMT
  <2> HIDE DEF changed
  <2> QED
    BY <2>3, SMT DEF HeaderList
<1> HIDE DEF result, changed
<1>5. result.headers = changed /\ result.reset = reset
  BY <1>2
<1> QED
  BY <1>3, <1>4, <1>5, Zenon

LEMMA AddedHeader ==
  ASSUME NEW g, ProperHeaders(g), NEW n, NEW a, NEW b,
         NEW t, t = AddHeaderPrefix(g, n, a, b)
  PROVE  t.all = g.all /\ t.values = (g.values @@ (n :> <<a, b>>))
<1> DEFINE f == g.values @@ (n :> <<a, b>>)
<1>1. t = SetValues(g, f)
  BY SMT DEF AddHeaderPrefix, SetValues
<1>2. g = HeaderList(g.all, g.noX, g.blank, g.values)
  BY DEF ProperHeaders, HeaderList
<1> HIDE DEF f
<1>4. t = HeaderList(g.all, g.noX, g.blank, f)
  BY <1>1, <1>2, ListUpdates, SMT
<1>5. t.all = g.all /\ t.values = f
  BY <1>4, SMT DEF HeaderList
<1> QED
  BY <1>5 DEF f

LEMMA PrefixEffect ==
  ASSUME NEW h, NEW n, n \notin Unquotable,
         h.values[n][1] \notin Unquotable, h.values[n][2] \notin Unquotable,
         NEW g, ProperHeaders(g), NEW reset \in BOOLEAN,
         NEW step, step = LoadHeaderStatement(Prefixed(h, n), g, reset)
  PROVE  /\ step.reset /\ step.reset \in BOOLEAN
         /\ reset => /\ step.headers.all = g.all
                     /\ step.headers.values =
                          (g.values @@ (n :> <<h.values[n][1], h.values[n][2]>>))
         /\ ~reset => /\ ~step.headers.all
                      /\ step.headers.values =
                          (<<>> @@ (n :> <<h.values[n][1], h.values[n][2]>>))
<1> DEFINE st == Prefixed(h, n)
           list == IF reset THEN g ELSE NoHeaders
           a == h.values[n][1]
           b == h.values[n][2]
           added == AddHeaderPrefix(list, n, a, b)
           result == LoadHeaderStatement(st, g, reset)
<1>1. /\ st.name = "full_prefix"
      /\ st.args[1].string = n /\ st.args[2].string = a /\ st.args[3].string = b
  <2>1. /\ st.name = "full_prefix"
        /\ st.args[1] = StringToken(n)
        /\ st.args[2] = StringToken(a)
        /\ st.args[3] = StringToken(b)
    BY PrefixedParts, Zenon
  <2>2. \A str : str \notin Unquotable => StringToken(str).string = str
    BY TokensRead
  <2> QED
    BY <2>1, <2>2, Zenon
<1> HIDE DEF st, a, b
<1> DEFINE yes == TRUE
<1>2. result = [headers |-> added, reset |-> yes]
  BY <1>1, SMT DEF LoadHeaderStatement
<1>3. step = result
  BY DEF st
<1>4. ProperHeaders(list)
  BY ProperModes
<1>5. ~NoHeaders.all /\ NoHeaders.values = <<>>
  BY SMT DEF NoHeaders
<1> HIDE DEF result, added, yes, list
<1>6. result.headers = added /\ result.reset = yes
  BY <1>2
<1>7. added.all = list.all /\ added.values = (list.values @@ (n :> <<a, b>>))
  BY <1>4, AddedHeader DEF added
<1>10. yes /\ yes \in BOOLEAN
  BY DEF yes
<1>11. step.reset /\ step.reset \in BOOLEAN
  BY <1>3, <1>6, <1>10, Zenon
<1>8. CASE reset
  <2>1. list = g
    BY <1>8 DEF list
  <2> QED
    BY <1>3, <1>6, <1>7, <1>8, <1>11, <2>1, Zenon DEF a, b
<1>9. CASE ~reset
  <2>1. list = NoHeaders
    BY <1>9 DEF list
  <2> QED
    BY <1>3, <1>5, <1>6, <1>7, <1>9, <1>11, <2>1, Zenon DEF a, b
<1> QED
  BY <1>8, <1>9

LEMMA PartStart == \A h : PrintedPart(h, 0) = <<>>
<1> TAKE h
<1> DEFINE S == {PrintedNames(h)[i] : i \in 1..0}
           f == [name \in S |-> h.values[name]]
<1>1. S = {}
  BY SMT
<1>2. PrintedPart(h, 0) = f
  BY DEF PrintedPart
<1> HIDE DEF S
<1>3. DOMAIN f = {} /\ f = [x \in {} |-> f[x]]
  BY <1>1
<1>4. f = <<>>
  BY <1>3
<1> QED
  BY <1>2, <1>4

LEMMA PartGrows ==
  ASSUME NEW h, NEW n \in Nat, NEW v, v = h.values[PrintedNames(h)[n + 1]]
  PROVE  (PrintedPart(h, n) @@ (PrintedNames(h)[n + 1] :> v)) = PrintedPart(h, n + 1)
<1> DEFINE names == PrintedNames(h)
           new == names[n + 1]
           S == {names[i] : i \in 1..n}
           T == {names[i] : i \in 1..(n + 1)}
<1>1. T = S \cup {new}
  <2>1. 1..(n + 1) = (1..n) \cup {n + 1}
    OBVIOUS
  <2> QED
    BY <2>1
<1>2. PrintedPart(h, n) = [x \in S |-> h.values[x]]
  BY DEF PrintedPart
<1>3. PrintedPart(h, n + 1) = [x \in T |-> h.values[x]]
  BY DEF PrintedPart
<1> HIDE DEF new, S, T
<1> DEFINE f == [x \in S |-> h.values[x]]
           g == [m \in {new} |-> v]
<1>4. (f @@ g) = [x \in T |-> h.values[x]]
  <2>1. (f @@ g) = [m \in DOMAIN f \cup DOMAIN g |->
                      IF m \in DOMAIN f THEN f[m] ELSE g[m]]
    BY Zenon DEF @@
  <2>2. DOMAIN f = S /\ DOMAIN g = {new}
    OBVIOUS
  <2>3. \A m \in T : (IF m \in DOMAIN f THEN f[m] ELSE g[m]) = h.values[m]
    BY <1>1, <2>2 DEF new
  <2> QED
    BY <1>1, <2>1, <2>2, <2>3
<1> QED
  BY <1>2, <1>3, <1>4, Zenon DEF :>, new

------------------------------------------------------------------------------
(* The headers come back statement by statement. *)

Fewer(a, b) == IF a < b THEN a ELSE b

LEMMA HeadersBackIs ==
  ASSUME NEW h, NEW k, NEW reset, NEW g
  PROVE  /\ h.all => (HeadersBack(h, k, reset, g) <=> (k >= 3 => g.all))
         /\ ~h.all /\ DOMAIN h.values = {} =>
              (HeadersBack(h, k, reset, g) <=> (k >= 4 => ~g.all /\ g.values = <<>>))
         /\ ~h.all /\ DOMAIN h.values # {} /\ k <= 4 =>
              (HeadersBack(h, k, reset, g) <=> (k >= 0 => ~reset))
         /\ ~h.all /\ DOMAIN h.values # {} /\ ~(k <= 4) =>
              (HeadersBack(h, k, reset, g) <=>
                 /\ reset /\ ~g.all
                 /\ g.values = PrintedPart(h, Fewer(k - 4, Len(PrintedNames(h)))))
  BY Zenon DEF HeadersBack, Fewer

LEMMA HeadersBackLater ==
  ASSUME NEW h, ~h.all, DOMAIN h.values # {}, NEW k, ~(k <= 4),
         NEW n, Fewer(k - 4, Len(PrintedNames(h))) = n, NEW reset, NEW g
  PROVE  HeadersBack(h, k, reset, g) <=>
           reset /\ ~g.all /\ g.values = PrintedPart(h, n)
<1> DEFINE m == Fewer(k - 4, Len(PrintedNames(h)))
<1>1. HeadersBack(h, k, reset, g) <=> reset /\ ~g.all /\ g.values = PrintedPart(h, m)
  BY HeadersBackIs, Zenon
<1>2. m = n
  OBVIOUS
<1> HIDE DEF m
<1> QED
  BY <1>1, <1>2, Zenon

LEMMA ModeStep ==
  ASSUME NEW h, ProperHeaders(h), NEW g, ProperHeaders(g), NEW reset \in BOOLEAN,
         NEW k \in 1..4, HeadersBack(h, k - 1, reset, g),
         NEW step, step = LoadHeaderStatement(HeaderStatements(h)[k], g, reset)
  PROVE  HeadersBack(h, k, step.reset, step.headers) /\ step.reset \in BOOLEAN
<1> DEFINE list == HeaderStatements(h)
           noX == h.all /\ h.noX
           none == ~h.all /\ DOMAIN h.values = {}
<1>0. /\ list[1] = InHeader("blank_prefixes_mode", BoolToken(h.blank))
      /\ list[2] = InHeader("ignore_x_headers_mode", BoolToken(noX))
      /\ list[3] = InHeader("all_headers_mode", BoolToken(h.all))
      /\ list[4] = InHeader("no_headers_mode", BoolToken(none))
  BY HeaderParts, Zenon
<1>1. h.all \in BOOLEAN /\ h.noX \in BOOLEAN /\ noX \in BOOLEAN /\ none \in BOOLEAN
  BY DEF ProperHeaders
<1>2. /\ IsTrueValue(BoolToken(h.all)) = h.all
      /\ IsTrueValue(BoolToken(noX)) = noX
      /\ IsTrueValue(BoolToken(none)) = none
  BY <1>1, TokensRead, Zenon
<1>10. /\ NonXHeaders.all /\ AllHeaders.all
       /\ ~NoHeaders.all /\ NoHeaders.values = <<>>
  BY SMT DEF NonXHeaders, AllHeaders, NoHeaders
<1>3. step = LoadHeaderStatement(list[k], g, reset)
  OBVIOUS
<1> HIDE DEF list
<1>4. CASE k = 1
  <2>1. step = LoadHeaderStatement(InHeader("blank_prefixes_mode", BoolToken(h.blank)), g, reset)
    BY <1>0, <1>3, <1>4
  <2>2. step.reset = reset /\ step.headers.all = g.all /\ step.headers.values = g.values
    BY <2>1, BlankEffect
  <2>3. ~h.all /\ DOMAIN h.values # {} => ~reset
    <3>1. k - 1 <= 4 /\ k - 1 >= 0
      BY <1>4
    <3> QED
      BY <3>1, HeadersBackIs, Zenon
  <2>4. ~(k >= 3) /\ ~(k >= 4) /\ k <= 4
    BY <1>4
  <2> QED
    BY <2>2, <2>3, <2>4, HeadersBackIs, Zenon
<1>5. CASE k = 2
  <2> DEFINE either == reset \/ noX
             token == BoolToken(noX)
  <2>1. step = LoadHeaderStatement(InHeader("ignore_x_headers_mode", token), g, reset)
    BY <1>0, <1>3, <1>5
  <2>2. IsTrueValue(token) = noX /\ "ignore_x_headers_mode" \in ModeNames
    BY <1>2, ModesAre
  <2> HIDE DEF token
  <2>3. either = (reset \/ IsTrueValue(token))
    BY <1>1, <2>2
  <2>4. either \in BOOLEAN /\ (~h.all /\ ~reset => ~either)
    BY <1>1
  <2> HIDE DEF either
  <2>5. step.reset = either
    BY <2>1, <2>2, <2>3, ModeEffects
  <2>6. ~h.all /\ DOMAIN h.values # {} => ~reset
    <3>1. k - 1 <= 4 /\ k - 1 >= 0
      BY <1>5
    <3> QED
      BY <3>1, HeadersBackIs, Zenon
  <2>7. ~(k >= 3) /\ ~(k >= 4) /\ k <= 4
    BY <1>5
  <2> QED
    BY <2>4, <2>5, <2>6, <2>7, HeadersBackIs, Zenon
<1>6. CASE k = 3
  <2> DEFINE either == reset \/ h.all
             token == BoolToken(h.all)
  <2>1. step = LoadHeaderStatement(InHeader("all_headers_mode", token), g, reset)
    BY <1>0, <1>3, <1>6
  <2>2. IsTrueValue(token) = h.all /\ "all_headers_mode" \in ModeNames
    BY <1>2, ModesAre
  <2>9. ModeHeaders["all_headers_mode"] = AllHeaders
    BY ModesAre
  <2> HIDE DEF token
  <2>3. either = (reset \/ IsTrueValue(token))
    BY <1>1, <2>2
  <2>4. either \in BOOLEAN /\ (~h.all /\ ~reset => ~either)
    BY <1>1
  <2> HIDE DEF either
  <2>5. /\ step.reset = either
        /\ step.headers = IF IsTrueValue(token) THEN ModeHeaders["all_headers_mode"] ELSE g
    BY <2>1, <2>2, <2>3, ModeEffects
  <2>8. h.all => step.headers.all
    BY <1>10, <2>2, <2>5, <2>9, Zenon
  <2>6. ~h.all /\ DOMAIN h.values # {} => ~reset
    <3>1. k - 1 <= 4 /\ k - 1 >= 0
      BY <1>6
    <3> QED
      BY <3>1, HeadersBackIs, Zenon
  <2>7. ~(k >= 4) /\ k <= 4
    BY <1>6
  <2> QED
    BY <2>4, <2>5, <2>6, <2>7, <2>8, HeadersBackIs, Zenon
<1>7. CASE k = 4
  <2> DEFINE either == reset \/ none
             token == BoolToken(none)
  <2>1. step = LoadHeaderStatement(InHeader("no_headers_mode", token), g, reset)
    BY <1>0, <1>3, <1>7
  <2>2. IsTrueValue(token) = none /\ "no_headers_mode" \in ModeNames
    BY <1>2, ModesAre
  <2>9. ModeHeaders["no_headers_mode"] = NoHeaders
    BY ModesAre
  <2> HIDE DEF token
  <2>3. either = (reset \/ IsTrueValue(token))
    BY <1>1, <2>2
  <2>4. either \in BOOLEAN /\ (~none /\ ~reset => ~either)
    BY <1>1
  <2> HIDE DEF either
  <2>5. /\ step.reset = either
        /\ step.headers = IF IsTrueValue(token) THEN ModeHeaders["no_headers_mode"] ELSE g
    BY <2>1, <2>2, <2>3, ModeEffects
  <2>8. /\ none => ~step.headers.all /\ step.headers.values = <<>>
        /\ ~none => step.headers = g
    BY <1>10, <2>2, <2>5, <2>9, Zenon
  <2>6. /\ ~h.all /\ DOMAIN h.values # {} => ~reset
        /\ h.all => g.all
    <3>1. k - 1 <= 4 /\ k - 1 >= 0 /\ k - 1 >= 3
      BY <1>7
    <3> QED
      BY <3>1, HeadersBackIs, Zenon
  <2>7. k <= 4 /\ k >= 0
    BY <1>7
  <2>10. CASE h.all
    BY <2>4, <2>5, <2>6, <2>8, <2>10, HeadersBackIs, Zenon
  <2>11. CASE ~h.all /\ DOMAIN h.values = {}
    BY <2>4, <2>5, <2>8, <2>11, HeadersBackIs, Zenon
  <2>12. CASE ~h.all /\ DOMAIN h.values # {}
    BY <2>4, <2>5, <2>6, <2>7, <2>12, HeadersBackIs, Zenon
  <2> QED
    BY <2>10, <2>11, <2>12, Zenon
<1> QED
  BY <1>4, <1>5, <1>6, <1>7

LEMMA PrefixStep ==
  ASSUME NEW o, Proper(o), Printable(o), NEW h, h = o.headers, PrintsHeaders(h),
         NEW g, ProperHeaders(g), NEW reset \in BOOLEAN,
         NEW i \in 1..Len(PrintedNames(h)), HeadersBack(h, 3 + i, reset, g),
         NEW step, step = LoadHeaderStatement(HeaderStatements(h)[4 + i], g, reset)
  PROVE  HeadersBack(h, 4 + i, step.reset, step.headers) /\ step.reset \in BOOLEAN
<1>1. ProperHeaders(h)
  BY ProperHas, Zenon
<1> DEFINE n == PrintedNames(h)[i]
           most == Len(PrintedNames(h))
           v == <<h.values[n][1], h.values[n][2]>>
<1>2. most \in Nat /\ HeaderStatements(h)[4 + i] = Prefixed(h, n)
  BY <1>1, HeaderParts
<1>3. n \in HeaderNames /\ n \in DOMAIN h.values
  BY <1>1, PrintedNamesAre
<1>4. ~h.all
  BY <1>1, PrintedNamesAre
<1>5. DOMAIN h.values # {}
  BY <1>3
<1>6. n \notin Unquotable /\ h.values[n][1] \notin Unquotable /\ h.values[n][2] \notin Unquotable
  <2>1. n \notin Unquotable
    BY <1>3, TokensAssumption
  <2> QED
    BY <1>3, <2>1, PrintableHas, Zenon
<1>7. v = h.values[n]
  <2>1. \A x \in DOMAIN h.values : h.values[x] = <<h.values[x][1], h.values[x][2]>>
    <3>1. h.values = [x \in DOMAIN h.values |-> <<h.values[x][1], h.values[x][2]>>]
      BY <1>1, Zenon DEF ProperHeaders
    <3> DEFINE f == [x \in DOMAIN h.values |-> <<h.values[x][1], h.values[x][2]>>]
    <3>2. \A x \in DOMAIN h.values : f[x] = <<h.values[x][1], h.values[x][2]>>
      OBVIOUS
    <3>3. h.values = f
      BY <3>1
    <3> HIDE DEF f
    <3> QED
      BY <3>2, <3>3, Zenon
  <2> QED
    BY <1>3, <2>1, Zenon
<1>8. step = LoadHeaderStatement(Prefixed(h, n), g, reset)
  BY <1>2
<1> DEFINE grown == PrintedPart(h, i - 1) @@ (n :> v)
<1>9. grown = PrintedPart(h, i)
  <2> DEFINE m == i - 1
  <2>1. m \in Nat /\ m + 1 = i
    OBVIOUS
  <2> HIDE DEF m, v
  <2>2. (PrintedPart(h, m) @@ (PrintedNames(h)[m + 1] :> v)) = PrintedPart(h, m + 1)
    BY <1>7, <2>1, PartGrows
  <2> QED
    BY <2>1, <2>2 DEF m
<1>10. /\ step.reset /\ step.reset \in BOOLEAN
       /\ reset => /\ step.headers.all = g.all
                   /\ step.headers.values = (g.values @@ (n :> v))
       /\ ~reset => ~step.headers.all /\ step.headers.values = (<<>> @@ (n :> v))
  <2> HIDE DEF n
  <2> QED
    BY <1>6, <1>8, PrefixEffect
<1> HIDE DEF v, n
<1>11. ~step.headers.all /\ step.headers.values = grown
  <2>1. CASE i = 1
    <3>1. 3 + i <= 4 /\ 3 + i >= 0 /\ i - 1 = 0
      BY <2>1
    <3>2. ~reset
      BY <1>4, <1>5, <3>1, HeadersBackIs, Zenon
    <3>3. PrintedPart(h, i - 1) = <<>>
      BY <3>1, PartStart
    <3> QED
      BY <1>10, <3>2, <3>3, Zenon
  <2>2. CASE i # 1
    <3>1. ~(3 + i <= 4) /\ Fewer(3 + i - 4, most) = i - 1
      BY <1>2, <2>2 DEF Fewer
    <3>2. reset /\ ~g.all /\ g.values = PrintedPart(h, i - 1)
      <4> DEFINE m == i - 1
                 k == 3 + i
      <4>1. HeadersBack(h, k, reset, g) /\ ~(k <= 4)
            /\ Fewer(k - 4, Len(PrintedNames(h))) = m
        BY <3>1
      <4> HIDE DEF k, m
      <4>2. reset /\ ~g.all /\ g.values = PrintedPart(h, m)
        BY <1>4, <1>5, <4>1, HeadersBackLater
      <4> QED
        BY <4>2 DEF m
    <3> QED
      BY <1>10, <3>2, Zenon
  <2> QED
    BY <2>1, <2>2
<1>12. ~(4 + i <= 4) /\ Fewer(4 + i - 4, most) = i
  BY <1>2 DEF Fewer
<1> HIDE DEF grown
<1>13. HeadersBack(h, 4 + i, step.reset, step.headers)
  <2> DEFINE k == 4 + i
             r == step.reset
             f == step.headers
  <2>1. ~(k <= 4) /\ Fewer(k - 4, Len(PrintedNames(h))) = i
    BY <1>12
  <2>2. r /\ ~f.all /\ f.values = PrintedPart(h, i)
    BY <1>9, <1>10, <1>11, Zenon
  <2> HIDE DEF k, r, f
  <2>3. HeadersBack(h, k, r, f)
    <3>1. HeadersBack(h, k, r, f) <=> r /\ ~f.all /\ f.values = PrintedPart(h, i)
      BY <1>4, <1>5, <2>1, HeadersBackLater
    <3> QED
      BY <2>2, <3>1, Zenon
  <2> QED
    BY <2>3 DEF k, r, f
<1> QED
  BY <1>10, <1>13, Zenon

------------------------------------------------------------------------------
(* Where the statements stand in a file that was written. *)

IsJoined(a, b, list) == list = a \o b
PartsOf(a, b, list) ==
  /\ Len(list) = Len(a) + Len(b) /\ Len(a) \in Nat /\ Len(b) \in Nat
  /\ DOMAIN list = 1..Len(list)
  /\ \A i \in 1..Len(a) : list[i] = a[i]
  /\ \A i \in 1..Len(b) : list[Len(a) + i] = b[i]

LEMMA JoinedPartsOf ==
  ASSUME NEW a, IsList(a), NEW b, IsList(b), NEW list, IsJoined(a, b, list)
  PROVE  IsList(list) /\ PartsOf(a, b, list)
<1>1. list = a \o b
  BY DEF IsJoined
<1>2. IsList(list)
  BY <1>1, JoinedElements
<1>3. PartsOf(a, b, list)
  BY <1>1, JoinedParts DEF PartsOf
<1> QED
  BY <1>2, <1>3

LEMMA FourJoined ==
  ASSUME NEW a, IsList(a), NEW b, IsList(b), NEW c, IsList(c),
         NEW ab, IsJoined(a, b, ab), NEW list, IsJoined(ab, c, list)
  PROVE  /\ Len(a) \in Nat /\ Len(b) \in Nat /\ Len(list) \in Nat
         /\ DOMAIN list = 1..Len(list) /\ Len(list) >= Len(a) + Len(b)
         /\ \A i \in 1..Len(a) : list[i] = a[i]
         /\ \A i \in 1..Len(b) : list[Len(a) + i] = b[i]
         /\ \A i \in 1..Len(list) :
              i > Len(a) + Len(b) => list[i] \in Elements(c)
<1>10. IsList(ab) /\ PartsOf(a, b, ab)
  BY JoinedPartsOf, Zenon
<1>11. PartsOf(ab, c, list)
  BY <1>10, JoinedPartsOf, Zenon
<1>1. /\ Len(ab) = Len(a) + Len(b)
      /\ Len(a) \in Nat /\ Len(b) \in Nat
      /\ \A i \in 1..Len(a) : ab[i] = a[i]
      /\ \A i \in 1..Len(b) : ab[Len(a) + i] = b[i]
  BY <1>10, Zenon DEF PartsOf
<1>2. /\ Len(list) = Len(ab) + Len(c) /\ Len(c) \in Nat
      /\ DOMAIN list = 1..Len(list)
      /\ \A i \in 1..Len(ab) : list[i] = ab[i]
      /\ \A i \in 1..Len(c) : list[Len(ab) + i] = c[i]
  BY <1>11, Zenon DEF PartsOf
<1> DEFINE p == Len(a)
           q == Len(b)
           r == Len(c)
<1>3. p \in Nat /\ q \in Nat /\ r \in Nat /\ Len(ab) = p + q /\ Len(list) = p + q + r
  BY <1>1, <1>2
<1>4. \A i \in 1..p : list[i] = a[i]
  <2> SUFFICES ASSUME NEW i \in 1..p PROVE list[i] = a[i]
    OBVIOUS
  <2>1. i \in 1..Len(ab)
    BY <1>3
  <2> QED
    BY <1>1, <1>2, <2>1
<1>5. \A i \in 1..q : list[p + i] = b[i]
  <2> SUFFICES ASSUME NEW i \in 1..q PROVE list[p + i] = b[i]
    OBVIOUS
  <2>1. p + i \in 1..Len(ab)
    BY <1>3
  <2>2. ab[p + i] = b[i]
    BY <1>1
  <2> QED
    BY <1>2, <2>1, <2>2
<1>6. ASSUME NEW i \in 1..Len(list), i > p + q PROVE list[i] \in Elements(c)
  <2> DEFINE k == i - Len(ab)
  <2>1. k \in 1..r /\ i = Len(ab) + k
    BY <1>3, <1>6
  <2> HIDE DEF k
  <2>2. list[i] = c[k]
    BY <1>2, <2>1
  <2> QED
    BY <2>1, <2>2 DEF Elements
<1> HIDE DEF p, q, r
<1>7. Len(list) \in Nat /\ Len(list) >= Len(a) + Len(b)
  BY <1>3 DEF p, q
<1> QED
  BY <1>1, <1>2, <1>4, <1>5, <1>6, <1>7 DEF p, q

LEMMA PlainlyPassing ==
  ASSUME NEW o, Printable(o), NEW st \in Elements(ParserStatements(o)), Plainly(st)
  PROVE  Passing(st)
<1> DEFINE first == InParser("replace_non_ascii", BoolToken(Replaces(o)))
           second == InParser("non_ascii_replacement", StringToken(o.nonAscii))
           end == Statement("parser", "header", <<>>)
<1>1. \/ st = first
      \/ Replaces(o) /\ st = second
      \/ st \in Elements(ParserRest(o))
  <2>1. Elements(ParserStatements(o)) = Elements(ParserFirst(o)) \cup Elements(ParserRest(o))
    BY ParserParts
  <2>2. Elements(ParserFirst(o)) =
              {first} \cup (IF Replaces(o) THEN {second} ELSE {})
    BY ParserParts
  <2> HIDE DEF first, second
  <2> QED
    BY <2>1, <2>2
<1>2. st # end
  <2>1. end.name = "header"
    BY SMT DEF Statement
  <2> QED
    BY <2>1 DEF Plainly
<1>3. \A name \in ParserSwitches \cup ParserNumbers \cup ParserStrings :
        \A token : (name # "non_ascii_replacement" => Passing(InParser(name, token)))
  BY ParserPassing, Zenon
<1>4. CASE st = first
  <2>1. "replace_non_ascii" \in ParserSwitches /\ "replace_non_ascii" # "non_ascii_replacement"
    BY SMT DEF ParserSwitches
  <2> QED
    BY <1>3, <1>4, <2>1, Zenon
<1>5. CASE Replaces(o) /\ st = second
  <2>1. "non_ascii_replacement" \in ParserStrings
    BY SMT DEF ParserStrings
  <2>2. Textual(StringToken(o.nonAscii))
    <3>1. o.nonAscii \notin Unquotable
      BY PrintableHas, Zenon
    <3>2. StringToken(o.nonAscii).string = o.nonAscii
      BY <3>1, TokensRead
    <3>3. o.nonAscii # ""
      BY <1>5 DEF Replaces
    <3> QED
      BY <3>2, <3>3, Zenon DEF Textual
  <2>3. Passing(second)
    BY <2>1, <2>2, ParserPassing, Zenon
  <2> QED
    BY <1>5, <2>3
<1>6. CASE st \in Elements(ParserRest(o))
  <2>1. \/ st = InParser("min_term_length", IntToken(o.minTermLength))
        \/ st = InParser("max_term_length", IntToken(o.maxTermLength))
        \/ st = InParser("remove_html", BoolToken(o.removeHTML))
        \/ st = InParser("min_phrase_terms", IntToken(o.minPhraseTerms))
        \/ st = InParser("max_phrase_terms", IntToken(o.maxPhraseTerms))
        \/ st = InParser("max_phrase_chars", IntToken(o.maxPhraseChars))
        \/ st = InParser("min_phrase_chars", IntToken(o.minPhraseChars))
        \/ st = InParser("max_message_terms", IntToken(o.maxTermsPerMessage))
        \/ st = InParser("spamprobe_field_name", StringToken(o.fieldName))
        \/ st = InParser("keep_suspicious_tags", BoolToken(o.keepSuspiciousTags))
        \/ st = InParser("ignore_body", BoolToken(o.ignoreBody))
        \/ st = end
    <3> DEFINE all ==
              {InParser("min_term_length", IntToken(o.minTermLength)),
               InParser("max_term_length", IntToken(o.maxTermLength)),
               InParser("remove_html", BoolToken(o.removeHTML)),
               InParser("min_phrase_terms", IntToken(o.minPhraseTerms)),
               InParser("max_phrase_terms", IntToken(o.maxPhraseTerms)),
               InParser("max_phrase_chars", IntToken(o.maxPhraseChars)),
               InParser("min_phrase_chars", IntToken(o.minPhraseChars)),
               InParser("max_message_terms", IntToken(o.maxTermsPerMessage)),
               InParser("spamprobe_field_name", StringToken(o.fieldName)),
               InParser("keep_suspicious_tags", BoolToken(o.keepSuspiciousTags)),
               InParser("ignore_body", BoolToken(o.ignoreBody)),
               end}
    <3>1. Elements(ParserRest(o)) = all
      BY ParserParts, Zenon
    <3>2. st \in all
      <4> HIDE DEF all
      <4> QED
        BY <1>6, <3>1
    <3> HIDE DEF end
    <3> QED
      BY <3>2
  <2>2. /\ "min_term_length" \in ParserNumbers /\ "max_term_length" \in ParserNumbers
        /\ "min_phrase_terms" \in ParserNumbers /\ "max_phrase_terms" \in ParserNumbers
        /\ "max_phrase_chars" \in ParserNumbers /\ "min_phrase_chars" \in ParserNumbers
        /\ "max_message_terms" \in ParserNumbers
        /\ "remove_html" \in ParserSwitches /\ "keep_suspicious_tags" \in ParserSwitches
        /\ "ignore_body" \in ParserSwitches /\ "spamprobe_field_name" \in ParserStrings
    BY SMT DEF ParserNumbers, ParserSwitches, ParserStrings
  <2>3. /\ "min_term_length" # "non_ascii_replacement"
        /\ "max_term_length" # "non_ascii_replacement"
        /\ "min_phrase_terms" # "non_ascii_replacement"
        /\ "max_phrase_terms" # "non_ascii_replacement"
        /\ "max_phrase_chars" # "non_ascii_replacement"
        /\ "min_phrase_chars" # "non_ascii_replacement"
        /\ "max_message_terms" # "non_ascii_replacement"
        /\ "remove_html" # "non_ascii_replacement"
        /\ "keep_suspicious_tags" # "non_ascii_replacement"
        /\ "ignore_body" # "non_ascii_replacement"
        /\ "spamprobe_field_name" # "non_ascii_replacement"
    BY SMT
  <2> HIDE DEF end
  <2>4. \A token :
          /\ Passing(InParser("min_term_length", token))
          /\ Passing(InParser("max_term_length", token))
          /\ Passing(InParser("min_phrase_terms", token))
          /\ Passing(InParser("max_phrase_terms", token))
          /\ Passing(InParser("max_phrase_chars", token))
          /\ Passing(InParser("min_phrase_chars", token))
          /\ Passing(InParser("max_message_terms", token))
          /\ Passing(InParser("remove_html", token))
          /\ Passing(InParser("keep_suspicious_tags", token))
          /\ Passing(InParser("ignore_body", token))
          /\ Passing(InParser("spamprobe_field_name", token))
    BY <1>3, <2>2, <2>3, Zenon
  <2> QED
    BY <1>2, <2>1, <2>4, Zenon
<1> QED
  BY <1>1, <1>4, <1>5, <1>6, Zenon

LEMMA LaterPassing ==
  ASSUME NEW o,
         NEW st \in Elements(FilterStatements(o)) \cup Elements(DatabaseStatements(o))
  PROVE  Passing(st)
<1>1. CASE st \in Elements(FilterStatements(o))
  <2> DEFINE all ==
           {InFilter("score_mode", IdToken(o.scoreMode)),
            InFilter("good_bias", IntToken(o.goodBias)),
            InFilter("terms_for_score", IntToken(o.termsForScore)),
            InFilter("max_word_repeats", IntToken(o.maxWordRepeats)),
            InFilter("min_word_count", IntToken(o.minWordCount)),
            InFilter("extend_top_terms", BoolToken(o.extendTopTerms)),
            InFilter("min_array_size", IntToken(o.minArraySize)),
            InFilter("water_counts", BoolToken(o.waterCounts)),
            InFilter("new_word_score", DoubleToken(o.newWordScore)),
            InFilter("spam_threshold", DoubleToken(o.spamThreshold)),
            InFilter("min_distance_for_score", DoubleToken(o.minDistance))}
  <2>1. Elements(FilterStatements(o)) = all
    BY FilterElements, Zenon
  <2>2. st \in all
    <3> HIDE DEF all
    <3> QED
      BY <1>1, <2>1
  <2>3. /\ "score_mode" \in {"score_mode"}
        /\ "good_bias" \in FilterNumbers /\ "terms_for_score" \in FilterNumbers
        /\ "max_word_repeats" \in FilterNumbers /\ "min_word_count" \in FilterNumbers
        /\ "min_array_size" \in FilterNumbers
        /\ "extend_top_terms" \in FilterSwitches /\ "water_counts" \in FilterSwitches
        /\ "new_word_score" \in FilterFractions /\ "spam_threshold" \in FilterFractions
        /\ "min_distance_for_score" \in FilterFractions
    BY SMT DEF FilterNumbers, FilterSwitches, FilterFractions
  <2>4. \A token :
          /\ Passing(InFilter("score_mode", token))
          /\ Passing(InFilter("good_bias", token))
          /\ Passing(InFilter("terms_for_score", token))
          /\ Passing(InFilter("max_word_repeats", token))
          /\ Passing(InFilter("min_word_count", token))
          /\ Passing(InFilter("min_array_size", token))
          /\ Passing(InFilter("extend_top_terms", token))
          /\ Passing(InFilter("water_counts", token))
          /\ Passing(InFilter("new_word_score", token))
          /\ Passing(InFilter("spam_threshold", token))
          /\ Passing(InFilter("min_distance_for_score", token))
    BY <2>3, FilterPassing, Zenon
  <2> QED
    BY <2>2, <2>4, Zenon
<1>2. CASE st \in Elements(DatabaseStatements(o))
  <2> DEFINE all ==
           {InDatabase("type", IdToken(TypeName(o.type))),
            InDatabase("private_filename", StringToken(o.private)),
            InDatabase("shared_filename", StringToken(o.shared)),
            InDatabase("target_size_mb", IntToken(o.targetSizeMB)),
            InDatabase("max_cache_terms", IntToken(o.maxCacheTerms))}
  <2>1. Elements(DatabaseStatements(o)) = all
    BY DatabaseElements, Zenon
  <2>2. st \in all
    <3> HIDE DEF all
    <3> QED
      BY <1>2, <2>1
  <2>3. /\ "type" \in {"type"}
        /\ "private_filename" \in DatabaseStrings /\ "shared_filename" \in DatabaseStrings
        /\ "target_size_mb" \in DatabaseNumbers /\ "max_cache_terms" \in DatabaseNumbers
    BY SMT DEF DatabaseStrings, DatabaseNumbers
  <2>4. \A token :
          /\ Passing(InDatabase("type", token))
          /\ Passing(InDatabase("private_filename", token))
          /\ Passing(InDatabase("shared_filename", token))
          /\ Passing(InDatabase("target_size_mb", token))
          /\ Passing(InDatabase("max_cache_terms", token))
    BY <2>3, DatabasePassing, Zenon
  <2> QED
    BY <2>2, <2>4, Zenon
<1> QED
  BY <1>1, <1>2

BeginsHeaders(st) == st = Statement("parser", "header", <<>>)
Follows(list, p, part) == \A k \in 1..Len(part) : list[p + k] = part[k]

LEMMA Positions ==
  ASSUME NEW o, Proper(o), Printable(o), NEW list, list = WholeList(o),
         NEW p, p = Len(ParserStatements(o)),
         NEW c, c = Len(HeaderStatements(o.headers))
  PROVE  /\ p \in Nat /\ c \in Nat /\ Len(list) \in Nat /\ DOMAIN list = 1..Len(list)
         /\ p > 0 /\ Len(list) >= p + c /\ c = 4 + Len(PrintedNames(o.headers))
         /\ \A i \in 1..(p - 1) : Passing(list[i])
         /\ BeginsHeaders(list[p])
         /\ Follows(list, p, HeaderStatements(o.headers))
         /\ \A i \in 1..Len(list) : i > p + c => Passing(list[i])
<1> DEFINE a == ParserStatements(o)
           b == HeaderStatements(o.headers)
           d == FilterStatements(o)
           e == DatabaseStatements(o)
           ab == a \o b
           de == d \o e
<1>1. IsList(a) /\ IsList(b) /\ IsList(d) /\ IsList(e)
  BY ListsOfStatements, Zenon
<1>2. IsJoined(ab, de, list)
  BY DEF WholeList, IsJoined
<1>3. Len(b) = 4 + Len(PrintedNames(o.headers))
  <2>1. ProperHeaders(o.headers)
    BY ProperHas, Zenon
  <2> QED
    BY <2>1, HeaderParts
<1>4. /\ Len(a) > 0
      /\ a[Len(a)] = Statement("parser", "header", <<>>)
      /\ \A i \in 1..(Len(a) - 1) : Plainly(a[i])
  BY ParserEnd DEF Plainly
<1>5. \A st \in Elements(a) : Plainly(st) => Passing(st)
  BY PlainlyPassing
<1>6. \A st \in Elements(d) \cup Elements(e) : Passing(st)
  BY LaterPassing
<1>10. p = Len(a) /\ c = Len(b)
  OBVIOUS
<1> HIDE DEF a, b, d, e
<1>7. IsList(de) /\ Elements(de) = Elements(d) \cup Elements(e)
  BY <1>1, JoinedElements
<1> HIDE DEF ab, de
<1>8. IsJoined(a, b, ab)
  BY DEF ab, IsJoined
<1>9. /\ Len(a) \in Nat /\ Len(b) \in Nat /\ Len(list) \in Nat
      /\ DOMAIN list = 1..Len(list) /\ Len(list) >= Len(a) + Len(b)
      /\ \A i \in 1..Len(a) : list[i] = a[i]
      /\ \A i \in 1..Len(b) : list[Len(a) + i] = b[i]
      /\ \A i \in 1..Len(list) :
           i > Len(a) + Len(b) => list[i] \in Elements(de)
  BY <1>1, <1>2, <1>7, <1>8, FourJoined
<1>11. ASSUME NEW i \in 1..(p - 1) PROVE Passing(list[i])
  <2>1. i \in 1..Len(a) /\ i \in 1..(Len(a) - 1)
    BY <1>9, <1>10
  <2>2. list[i] = a[i] /\ a[i] \in Elements(a) /\ Plainly(a[i])
    BY <1>4, <1>9, <2>1 DEF Elements
  <2> QED
    BY <1>5, <2>2, Zenon
<1>12. BeginsHeaders(list[p])
  <2>1. p \in 1..Len(a)
    BY <1>4, <1>9, <1>10
  <2> QED
    BY <1>4, <1>9, <1>10, <2>1 DEF BeginsHeaders
<1>13. Follows(list, p, b)
  BY <1>9, <1>10 DEF Follows
<1>14. \A i \in 1..Len(list) : i > p + c => Passing(list[i])
  BY <1>6, <1>7, <1>9, <1>10
<1> QED
  BY <1>3, <1>4, <1>9, <1>10, <1>11, <1>12, <1>13, <1>14 DEF b

------------------------------------------------------------------------------
(* Every statement brings the headers on. *)

LEMMA HeadingLoaded ==
  ASSUME NEW st, Heading(st), NEW s, DOMAIN s = Members, NEW reset,
         NEW load, load = LoadHeaderStatement(st, s.headers, reset),
         NEW step, step = Loaded(st, s, reset)
  PROVE  step.reset = load.reset /\ step.settings.headers = load.headers
<1> DEFINE g == load.headers
           t == [s EXCEPT !.headers = g]
           r == load.reset
<1>1. st.block = "header" /\ st.name # "header"
  BY DEF Heading
<1>2. step = [settings |-> t, reset |-> r]
  BY <1>1, SMT DEF Loaded
<1>3. t.headers = g
  BY NamedMembers, SMT
<1> HIDE DEF t, g, r
<1>4. step.settings = t /\ step.reset = r
  BY <1>2
<1> QED
  BY <1>3, <1>4, Zenon DEF g, r

LEMMA HeadersStartOver ==
  ASSUME NEW s, NEW reset,
         NEW step, step = Loaded(Statement("parser", "header", <<>>), s, reset)
  PROVE  step.reset = FALSE
<1> DEFINE st == Statement("parser", "header", <<>>)
           no == FALSE
<1>1. st.name = "header" /\ st.block = "parser"
  BY SMT DEF Statement
<1>2. step = Loaded(st, s, reset)
  OBVIOUS
<1> HIDE DEF st
<1>4. Loaded(st, s, reset).reset = no
  BY <1>1, SMT DEF Loaded
<1> HIDE DEF no
<1> QED
  BY <1>2, <1>4, Zenon DEF no

LEMMA HeadersNotYet ==
  ASSUME NEW h, NEW k \in Int, k < 0, NEW reset, NEW g
  PROVE  HeadersBack(h, k, reset, g)
<1>1. ~(k >= 3) /\ ~(k >= 4) /\ k <= 4 /\ ~(k >= 0)
  OBVIOUS
<1> QED
  BY <1>1, HeadersBackIs, Zenon

LEMMA HeadersBegin ==
  ASSUME NEW h, NEW reset, ~reset, NEW g
  PROVE  HeadersBack(h, 0, reset, g)
<1> DEFINE k == 0
<1>1. ~(k >= 3) /\ ~(k >= 4) /\ k <= 4
  OBVIOUS
<1> HIDE DEF k
<1>2. HeadersBack(h, k, reset, g)
  BY <1>1, HeadersBackIs, Zenon
<1> QED
  BY <1>2 DEF k

LEMMA HeadersStay ==
  ASSUME NEW h, ProperHeaders(h), PrintsHeaders(h), NEW k \in Int,
         k >= 4 + Len(PrintedNames(h)), NEW reset, NEW g, HeadersBack(h, k, reset, g)
  PROVE  HeadersBack(h, k + 1, reset, g)
<1> DEFINE most == Len(PrintedNames(h))
           n == k + 1
<1>1. most \in Nat
  BY HeaderParts
<1>2. k >= 4 /\ n >= 4 /\ k >= 3 /\ n >= 3
  BY <1>1
<1>3. CASE h.all
  <2> HIDE DEF n
  <2>1. HeadersBack(h, n, reset, g)
    BY <1>2, <1>3, HeadersBackIs, Zenon
  <2> QED
    BY <2>1 DEF n
<1>4. CASE ~h.all /\ DOMAIN h.values = {}
  <2> HIDE DEF n
  <2>1. HeadersBack(h, n, reset, g)
    BY <1>2, <1>4, HeadersBackIs, Zenon
  <2> QED
    BY <2>1 DEF n
<1>5. CASE ~h.all /\ DOMAIN h.values # {}
  <2>1. most > 0
    <3>1. {PrintedNames(h)[i] : i \in 1..most} = DOMAIN h.values
      BY <1>5, PrintedNamesAre
    <3>2. most # 0
      BY <1>5, <3>1
    <3> QED
      BY <1>1, <3>2
  <2>2. ~(k <= 4) /\ ~(n <= 4)
    BY <1>1, <2>1
  <2>3. Fewer(k - 4, most) = most /\ Fewer(n - 4, most) = most
    BY <1>1 DEF Fewer
  <2>4. HeadersBack(h, k, reset, g) <=> reset /\ ~g.all /\ g.values = PrintedPart(h, most)
    <3> DEFINE m == most
    <3>1. Fewer(k - 4, Len(PrintedNames(h))) = m
      BY <2>3
    <3> HIDE DEF m
    <3> DEFINE l == k
    <3>2. ~(l <= 4) /\ Fewer(l - 4, Len(PrintedNames(h))) = m
      BY <2>2, <3>1
    <3> HIDE DEF l
    <3>3. HeadersBack(h, l, reset, g) <=> reset /\ ~g.all /\ g.values = PrintedPart(h, m)
      BY <1>5, <3>2, HeadersBackLater
    <3> QED
      BY <3>3 DEF l, m
  <2>5. HeadersBack(h, n, reset, g) <=> reset /\ ~g.all /\ g.values = PrintedPart(h, most)
    <3> DEFINE m == most
    <3>1. Fewer(n - 4, Len(PrintedNames(h))) = m
      BY <2>3
    <3> HIDE DEF m, n
    <3>2. HeadersBack(h, n, reset, g) <=> reset /\ ~g.all /\ g.values = PrintedPart(h, m)
      BY <1>5, <2>2, <3>1, HeadersBackLater
    <3> QED
      BY <3>2 DEF m
  <2> HIDE DEF n, most
  <2>6. HeadersBack(h, n, reset, g)
    BY <2>4, <2>5, Zenon
  <2> QED
    BY <2>6 DEF n
<1> QED
  BY <1>3, <1>4, <1>5

LEMMA HeadersStep ==
  ASSUME NEW o, Proper(o), Printable(o), PrintsHeaders(o.headers),
         NEW list, list = WholeList(o), NEW at \in Nat, at + 1 \in DOMAIN list,
         NEW s, Proper(s), NEW reset \in BOOLEAN,
         NEW p, p = Len(ParserStatements(o)),
         NEW c, c = Len(HeaderStatements(o.headers)),
         HeadersBack(o.headers, at - p, reset, s.headers),
         NEW step, step = Loaded(list[at + 1], s, reset)
  PROVE  /\ HeadersBack(o.headers, (at + 1) - p, step.reset, step.settings.headers)
         /\ step.reset \in BOOLEAN
<1> DEFINE h == o.headers
           i == at + 1
           g == step.settings.headers
           r == step.reset
           most == Len(PrintedNames(h))
<1>1. ProperHeaders(h) /\ ProperHeaders(s.headers)
  BY ProperHas, Zenon
<1>2. DOMAIN s = Members
  BY DEF Proper
<1>3. /\ p \in Nat /\ c \in Nat /\ Len(list) \in Nat /\ DOMAIN list = 1..Len(list)
      /\ p > 0 /\ c = 4 + most
  BY Positions
<1>12. \A j \in 1..(p - 1) : Passing(list[j])
  BY Positions
<1>13. list[p] = Statement("parser", "header", <<>>)
  <2>1. BeginsHeaders(list[p])
    BY Positions
  <2> QED
    BY <2>1, Zenon DEF BeginsHeaders
<1>14. \A k \in 1..c : list[p + k] = HeaderStatements(h)[k]
  <2>1. Follows(list, p, HeaderStatements(h))
    BY Positions
  <2> QED
    BY <2>1, Zenon DEF Follows
<1>15. \A j \in 1..Len(list) : j > p + c => Passing(list[j])
  BY Positions
<1>4. /\ \A j \in 1..(p - 1) : Passing(list[j])
      /\ list[p] = Statement("parser", "header", <<>>)
      /\ \A k \in 1..c : list[p + k] = HeaderStatements(h)[k]
      /\ \A j \in 1..Len(list) : j > p + c => Passing(list[j])
  BY <1>12, <1>13, <1>14, <1>15, Zenon
<1>5. most \in Nat
  BY <1>1, HeaderParts
<1>6. i \in 1..Len(list) /\ i \in Nat /\ i > 0
  BY <1>3
<1>7. Passing(list[i]) => g = s.headers /\ r = reset
  BY <1>2, Zenon DEF Passing
<1> HIDE DEF most
<1>8. CASE i < p
  <2>1. i \in 1..(p - 1)
    BY <1>3, <1>6, <1>8
  <2>2. g = s.headers /\ r = reset
    BY <1>4, <1>7, <2>1
  <2>3. i - p \in Int /\ i - p < 0
    BY <1>3, <1>6, <1>8
  <2> HIDE DEF i, g, r
  <2>4. HeadersBack(h, i - p, r, g)
    BY <2>3, HeadersNotYet, Zenon
  <2>5. r \in BOOLEAN
    BY <2>2
  <2>6. HeadersBack(h, i - p, r, g) /\ r \in BOOLEAN
    BY <2>4, <2>5, Zenon
  <2> QED
    BY <2>6 DEF i, g, r
<1>9. CASE i = p
  <2>1. step = Loaded(Statement("parser", "header", <<>>), s, reset)
    BY <1>4, <1>9
  <2>2. r = FALSE
    BY <2>1, HeadersStartOver
  <2>3. i - p = 0
    BY <1>3, <1>9
  <2> HIDE DEF i, g, r
  <2>4. HeadersBack(h, 0, r, g)
    BY <2>2, HeadersBegin
  <2>5. HeadersBack(h, i - p, r, g) /\ r \in BOOLEAN
    BY <2>2, <2>3, <2>4
  <2> QED
    BY <2>5 DEF i, g, r
<1>10. CASE i > p /\ i <= p + c
  <2> DEFINE k == i - p
             st == HeaderStatements(h)[k]
             load == LoadHeaderStatement(st, s.headers, reset)
  <2>1. k \in 1..c /\ p + k = i
    BY <1>3, <1>6, <1>10
  <2>2. list[i] = st
    BY <1>4, <2>1
  <2>3. Heading(st)
    <3> DEFINE l == HeaderStatements(h)
    <3>1. st \in Elements(l)
      BY <2>1 DEF Elements
    <3> HIDE DEF l, st
    <3>2. \A x \in Elements(l) : Heading(x)
      BY <1>1, Headings DEF l
    <3> QED
      BY <3>1, <3>2
  <2>4. step = Loaded(st, s, reset)
    BY <2>2
  <2>5. r = load.reset /\ g = load.headers
    <3> HIDE DEF st
    <3> QED
      BY <1>2, <2>3, <2>4, HeadingLoaded
  <2>6. at - p = k - 1
    BY <1>3, <2>1
  <2>7. HeadersBack(h, k - 1, reset, s.headers)
    BY <2>6
  <2>8. HeadersBack(h, k, load.reset, load.headers) /\ load.reset \in BOOLEAN
    <3>1. CASE k <= 4
      <4>1. k \in 1..4
        BY <1>3, <1>6, <2>1, <3>1
      <4> HIDE DEF k
      <4> QED
        BY <1>1, <2>7, <4>1, ModeStep
    <3>2. CASE k > 4
      <4> DEFINE j == k - 4
      <4>1. j \in 1..Len(PrintedNames(h)) /\ k = 4 + j /\ k - 1 = 3 + j
        BY <1>3, <1>5, <2>1, <3>2 DEF most
      <4>2. HeadersBack(h, 3 + j, reset, s.headers)
        BY <2>7, <4>1
      <4>3. load = LoadHeaderStatement(HeaderStatements(h)[4 + j], s.headers, reset)
        BY <4>1
      <4> HIDE DEF j, k, load, h
      <4>4. h = o.headers /\ PrintsHeaders(h)
        BY DEF h
      <4>5. HeadersBack(h, 4 + j, load.reset, load.headers) /\ load.reset \in BOOLEAN
        BY <1>1, <4>1, <4>2, <4>3, <4>4, PrefixStep
      <4> QED
        BY <4>1, <4>5
    <3> QED
      BY <2>1, <3>1, <3>2
  <2> HIDE DEF g, r, load, st
  <2>9. HeadersBack(h, k, r, g) /\ r \in BOOLEAN
    BY <2>5, <2>8
  <2> QED
    BY <2>9 DEF g, r
<1>11. CASE i > p + c
  <2>1. g = s.headers /\ r = reset
    BY <1>4, <1>6, <1>7, <1>11
  <2>2. at - p \in Int /\ at - p >= 4 + most /\ at - p + 1 = i - p
    BY <1>3, <1>5, <1>11
  <2> DEFINE k == at - p
  <2>3. HeadersBack(h, k, reset, s.headers) /\ k \in Int /\ k >= 4 + Len(PrintedNames(h)) /\ k + 1 = i - p
    BY <2>2 DEF most
  <2> HIDE DEF k, g, r, h
  <2>4. HeadersBack(h, k + 1, reset, s.headers)
    BY <1>1, <2>3, HeadersStay DEF h
  <2>5. HeadersBack(h, i - p, r, g) /\ r \in BOOLEAN
    BY <2>1, <2>3, <2>4
  <2> QED
    BY <2>5 DEF g, r, h
<1> QED
  BY <1>3, <1>6, <1>8, <1>9, <1>10, <1>11

------------------------------------------------------------------------------
(* The progress of a load: its start, its steps and its end. *)

LEMMA ProgressStart ==
  ASSUME NEW o, Proper(o), Printable(o), NEW list, list = WholeList(o),
         NEW reset \in BOOLEAN, NEW s
  PROVE  Progress(list, o, 0, reset, s)
<1> DEFINE p == Len(ParserStatements(o))
           at == 0
<1>1. p \in Nat /\ p > 0
  BY ParserEnd
<1>2. at - p \in Int /\ at - p < 0 /\ at \in Nat
  BY <1>1
<1>3. \A m \in Returning : Pending(list, o, m, at)
  BY AllPending
<1> HIDE DEF p, at
<1>4. HeadersBack(o.headers, at - p, reset, s.headers)
  BY <1>2, HeadersNotYet
<1>5. Progress(list, o, at, reset, s)
  BY <1>2, <1>3, <1>4, Zenon DEF Progress, p
<1> QED
  BY <1>5 DEF at

LEMMA ProgressStep ==
  ASSUME NEW o, Proper(o), Printable(o), PrintsHeaders(o.headers),
         NEW list, list = WholeList(o), NEW at, at + 1 \in DOMAIN list,
         NEW s, Proper(s), NEW reset, Progress(list, o, at, reset, s),
         NEW step, step = Loaded(list[at + 1], s, reset)
  PROVE  Progress(list, o, at + 1, step.reset, step.settings)
<1> DEFINE i == at + 1
           t == step.settings
           p == Len(ParserStatements(o))
<1>1. at \in Nat /\ reset \in BOOLEAN
  BY Zenon DEF Progress
<1>2. HeadersBack(o.headers, at - p, reset, s.headers)
  BY Zenon DEF Progress
<1>3. HeadersBack(o.headers, i - p, step.reset, t.headers) /\ step.reset \in BOOLEAN
  <2> DEFINE c == Len(HeaderStatements(o.headers))
  <2>1. p = Len(ParserStatements(o)) /\ c = Len(HeaderStatements(o.headers))
    OBVIOUS
  <2> HIDE DEF p, c
  <2>2. /\ HeadersBack(o.headers, (at + 1) - p, step.reset, step.settings.headers)
        /\ step.reset \in BOOLEAN
    BY <1>1, <1>2, <2>1, HeadersStep, Zenon
  <2>3. i - p = (at + 1) - p
    OBVIOUS
  <2> HIDE DEF i
  <2> QED
    BY <2>2, <2>3, Zenon
<1>4. DOMAIN list = 1..Len(list) /\ Len(list) \in Nat
  <2>1. IsList(list)
    BY WholeConverges
  <2> QED
    BY <2>1, ListIs
<1>5. i \in Nat /\ i \in DOMAIN list
  BY <1>1
<1>6. DOMAIN s = Members
  BY DEF Proper
<1>7. \A k \in DOMAIN list : k > at => k = i \/ k > i
  BY <1>1, <1>4
<1>8. Converges(list, o)
  BY WholeConverges
<1>9. \A m \in Returning : s[m] = Wanted(o, m) \/ Pending(list, o, m, at)
  BY Zenon DEF Progress
<1>13. step = Loaded(list[i], s, reset)
  OBVIOUS
<1> HIDE DEF i
<1>10. ASSUME NEW m \in Returning
       PROVE  t[m] = Wanted(o, m) \/ Pending(list, o, m, i)
  <2>1. Restores(list[i], o, m) => t[m] = Wanted(o, m)
    BY <1>6, <1>13 DEF Restores
  <2>2. Pending(list, o, m, at) => Restores(list[i], o, m) \/ Pending(list, o, m, i)
    <3> SUFFICES ASSUME NEW k \in DOMAIN list, k > at, Restores(list[k], o, m)
                 PROVE  Restores(list[i], o, m) \/ Pending(list, o, m, i)
      BY Zenon DEF Pending
    <3>1. CASE k = i
      BY <3>1, Zenon
    <3>2. CASE k > i
      BY <3>2, Zenon DEF Pending
    <3> QED
      BY <1>7, <3>1, <3>2
  <2>3. Keeps(list[i], m) => t[m] = s[m]
    BY <1>6, <1>13 DEF Keeps
  <2>4. Keeps(list[i], m) \/ Restores(list[i], o, m) \/ Pending(list, o, m, i)
    BY <1>5, <1>8 DEF Converges
  <2> QED
    BY <1>9, <2>1, <2>2, <2>3, <2>4, Zenon
<1> HIDE DEF t, p
<1>11. Progress(list, o, i, step.reset, t)
  BY <1>3, <1>5, <1>10, Zenon DEF Progress, p
<1> QED
  BY <1>11, Zenon DEF i, t

LEMMA WholePart ==
  ASSUME NEW h, ProperHeaders(h), PrintsHeaders(h), ~h.all
  PROVE  PrintedPart(h, Len(PrintedNames(h))) = h.values
<1> DEFINE S == {PrintedNames(h)[i] : i \in 1..Len(PrintedNames(h))}
           f == [x \in DOMAIN h.values |-> h.values[x]]
<1>1. S = DOMAIN h.values
  BY PrintedNamesAre, Zenon
<1>2. h.values = f
  <2> DEFINE g == [n \in DOMAIN h.values |-> <<h.values[n][1], h.values[n][2]>>]
  <2>1. h.values = g
    BY Zenon DEF ProperHeaders
  <2>2. g = [n \in DOMAIN g |-> g[n]]
    OBVIOUS
  <2> HIDE DEF g
  <2> QED
    BY <2>1, <2>2
<1>3. PrintedPart(h, Len(PrintedNames(h))) = [x \in S |-> h.values[x]]
  BY Zenon DEF PrintedPart
<1> HIDE DEF S
<1> QED
  BY <1>1, <1>2, <1>3

LEMMA ProgressEnd ==
  ASSUME NEW o, Proper(o), Printable(o), PrintsHeaders(o.headers),
         NEW list, list = WholeList(o), NEW at, at + 1 \notin DOMAIN list,
         NEW s, Proper(s), NEW reset, Progress(list, o, at, reset, s)
  PROVE  /\ \A m \in Returning : s[m] = Wanted(o, m)
         /\ SameHeaders(o.headers, s.headers)
<1> DEFINE p == Len(ParserStatements(o))
           c == Len(HeaderStatements(o.headers))
           h == o.headers
           g == s.headers
           most == Len(PrintedNames(h))
           k == at - p
<1>1. at \in Nat /\ HeadersBack(h, k, reset, g)
  BY Zenon DEF Progress
<1>2. /\ p \in Nat /\ c \in Nat /\ Len(list) \in Nat /\ DOMAIN list = 1..Len(list)
      /\ Len(list) >= p + c /\ c = 4 + most
  BY Positions
<1>3. ProperHeaders(h) /\ ProperHeaders(g)
  BY ProperHas, Zenon
<1>4. most \in Nat
  BY <1>3, HeaderParts
<1> HIDE DEF most, c, p
<1>5. at >= Len(list)
  BY <1>1, <1>2
<1>6. k >= 4 + most /\ k \in Int
  BY <1>1, <1>2, <1>5
<1>7. ASSUME NEW m \in Returning PROVE s[m] = Wanted(o, m)
  <2>1. s[m] = Wanted(o, m) \/ Pending(list, o, m, at)
    BY Zenon DEF Progress
  <2>2. \A j \in DOMAIN list : ~(j > at)
    BY <1>1, <1>2, <1>5
  <2> QED
    BY <2>1, <2>2, Zenon DEF Pending
<1>8. h.all \in BOOLEAN /\ g.all \in BOOLEAN
  BY <1>3, Zenon DEF ProperHeaders
<1>9. k >= 3 /\ k >= 4
  BY <1>4, <1>6
<1> HIDE DEF k, h, g
<1>10. h.all = g.all /\ (~h.all => h.values = g.values)
  <2>1. CASE h.all
    <3>1. g.all
      BY <1>1, <1>9, <2>1, HeadersBackIs, Zenon
    <3> QED
      BY <1>8, <2>1, <3>1
  <2>2. CASE ~h.all /\ DOMAIN h.values = {}
    <3>1. ~g.all /\ g.values = <<>>
      BY <1>1, <1>9, <2>2, HeadersBackIs, Zenon
    <3>2. h.values = <<>>
      <4> DEFINE f == [n \in DOMAIN h.values |-> <<h.values[n][1], h.values[n][2]>>]
      <4>1. h.values = f
        BY <1>3, Zenon DEF ProperHeaders
      <4>2. f = <<>>
        BY <2>2
      <4> QED
        BY <4>1, <4>2
    <3> QED
      BY <1>8, <2>2, <3>1, <3>2
  <2>3. CASE ~h.all /\ DOMAIN h.values # {}
    <3>1. most > 0
      <4>1. {PrintedNames(h)[i] : i \in 1..most} = DOMAIN h.values
        BY <1>3, <2>3, PrintedNamesAre DEF most, h
      <4>2. most # 0
        BY <2>3, <4>1
      <4> QED
        BY <1>4, <4>2
    <3>2. ~(k <= 4) /\ Fewer(k - 4, Len(PrintedNames(h))) = most
      BY <1>4, <1>6, <3>1 DEF Fewer, most
    <3>3. HeadersBack(h, k, reset, g) <=> reset /\ ~g.all /\ g.values = PrintedPart(h, most)
      BY <2>3, <3>2, HeadersBackLater
    <3>4. PrintedPart(h, most) = h.values
      BY <1>3, <2>3, WholePart, Zenon DEF most, h
    <3> QED
      BY <1>1, <1>8, <2>3, <3>3, <3>4
  <2> QED
    BY <2>1, <2>2, <2>3
<1>11. SameHeaders(h, g)
  BY <1>10 DEF SameHeaders
<1> QED
  BY <1>7, <1>11 DEF h, g

------------------------------------------------------------------------------
(* What a step does to the file that is loaded and to what was saved. *)

Begins == run'.load.at = 0 /\ run'.load.reset = FALSE
OptionLoads == history'.saved = history.saved /\ (run'.pc = run.pc \/ Begins)

LEMMA NoLoadYet ==
  ASSUME NEW dir
  PROVE  /\ [NoLoad EXCEPT !.dir = dir].at = 0
         /\ [NoLoad EXCEPT !.dir = dir].reset = FALSE
         /\ [NoLoad EXCEPT !.dir = dir, !.setsPrivate = TRUE].at = 0
         /\ [NoLoad EXCEPT !.dir = dir, !.setsPrivate = TRUE].reset = FALSE
<1> DEFINE no == FALSE
           load == [dir |-> "", at |-> 0, reset |-> no, setsPrivate |-> no]
<1>1. NoLoad = load
  BY Zenon DEF NoLoad
<1>2. /\ [load EXCEPT !.dir = dir].at = 0
      /\ [load EXCEPT !.dir = dir].reset = no
  BY SMT
<1>3. \A yes : /\ [load EXCEPT !.dir = dir, !.setsPrivate = yes].at = 0
               /\ [load EXCEPT !.dir = dir, !.setsPrivate = yes].reset = no
  BY SMT
<1> HIDE DEF load
<1> QED
  BY <1>1, <1>2, <1>3, Zenon DEF no

LEMMA OptionLoadsOn ==
  ASSUME QuietInv, AnyOption
  PROVE  OptionLoads
<1>1. DOMAIN run = RunFields /\ DOMAIN history = HistoryFields
  BY DEF QuietInv, Shapes
<1>2. ASSUME NEW s, NEW given, Sets(s, given) PROVE OptionLoads
  BY <1>1, <1>2 DEF Sets, HistoryFields, OptionLoads
<1>3. ASSUME NEW r, Notes(r), r.pc = run.pc PROVE OptionLoads
  BY <1>1, <1>3 DEF Notes, HistoryFields, OptionLoads
<1>4. ASSUME UsageError PROVE OptionLoads
  <2>1. [run EXCEPT !.usageError = TRUE].pc = run.pc
    BY <1>1 DEF RunFields
  <2> QED
    BY <1>3, <1>4, <2>1 DEF UsageError
<1>5. ASSUME NEW n, NEW low, NEW high, NEW s, NEW given,
             Numbered(n, low, high, s, given)
      PROVE  OptionLoads
  BY <1>2, <1>4, <1>5 DEF Numbered
<1>6. CASE OptionNumber
  <2>1. PICK n, low, high, s, given : Numbered(n, low, high, s, given)
    BY <1>6 DEF OptionNumber
  <2> QED
    BY <1>5, <2>1, Zenon
<1>7. CASE OptionThreshold
  BY <1>5, <1>7, Zenon DEF OptionThreshold
<1>8. CASE OptionText
  BY <1>2, <1>8, Zenon DEF OptionText
<1>9. CASE OptionSwitch
  <2>1. ASSUME Notes([run EXCEPT !.forceMbox = TRUE]) PROVE OptionLoads
    BY <1>1, <1>3, <2>1 DEF RunFields
  <2>2. ASSUME Notes([run EXCEPT !.single = TRUE]) PROVE OptionLoads
    BY <1>1, <1>3, <2>2 DEF RunFields
  <2>3. ASSUME Notes([run EXCEPT !.single = TRUE, !.status = TRUE]) PROVE OptionLoads
    BY <1>1, <1>3, <2>3 DEF RunFields
  <2>4. ASSUME Notes([run EXCEPT !.version = TRUE]) PROVE OptionLoads
    BY <1>1, <1>3, <2>4 DEF RunFields
  <2> QED
    BY <1>2, <1>4, <1>9, <2>1, <2>2, <2>3, <2>4, Zenon DEF OptionSwitch
<1>10. CASE OptionNamed
  BY <1>1, <1>10 DEF OptionNamed, RunFields, HistoryFields, OptionLoads
<1>11. CASE OptionDatabase
  <2>1. PICK arg \in TypedDirs :
          /\ run' = [run EXCEPT !.pc = "loading", !.basedir = arg.dir,
                       !.load = [NoLoad EXCEPT !.dir = arg.dir,
                                               !.setsPrivate = TRUE]]
          /\ history' = [history EXCEPT !.options = @ + 1,
                           !.given = ("type" :> arg.type) @@ @]
    BY <1>11, Zenon DEF OptionDatabase
  <2> DEFINE load == [NoLoad EXCEPT !.dir = arg.dir, !.setsPrivate = TRUE]
  <2>2. load.at = 0 /\ load.reset = FALSE
    BY NoLoadYet, Zenon
  <2>5. run' = [run EXCEPT !.pc = "loading", !.basedir = arg.dir, !.load = load]
    BY <2>1, Zenon
  <2> HIDE DEF load
  <2>3. run'.load = load
    BY <1>1, <2>5 DEF RunFields
  <2>4. history'.saved = history.saved
    BY <1>1, <2>1 DEF HistoryFields
  <2> QED
    BY <2>2, <2>3, <2>4, Zenon DEF OptionLoads, Begins
<1>12. CASE OptionShared
  BY <1>2, <1>12, Zenon DEF OptionShared
<1>13. CASE OptionConfigFile
  <2>1. CASE UsageError
    BY <1>4, <2>1
  <2>2. CASE ~UsageError
    <3>1. PICK dir \in Dirs :
            /\ run' = [run EXCEPT !.pc = "loading", !.basedir = dir,
                                  !.load = [NoLoad EXCEPT !.dir = dir]]
            /\ history' = [history EXCEPT !.options = @ + 1]
      BY <1>13, <2>2, Zenon DEF OptionConfigFile
    <3> DEFINE load == [NoLoad EXCEPT !.dir = dir]
    <3>2. load.at = 0 /\ load.reset = FALSE
      BY NoLoadYet, Zenon
    <3>5. run' = [run EXCEPT !.pc = "loading", !.basedir = dir, !.load = load]
      BY <3>1, Zenon
    <3> HIDE DEF load
    <3>3. run'.load = load
      BY <1>1, <3>5 DEF RunFields
    <3>4. history'.saved = history.saved
      BY <1>1, <3>1 DEF HistoryFields
    <3> QED
      BY <3>2, <3>3, <3>4, Zenon DEF OptionLoads, Begins
  <2> QED
    BY <2>1, <2>2
<1> QED
  BY <1>6, <1>7, <1>8, <1>9, <1>10, <1>11, <1>12, <1>13 DEF AnyOption

(* Only create-config writes a file and remembers what it wrote. *)
FilesKept == disk'.configs = disk.configs /\ history'.saved = history.saved

LEMMA MostKeepFiles ==
  ASSUME FoundInv, [Next]_vars, ~CreateConfig
  PROVE  FilesKept
<1>0. DOMAIN history = HistoryFields /\ Sound(disk) /\ QuietInv
      /\ settings.private \in Dirs
  BY DEF FoundInv, QuietInv, Shapes, Named
<1>1. disk'.configs = disk.configs
  <2>1. CASE OpenDatabase
    <3> DEFINE readOnly == run.command.readOnly
               create == \/ run.command.kind = "create-db"
                         \/ settings.createDbDir /\ ~readOnly
               o == Opening(readOnly, create)
    <3>1. disk' = o.disk
      BY <2>1, Zenon DEF OpenDatabase
    <3> HIDE DEF create
    <3>2. Leaves(o, settings.private, readOnly, create)
      BY <1>0, OpeningParts
    <3> HIDE DEF o
    <3> QED
      BY <3>1, <3>2, Zenon DEF Leaves
  <2>2. CASE ~OpenDatabase
    BY <1>0, <2>2, MostKeepDisk DEF DiskKept
  <2> QED
    BY <2>1, <2>2
<1>2. CASE AnyOption
  <2>1. history'.saved = history.saved
    BY <1>0, <1>2, OptionLoadsOn DEF OptionLoads
  <2> QED
    BY <1>1, <2>1 DEF FilesKept
<1>3. CASE Start
  <2>1. history'.saved = history.saved
    BY <1>0, <1>3 DEF Start, HistoryFields
  <2> QED
    BY <1>1, <2>1 DEF FilesKept
<1>4. CASE EndLoad
  <2>1. history'.saved = history.saved
    BY <1>0, <1>4 DEF EndLoad, HistoryFields
  <2> QED
    BY <1>1, <2>1 DEF FilesKept
<1>5. CASE OpenDatabase
  <2>1. history'.saved = history.saved
    BY <1>0, <1>5 DEF OpenDatabase, HistoryFields
  <2> QED
    BY <1>1, <2>1 DEF FilesKept
<1>6. CASE ProcessMessage \/ FinishFile
  <2>1. history'.saved = history.saved
    BY <1>0, <1>6 DEF ProcessMessage, FinishFile, HistoryFields
  <2> QED
    BY <1>1, <2>1 DEF FilesKept
<1>7. CASE UNCHANGED history
  BY <1>1, <1>7 DEF FilesKept
<1>8. CASE UNCHANGED vars
  BY <1>1, <1>8 DEF FilesKept, vars
<1> QED
  BY <1>2, <1>3, <1>4, <1>5, <1>6, <1>7, <1>8, Zenon
     DEF Next, AnyOption, RejectConfig, ApplyStatement, FindCommand, ShowUsage,
         SingleMessage, ApplyTestCase, ApplyExtendedOption, EndOfNames, Help,
         TermsCommand, StartFile, NothingToBalance, SkipMessage, BadLine,
         Interrupted, EndCommand, Again, Stop, vars

LEMMA LoadingSteps ==
  ASSUME FoundInv, [Next]_vars
  PROVE  \/ ApplyStatement
         \/ Begins
         \/ run'.pc # "loading"
         \/ UNCHANGED vars
<1>0. DOMAIN run = RunFields /\ QuietInv
  BY DEF FoundInv, QuietInv, Shapes
<1>1. CASE AnyOption
  <2>1. OptionLoads /\ run.pc = "options"
    BY <1>0, <1>1, OptionLoadsOn, OptionStep DEF OptionEffect
  <2> QED
    BY <2>1 DEF OptionLoads
<1>2. CASE Start
  <2> DEFINE load == [NoLoad EXCEPT !.dir = "home"]
  <2>1. run' = [NewRun("loading") EXCEPT !.load = load]
    BY <1>2, Zenon DEF Start
  <2>2. load.at = 0 /\ load.reset = FALSE
    BY NoLoadYet, Zenon
  <2> HIDE DEF load
  <2>3. run'.load = load
    BY <2>1, SMT DEF NewRun
  <2> QED
    BY <2>2, <2>3, Zenon DEF Begins
<1>3. ASSUME NEW code, Exit(code) PROVE run'.pc # "loading"
  BY <1>0, <1>3 DEF Exit, RunFields
<1>4. CASE EndLoad
  BY <1>0, <1>4 DEF EndLoad, RunFields
<1>5. CASE FindCommand
  <2>1. run'.pc = "found"
    BY <1>0, <1>5 DEF FindCommand, RunFields
  <2> QED
    BY <2>1
<1>6. CASE SingleMessage
  BY <1>0, <1>6 DEF SingleMessage, RunFields
<1>7. CASE ApplyTestCase
  BY <1>0, <1>7 DEF ApplyTestCase, RunFields
<1>8. CASE ApplyExtendedOption
  BY <1>0, <1>8 DEF ApplyExtendedOption, RunFields
<1>9. CASE EndOfNames
  BY <1>0, <1>9 DEF EndOfNames, Exit, RunFields
<1>10. CASE OpenDatabase
  <2>1. run'.pc \in {"done", "work"}
    BY <1>0, <1>10 DEF OpenDatabase, Exit, RunFields
  <2> QED
    BY <2>1
<1>11. CASE StartFile \/ SkipMessage \/ ProcessMessage \/ FinishFile
  <2>1. run' = run /\ run.pc = "work"
    BY <1>11 DEF StartFile, SkipMessage, ProcessMessage, FinishFile, Reading
  <2> QED
    BY <2>1
<1>12. CASE RejectConfig \/ ShowUsage \/ CreateConfig \/ Help \/ TermsCommand
            \/ NothingToBalance \/ BadLine \/ Interrupted \/ EndCommand
  BY <1>3, <1>12, Zenon DEF RejectConfig, ShowUsage, CreateConfig, Help, TermsCommand,
                             NothingToBalance, BadLine, Interrupted, EndCommand
<1>13. CASE Again
  BY <1>13 DEF Again, NewRun
<1>14. CASE UNCHANGED vars \/ Stop
  BY <1>14 DEF Stop
<1> QED
  BY <1>1, <1>2, <1>4, <1>5, <1>6, <1>7, <1>8, <1>9, <1>10, <1>11, <1>12, <1>13,
     <1>14, Zenon DEF Next, AnyOption

------------------------------------------------------------------------------
(* The settings come back. *)

LEMMA BackInit == Init => BackInv
<1> SUFFICES ASSUME Init PROVE BackInv
  OBVIOUS
<1>1. FoundInv
  BY FoundInit
<1>2. Proper(settings)
  BY ProperInitially DEF Init
<1>3. run.pc = "start"
  BY DEF Init, NewRun
<1>4. history.saved = [d \in Dirs |-> Never]
  BY DEF Init
<1>5. \A d \in Dirs : ~history.saved[d].made
  BY <1>4 DEF Never
<1>6. Written
  BY <1>4, <1>5, Zenon DEF Written
<1>7. Back
  BY <1>3 DEF Back
<1>8. Known
  <2>1. PICK there \in StartDirs, first \in StartConfigs :
          disk = [dirs |-> there, files |-> [d \in Dirs |-> {}],
                  touched |-> {},
                  configs |-> [d \in Dirs |-> IF d = "home" /\ d \in there THEN first
                                                                          ELSE NoFile]]
    BY Zenon DEF Init
  <2>2. \A d \in Dirs : disk.configs[d] \in {first, NoFile}
    BY <2>1
  <2>3. KnownTokens(NoFile)
    BY SMT DEF KnownTokens, NoFile
  <2>4. KnownTokens(first)
    BY TokensAssumption
  <2> QED
    BY <2>2, <2>3, <2>4 DEF Known
<1> QED
  BY <1>1, <1>2, <1>6, <1>7, <1>8 DEF BackInv

(* What is known of the file of a directory that was written. *)
LEMMA WrittenHas ==
  ASSUME Written, NEW d \in Dirs, NEW kept, kept = history.saved[d], kept.made
  PROVE  /\ Proper(kept.settings)
         /\ PrintsHeaders(kept.settings.headers)
         /\ disk.configs[d] = WrittenFile(kept.settings)
         /\ disk.configs[d].statements = WholeList(kept.settings)
<1>1. /\ Proper(kept.settings)
      /\ PrintsHeaders(kept.settings.headers)
      /\ disk.configs[d] = WrittenFile(kept.settings)
  BY Zenon DEF Written
<1>2. disk.configs[d].statements = WholeList(kept.settings)
  BY <1>1, WholeWritten
<1> QED
  BY <1>1, <1>2, Zenon

LEMMA CreateConfigSaves ==
  ASSUME BackInv, CreateConfig
  PROVE  Known' /\ Written'
<1> DEFINE file == WrittenFile(settings)
           whole == PrintsHeaders(settings.headers)
           mark == TRUE
           new == IF whole THEN [made |-> mark, settings |-> settings] ELSE Never
           dir == run.configFile
<1>0. /\ DOMAIN history = HistoryFields /\ Sound(disk)
      /\ DOMAIN disk.configs = Dirs /\ DOMAIN history.saved = Dirs
      /\ Proper(settings) /\ Known /\ Written
  BY DEF BackInv, FoundInv, QuietInv, Shapes, Stored, Written
<1>1. CASE dir \notin disk.dirs
  <2>1. UNCHANGED <<disk, history>>
    BY <1>1 DEF CreateConfig
  <2> QED
    BY <1>0, <2>1 DEF Known, Written
<1>2. CASE dir \in disk.dirs
  <2>1. /\ disk' = [disk EXCEPT !.configs[dir] = file]
        /\ history' = [history EXCEPT !.saved[dir] = new]
    BY <1>2, Zenon DEF CreateConfig
  <2>2. KnownTokens(file)
    BY <1>0, KnownWritten
  <2>3. new.made => /\ Proper(new.settings) /\ PrintsHeaders(new.settings.headers)
                    /\ file = WrittenFile(new.settings)
    <3>1. CASE whole
      <4>1. new.settings = settings
        BY <3>1
      <4> HIDE DEF new
      <4> QED
        BY <1>0, <3>1, <4>1
    <3>2. CASE ~whole
      BY <3>2 DEF Never
    <3> QED
      BY <3>1, <3>2
  <2> HIDE DEF file, new
  <2>4. /\ disk'.configs = [disk.configs EXCEPT ![dir] = file]
        /\ history'.saved = [history.saved EXCEPT ![dir] = new]
    BY <1>0, <2>1 DEF Sound, HistoryFields
  <2>5. ASSUME NEW d \in Dirs
        PROVE  \/ disk'.configs[d] = file /\ history'.saved[d] = new
               \/ disk'.configs[d] = disk.configs[d] /\ history'.saved[d] = history.saved[d]
    BY <1>0, <2>4
  <2>6. DOMAIN history'.saved = Dirs
    BY <1>0, <2>4
  <2>7. Known'
    BY <1>0, <2>2, <2>5, Zenon DEF Known
  <2>8. Written'
    <3> SUFFICES ASSUME NEW d \in Dirs, NEW kept, kept = history'.saved[d], kept.made
                 PROVE  /\ Proper(kept.settings)
                        /\ PrintsHeaders(kept.settings.headers)
                        /\ disk'.configs[d] = WrittenFile(kept.settings)
      BY <2>6, Zenon DEF Written
    <3>1. CASE disk'.configs[d] = file /\ history'.saved[d] = new
      BY <2>3, <3>1
    <3>2. CASE disk'.configs[d] = disk.configs[d] /\ history'.saved[d] = history.saved[d]
      <4>1. kept = history.saved[d]
        BY <3>2
      <4> QED
        BY <1>0, <3>2, <4>1, WrittenHas
    <3> QED
      BY <2>5, <3>1, <3>2
  <2> QED
    BY <2>7, <2>8
<1> QED
  BY <1>1, <1>2

LEMMA BackGoesOn ==
  ASSUME BackInv, [Next]_vars, Written', Named'
  PROVE  Back'
<1> SUFFICES ASSUME NEW d, d = run'.load.dir, NEW kept, kept = history'.saved[d],
                    run'.pc = "loading", kept.made, Printable(kept.settings)
             PROVE  Progress(LoadedFile'.statements, kept.settings, run'.load.at,
                             run'.load.reset, settings')
  BY Zenon DEF Back
<1> DEFINE o == kept.settings
           list == WholeList(o)
<1>0. /\ FoundInv /\ Proper(settings) /\ Known /\ Written /\ Back
      /\ d \in Dirs
  BY DEF BackInv, Named
<1>1. /\ Proper(o) /\ PrintsHeaders(o.headers)
      /\ LoadedFile'.statements = list
  <2>1. LoadedFile' = disk'.configs[d]
    BY DEF LoadedFile
  <2>2. WrittenFile(o)' = WrittenFile(o)
    OBVIOUS
  <2>3. /\ Proper(o) /\ PrintsHeaders(o.headers)
        /\ disk'.configs[d] = WrittenFile(o)
    BY <1>0, Zenon DEF Written
  <2>4. disk'.configs[d].statements = list
    BY <2>3, WholeWritten
  <2> QED
    BY <2>1, <2>3, <2>4
<1> HIDE DEF o
<1>2. CASE Begins
  <2> DEFINE reset == run'.load.reset
  <2>1. reset \in BOOLEAN /\ run'.load.at = 0
    BY <1>2 DEF Begins
  <2> HIDE DEF reset
  <2>2. Progress(list, o, 0, reset, settings')
    BY <1>1, <2>1, ProgressStart DEF o
  <2> QED
    BY <1>1, <2>1, <2>2, Zenon DEF reset, o
<1>3. CASE ApplyStatement
  <2> DEFINE at == run.load.at
             reset == run.load.reset
             step == Loaded(LoadedFile.statements[at + 1], settings, reset)
  <2>0. DOMAIN run = RunFields /\ DOMAIN run.load = LoadFields
    BY <1>0 DEF FoundInv, QuietInv, Shapes
  <2>1. /\ run.pc = "loading" /\ at + 1 \in DOMAIN LoadedFile.statements
        /\ settings' = step.settings
        /\ run' = [run EXCEPT !.load.at = at + 1, !.load.reset = step.reset]
        /\ disk' = disk /\ history' = history
    BY <1>3, Zenon DEF ApplyStatement
  <2>2. /\ run'.load.at = at + 1 /\ run'.load.reset = step.reset
        /\ run'.load.dir = run.load.dir
    <3> HIDE DEF step
    <3> QED
      BY <2>0, <2>1 DEF RunFields, LoadFields
  <2>3. d = run.load.dir /\ kept = history.saved[d] /\ LoadedFile' = LoadedFile
    BY <2>1, <2>2 DEF LoadedFile
  <2>4. LoadedFile.statements = list
    BY <1>1, <2>3
  <2>5. Progress(list, o, at, reset, settings)
    BY <1>0, <2>1, <2>3, <2>4, Zenon DEF Back, o
  <2>6. step = Loaded(list[at + 1], settings, reset) /\ at + 1 \in DOMAIN list
    BY <2>1, <2>4
  <2> HIDE DEF step, list, at, reset
  <2>7. list = WholeList(o) /\ Printable(o)
    BY DEF list, o
  <2>8. Progress(list, o, at + 1, step.reset, step.settings)
    BY <1>0, <1>1, <2>5, <2>6, <2>7, ProgressStep, Zenon
  <2> QED
    BY <1>1, <2>1, <2>2, <2>8, Zenon DEF o
<1>4. CASE UNCHANGED vars
  <2>1. /\ run' = run /\ history' = history /\ disk' = disk /\ settings' = settings
    BY <1>4 DEF vars
  <2>2. Back'
    BY <1>0, <2>1 DEF Back, LoadedFile
  <2> QED
    BY <2>2, Zenon DEF Back
<1> QED
  BY <1>0, <1>2, <1>3, <1>4, LoadingSteps

LEMMA BackStep ==
  ASSUME BackInv, [Next]_vars
  PROVE  BackInv'
<1>0. FoundInv /\ Proper(settings) /\ Known /\ Written /\ Stored /\ Named
  BY DEF BackInv, FoundInv
<1>1. FoundInv'
  BY <1>0, QuietStep, WholeStep, LoadStep, StoredStep, NamedStep DEF FoundInv
<1>2. Proper(settings')
  <2>1. run.pc = "loading" => KnownTokens(LoadedFile)
    BY <1>0, Zenon DEF Named, Known, LoadedFile
  <2> QED
    BY <1>0, <2>1, ProperStep
<1>3. Known' /\ Written'
  <2>1. CASE CreateConfig
    BY <2>1, CreateConfigSaves
  <2>2. CASE ~CreateConfig
    <3>1. disk'.configs = disk.configs /\ history'.saved = history.saved
      BY <1>0, <2>2, MostKeepFiles DEF FilesKept
    <3> QED
      BY <1>0, <3>1 DEF Known, Written
  <2> QED
    BY <2>1, <2>2
<1>4. Back'
  BY <1>1, <1>3, BackGoesOn DEF FoundInv
<1> QED
  BY <1>1, <1>2, <1>3, <1>4 DEF BackInv

LEMMA BackMeans == BackInv => SettingsComeBack
<1> DEFINE d == run.load.dir
           kept == history.saved[d]
           o == kept.settings
           list == LoadedFile.statements
<1> SUFFICES ASSUME BackInv, run.pc = "loading", kept.made, Printable(o)
             PROVE  /\ Readable(LoadedFile)
                    /\ LoadIsOver =>
                         /\ \A m \in Kept : settings[m] = o[m]
                         /\ \A m \in KeptRoughly : settings[m] = SixDigits(o[m])
                         /\ SameHeaders(o.headers, settings.headers)
  BY Zenon DEF SettingsComeBack
<1>1. /\ Proper(settings) /\ Written /\ Back /\ d \in Dirs
  BY DEF BackInv, FoundInv, Named
<1>2. /\ Proper(o) /\ PrintsHeaders(o.headers)
      /\ LoadedFile = WrittenFile(o) /\ list = WholeList(o)
  BY <1>1, WrittenHas DEF LoadedFile
<1>3. Readable(LoadedFile)
  BY <1>2, ReadableWritten
<1>4. Progress(list, o, run.load.at, run.load.reset, settings)
  BY <1>1, Zenon DEF Back
<1>5. LoadIsOver => run.load.at + 1 \notin DOMAIN list
  <2>1. LoadedFile.exists
    BY <1>2, WholeWritten
  <2> QED
    BY <2>1 DEF LoadIsOver
<1> HIDE DEF o, list
<1>6. ASSUME LoadIsOver
      PROVE  /\ \A m \in Returning : settings[m] = Wanted(o, m)
             /\ SameHeaders(o.headers, settings.headers)
  <2> DEFINE at == run.load.at
             reset == run.load.reset
  <2>1. at + 1 \notin DOMAIN list /\ Progress(list, o, at, reset, settings)
    BY <1>4, <1>5, <1>6
  <2>2. Printable(o)
    BY DEF o
  <2> HIDE DEF at, reset
  <2> QED
    BY <1>1, <1>2, <2>1, <2>2, ProgressEnd, Zenon
<1>7. /\ \A m \in Kept : m \in Returning /\ Wanted(o, m) = o[m]
      /\ \A m \in KeptRoughly : m \in Returning /\ Wanted(o, m) = SixDigits(o[m])
  BY DEF Kept, Returning, Wanted
<1> QED
  BY <1>3, <1>6, <1>7, Zenon DEF o

(* The settings that a file was written with are in force once the file is   *)
(* loaded again, by any later run and whatever was in force before: fractions *)
(* to six digits, the headers without the two modes that are not kept.  And   *)
(* the file can always be loaded, unless a setting has no text that is read.  *)
THEOREM SettingsAlwaysComeBack == Spec => []SettingsComeBack
<1>1. BackInv /\ [Next]_vars => BackInv'
  BY BackStep
<1> QED
  BY <1>1, BackInit, BackMeans, PTL DEF Spec
=============================================================================
