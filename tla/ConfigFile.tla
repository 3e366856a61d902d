----------------------------- MODULE ConfigFile -----------------------------
(* The configuration file: what ConfigManager and HdlPrinter write of the   *)
(* settings, what HdlTokenizer, HdlParser and HdlSyntaxChecker make of that  *)
(* text, and how the statements read change the settings again.             *)
(*                                                                           *)
(* A file is the sequence of its statements, each with the block it stands   *)
(* in, and whether the text goes on to the last "end".  An argument is the   *)
(* token that is read back from the text that was printed.                   *)
EXTENDS Settings, FiniteSets

CONSTANT Unquotable     \* strings that hold quotes of both kinds

NoFile == [statements |-> <<>>, complete |-> FALSE, exists |-> FALSE]

------------------------------------------------------------------------------
(* Tokens: the text of a value and the token it is read as. *)

Token(type, number, string) == [type |-> type, number |-> number,
                                string |-> string]
Unreadable == Token("none", 0, "")

(* addID, addString and addInteger of the printer against readIdentifier,   *)
(* readString and readNumber: no sign is read, and a string that holds both *)
(* quotes ends at the first of its own.                                      *)
IdToken(id) == Token("id", 0, id)
BoolToken(b) == IdToken(IF b THEN "true" ELSE "false")
StringToken(str) == IF str \in Unquotable THEN Unreadable
                                          ELSE Token("string", 0, str)
IntToken(n) == IF n < 0 THEN Unreadable ELSE Token("int", n, "")

(* addDouble prints six digits, and less than 0.0001 with an exponent that  *)
(* readNumber does not take; a whole number comes back as an integer.        *)
SixDigits(v) == IF v < One \div 10 THEN v ELSE ((v + 5) \div 10) * 10
DoubleToken(v) ==
  LET shown == SixDigits(v)
  IN CASE shown % One = 0 -> Token("int", shown \div One, "")
       [] shown % One # 0 /\ shown < One \div 10000 -> Unreadable
       [] OTHER -> Token("double", shown, "")

DoubleValue(token) ==
  IF token.type = "int" THEN token.number * One ELSE token.number

IsTrueValue(token) ==
  \/ token.type = "id" /\ token.string # "false"
  \/ token.type \in {"int", "double"} /\ token.number # 0

------------------------------------------------------------------------------
(* The syntax tree of ConfigManager.cc: the arguments each statement of     *)
(* each block must have, as the types and the identifiers that are taken.   *)

Accepts(types, ids) == [types |-> types, ids |-> ids]
AnInt == <<Accepts({"int"}, {})>>
ADouble == <<Accepts({"int", "double"}, {})>>
AString == <<Accepts({"string"}, {})>>
ABool == <<Accepts({}, {"true", "false"})>>
OneOf(ids) == <<Accepts({}, ids)>>

(* The statements of one block that have the same arguments. *)
Rule(block, names, args) == [block |-> block, names |-> names, args |-> args]

Syntax ==
  {Rule("parser", {"replace_non_ascii", "remove_html",
                   "keep_suspicious_tags", "ignore_body"}, ABool),
   Rule("parser", {"non_ascii_replacement", "spamprobe_field_name"}, AString),
   Rule("parser", {"min_term_length", "max_term_length", "min_phrase_terms",
                   "max_phrase_terms", "min_phrase_chars", "max_phrase_chars",
                   "max_message_terms"}, AnInt),
   Rule("parser", {"header"}, <<>>),
   Rule("header", {"simple_prefix"}, AString),
   Rule("header", {"full_prefix"}, AString \o AString \o AString),
   Rule("header", {"blank_prefixes_mode", "ignore_x_headers_mode",
                   "all_headers_mode", "no_headers_mode"}, ABool),
   Rule("filter", {"score_mode"}, OneOf({"original", "alt1", "normal"})),
   Rule("filter", {"good_bias", "terms_for_score", "max_word_repeats",
                   "min_word_count", "min_array_size"}, AnInt),
   Rule("filter", {"extend_top_terms", "water_counts"}, ABool),
   Rule("filter", {"new_word_score", "spam_threshold",
                   "min_distance_for_score"}, ADouble),
   Rule("database", {"type"},
        OneOf({"default", "bdb", "pbl", "hash", "split"})),
   Rule("database", {"private_filename", "shared_filename"}, AString),
   Rule("database", {"target_size_mb", "max_cache_terms"}, AnInt)}

(* HdlArgumentConstraint::validateArgument *)
ValidArgument(constraint, token) ==
  \/ token.type \in constraint.types
  \/ token.type = "id" /\ token.string \in constraint.ids

(* HdlStandardStatementConstraint::validateStatement *)
ValidStatement(st) ==
  \E rule \in Syntax :
    /\ rule.block = st.block /\ st.name \in rule.names
    /\ Len(st.args) = Len(rule.args)
    /\ \A i \in 1..Len(st.args) : ValidArgument(rule.args[i], st.args[i])

(* What HdlParser and the syntax check take: every token can be read, every *)
(* block is closed and every statement is one the syntax lists.             *)
Readable(file) ==
  /\ file.complete
  /\ \A i \in DOMAIN file.statements : ValidStatement(file.statements[i])

------------------------------------------------------------------------------
(* writeConfig *)

Statement(block, name, args) == [block |-> block, name |-> name,
                                 args |-> args]
InParser(name, token) == Statement("parser", name, <<token>>)
InHeader(name, token) == Statement("header", name, <<token>>)
InFilter(name, token) == Statement("filter", name, <<token>>)
InDatabase(name, token) == Statement("database", name, <<token>>)

(* The order of the map of headers. *)
HeaderOrder ==
  <<"bcc", "cc", "content-type", "errors-to", "from", "list-id",
    "message-id", "originator", "received", "references", "reply-to",
    "sender", "subject", "to", "user-agent", "x-beenthere", "x-mailer",
    "x-spam-status">>

(* The entries the loop over the headers has printed when it ends: an entry *)
(* with an empty prefix has no body to print, and getPrefixBody throws.     *)
HasPrefixes(h, name) == h.values[name][1] # "" /\ h.values[name][2] # ""
ListedNames(h) ==
  LET listed[i \in 0..Len(HeaderOrder)] ==
        IF i = 0 THEN <<>>
        ELSE IF HeaderOrder[i] \in DOMAIN h.values
             THEN Append(listed[i - 1], HeaderOrder[i]) ELSE listed[i - 1]
  IN IF h.all THEN <<>> ELSE listed[Len(HeaderOrder)]
PrintsHeaders(h) ==
  \A i \in 1..Len(ListedNames(h)) : HasPrefixes(h, ListedNames(h)[i])
PrintedNames(h) ==
  LET names == ListedNames(h)
      before(i) == \A j \in 1..i : HasPrefixes(h, names[j])
  IN SubSeq(names, 1, Cardinality({i \in 1..Len(names) : before(i)}))

ParserStatements(s) ==
  <<InParser("replace_non_ascii", BoolToken(s.nonAscii # ""))>>
  \o (IF s.nonAscii = "" THEN <<>> ELSE
        <<InParser("non_ascii_replacement", StringToken(s.nonAscii))>>)
  \o <<InParser("min_term_length", IntToken(s.minTermLength)),
       InParser("max_term_length", IntToken(s.maxTermLength)),
       InParser("remove_html", BoolToken(s.removeHTML)),
       InParser("min_phrase_terms", IntToken(s.minPhraseTerms)),
       InParser("max_phrase_terms", IntToken(s.maxPhraseTerms)),
       InParser("max_phrase_chars", IntToken(s.maxPhraseChars)),
       InParser("min_phrase_chars", IntToken(s.minPhraseChars)),
       InParser("max_message_terms", IntToken(s.maxTermsPerMessage)),
       InParser("spamprobe_field_name", StringToken(s.fieldName)),
       InParser("keep_suspicious_tags", BoolToken(s.keepSuspiciousTags)),
       InParser("ignore_body", BoolToken(s.ignoreBody)),
       Statement("parser", "header", <<>>)>>

HeaderStatements(h) ==
  LET names == PrintedNames(h)
      prefix(n) == <<StringToken(n), StringToken(h.values[n][1]),
                     StringToken(h.values[n][2])>>
  IN <<InHeader("blank_prefixes_mode", BoolToken(h.blank)),
       InHeader("ignore_x_headers_mode", BoolToken(h.all /\ h.noX)),
       InHeader("all_headers_mode", BoolToken(h.all)),
       InHeader("no_headers_mode",
                BoolToken(~h.all /\ DOMAIN h.values = {}))>>
     \o [i \in 1..Len(names) |->
           Statement("header", "full_prefix", prefix(names[i]))]

(* Mutant: the score mode is written behind what it sets. *)
FilterStatementsModeLast(s) ==
  <<InFilter("good_bias", IntToken(s.goodBias)),
    InFilter("terms_for_score", IntToken(s.termsForScore)),
    InFilter("max_word_repeats", IntToken(s.maxWordRepeats)),
    InFilter("min_word_count", IntToken(s.minWordCount)),
    InFilter("extend_top_terms", BoolToken(s.extendTopTerms)),
    InFilter("min_array_size", IntToken(s.minArraySize)),
    InFilter("water_counts", BoolToken(s.waterCounts)),
    InFilter("new_word_score", DoubleToken(s.newWordScore)),
    InFilter("spam_threshold", DoubleToken(s.spamThreshold)),
    InFilter("min_distance_for_score", DoubleToken(s.minDistance)),
    InFilter("score_mode", IdToken(s.scoreMode))>>

FilterStatements(s) ==
  <<InFilter("score_mode", IdToken(s.scoreMode)),
    InFilter("good_bias", IntToken(s.goodBias)),
    InFilter("terms_for_score", IntToken(s.termsForScore)),
    InFilter("max_word_repeats", IntToken(s.maxWordRepeats)),
    InFilter("min_word_count", IntToken(s.minWordCount)),
    InFilter("extend_top_terms", BoolToken(s.extendTopTerms)),
    InFilter("min_array_size", IntToken(s.minArraySize)),
    InFilter("water_counts", BoolToken(s.waterCounts)),
    InFilter("new_word_score", DoubleToken(s.newWordScore)),
    InFilter("spam_threshold", DoubleToken(s.spamThreshold)),
    InFilter("min_distance_for_score", DoubleToken(s.minDistance))>>

DatabaseStatements(s) ==
  <<InDatabase("type", IdToken(IF s.type = "" THEN "default" ELSE s.type)),
    InDatabase("private_filename", StringToken(s.private)),
    InDatabase("shared_filename", StringToken(s.shared)),
    InDatabase("target_size_mb", IntToken(s.targetSizeMB)),
    InDatabase("max_cache_terms", IntToken(s.maxCacheTerms))>>

(* The file a command leaves that writes the settings; the stream is closed *)
(* when the loop over the headers throws.                                    *)
WrittenFile(s) ==
  LET whole == PrintsHeaders(s.headers)
  IN [exists |-> TRUE, complete |-> whole,
      statements |->
        ParserStatements(s) \o HeaderStatements(s.headers)
        \o (IF whole THEN FilterStatements(s) \o DatabaseStatements(s)
                     ELSE <<>>)]

------------------------------------------------------------------------------
(* loadParserConfig, loadFilterConfig and loadDatabaseConfig: one statement. *)

LoadParserStatement(st, s) ==
  LET arg == st.args[1]
  IN CASE st.name = "replace_non_ascii" ->
            SetReplaceNonAscii(s, IF IsTrueValue(arg) THEN "z" ELSE "")
       [] st.name = "non_ascii_replacement" ->
            IF arg.string = "" THEN s ELSE SetReplaceNonAscii(s, arg.string)
       [] st.name = "min_term_length" -> [s EXCEPT !.minTermLength = arg.number]
       [] st.name = "max_term_length" -> [s EXCEPT !.maxTermLength = arg.number]
       [] st.name = "remove_html" -> [s EXCEPT !.removeHTML = IsTrueValue(arg)]
       [] st.name = "min_phrase_terms" ->
            [s EXCEPT !.minPhraseTerms = arg.number]
       [] st.name = "max_phrase_terms" ->
            [s EXCEPT !.maxPhraseTerms = arg.number]
       [] st.name = "min_phrase_chars" ->
            [s EXCEPT !.minPhraseChars = arg.number]
       [] st.name = "max_phrase_chars" ->
            [s EXCEPT !.maxPhraseChars = arg.number]
       [] st.name = "max_message_terms" ->
            [s EXCEPT !.maxTermsPerMessage = arg.number]
       [] st.name = "spamprobe_field_name" -> [s EXCEPT !.fieldName = arg.string]
       [] st.name = "keep_suspicious_tags" ->
            [s EXCEPT !.keepSuspiciousTags = IsTrueValue(arg)]
       [] st.name = "ignore_body" -> [s EXCEPT !.ignoreBody = IsTrueValue(arg)]

LoadFilterStatement(st, s) ==
  LET arg == st.args[1]
  IN CASE st.name = "score_mode" -> SetScoreMode(s, arg.string)
       [] st.name = "good_bias" -> [s EXCEPT !.goodBias = arg.number]
       [] st.name = "terms_for_score" -> [s EXCEPT !.termsForScore = arg.number]
       [] st.name = "max_word_repeats" ->
            [s EXCEPT !.maxWordRepeats = arg.number]
       [] st.name = "min_word_count" -> SetMinWordCount(s, arg.number)
       [] st.name = "extend_top_terms" ->
            [s EXCEPT !.extendTopTerms = IsTrueValue(arg)]
       [] st.name = "min_array_size" -> [s EXCEPT !.minArraySize = arg.number]
       [] st.name = "water_counts" -> [s EXCEPT !.waterCounts = IsTrueValue(arg)]
       [] st.name = "new_word_score" ->
            [s EXCEPT !.newWordScore = DoubleValue(arg)]
       [] st.name = "spam_threshold" -> SetSpamThreshold(s, DoubleValue(arg))
       [] st.name = "min_distance_for_score" ->
            [s EXCEPT !.minDistance = DoubleValue(arg)]

LoadDatabaseStatement(st, s) ==
  LET arg == st.args[1]
  IN CASE st.name = "type" ->
            [s EXCEPT !.type = IF arg.string = "default" THEN ""
                                                         ELSE arg.string]
       [] st.name = "private_filename" -> [s EXCEPT !.private = arg.string]
       [] st.name = "shared_filename" -> [s EXCEPT !.shared = arg.string]
       [] st.name = "target_size_mb" -> [s EXCEPT !.targetSizeMB = arg.number]
       [] st.name = "max_cache_terms" -> [s EXCEPT !.maxCacheTerms = arg.number]

(* loadHeaderConfig: the first prefix of a list takes the place of the      *)
(* default headers, unless a mode already has; "reset" says so.             *)
LoadHeaderStatement(st, h, reset) ==
  LET list == IF reset THEN h ELSE NoHeaders
      on == IsTrueValue(st.args[1])
      modes == [ignore_x_headers_mode |-> NonXHeaders,
                all_headers_mode |-> AllHeaders,
                no_headers_mode |-> NoHeaders]
  IN CASE st.name = "simple_prefix" ->
            [headers |-> AddSimpleHeaderPrefix(list, st.args[1].string),
             reset |-> TRUE]
       [] st.name = "full_prefix" ->
            [headers |-> AddHeaderPrefix(list, st.args[1].string,
                           st.args[2].string, st.args[3].string),
             reset |-> TRUE]
       [] st.name = "blank_prefixes_mode" ->
            [headers |-> [h EXCEPT !.blank = @ \/ on], reset |-> reset]
       [] st.name \in DOMAIN modes ->
            [headers |-> IF on THEN modes[st.name] ELSE h,
             reset |-> reset \/ on]

(* What a load applies to the settings for one statement of the file. *)
Loaded(st, s, reset) ==
  CASE st.name = "header" ->
         [settings |-> [s EXCEPT !.headers = DefaultHeaders], reset |-> FALSE]
    [] st.block = "header" ->
         LET step == LoadHeaderStatement(st, s.headers, reset)
         IN [settings |-> [s EXCEPT !.headers = step.headers],
             reset |-> step.reset]
    [] st.block = "parser" /\ st.name # "header" ->
         [settings |-> LoadParserStatement(st, s), reset |-> reset]
    [] st.block = "filter" ->
         [settings |-> LoadFilterStatement(st, s), reset |-> reset]
    [] st.block = "database" ->
         [settings |-> LoadDatabaseStatement(st, s), reset |-> reset]
=============================================================================
