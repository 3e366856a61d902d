------------------------------ MODULE MCSession ------------------------------
(* Runs of the program over two directories for TLC. *)
EXTENDS Session

MCDirs == {"home", "other"}
MCStartDirs == {{"home", "other"}, {}}

(* The build with the hash files and PBL. *)
Entry(prefix, suffix, store) == [prefix |-> prefix, suffix |-> suffix,
                                 store |-> store]
MCDbTypes == <<Entry("split", "", "split"), Entry("hash", "hash", "hash"),
               Entry("pbl", "pkey", "pbl"), Entry("", "pkey", "pbl"),
               Entry("", "hash", "hash")>>

(* Files written by hand: one that is cut short, one that the syntax does   *)
(* not take, one that sets what the score mode resets, and one that names    *)
(* another database.                                                         *)
ByHand(statements) == [exists |-> TRUE, complete |-> TRUE,
                       statements |-> statements]
Broken == [ByHand(<<InFilter("good_bias", IntToken(3))>>)
             EXCEPT !.complete = FALSE]
Wrong == ByHand(<<InFilter("score_mode", IdToken("quick"))>>)
Alt1 == ByHand(<<Statement("parser", "header", <<>>),
                 InHeader("simple_prefix", StringToken("from")),
                 InHeader("blank_prefixes_mode", BoolToken(TRUE)),
                 InFilter("min_word_count", IntToken(7)),
                 InFilter("score_mode", IdToken("alt1"))>>)
Elsewhere == ByHand(<<InDatabase("private_filename", StringToken("other")),
                      InDatabase("type", IdToken("default"))>>)
MCStartConfigs == {NoFile, Broken, Wrong, Alt1, Elsewhere}

MCCalled == {Receive, Score, AutoTrain, TrainTest, Counts, Purge, CreateDb,
             WriteConfig, ShowHelp}
MCNumbers == {0, 2}
MCThresholds == {500, 6543217}
MCChars == {"q"}
MCFieldNames == {"x-mine", "both-quotes"}
MCHeaderWays == {[way |-> "all", name |-> ""], 
                 [way |-> "normal", name |-> ""], [way |-> "+", name |-> "bcc"],
                 [way |-> "-", name |-> "content-type"]}
Arg(type, size, dir) == [type |-> type, size |-> size, dir |-> dir]
MCTypedDirs == {Arg("", <<>>, "other"), Arg("hash", <<-1>>, "other"),
                Arg("split", <<8>>, "other"), Arg("gdbm", <<>>, "home")}
MCCaseNames == {"alt1", "no-such-case"}
MCExtraNames == {"honor-status-header", "tokenized", "no-such"}
=============================================================================
