------------------------------ MODULE Commands ------------------------------
(* define_commands: every command by what main(), execute() and             *)
(* processMessage() make of it.                                              *)
(*   kind      what execute() goes through: mailboxes one by one, mailboxes  *)
(*             mixed by class, a list of mailboxes on standard input, the    *)
(*             terms of the database, or no database at all                  *)
(*   readOnly  the database is opened to be read                             *)
(*   changes   the records of the database may change                        *)
(*   single    standard input is one message unless -m says otherwise        *)
(*   counts    the numbers of arguments argsOK() takes                       *)
(*   checks    the arguments must be numbers, or files that are there        *)
(*   verdict   what isMessageSpam() says after a message                     *)
EXTENDS Integers

CONSTANT MaxArgs     \* bound: arguments of a command

AnyCount == 0..MaxArgs

------------------------------------------------------------------------------
(* AbstractFileCommand and AbstractMessageCommand *)

OnMessages(name, changes, verdict) ==
  [name |-> name, kind |-> "messages", readOnly |-> FALSE, changes |-> changes,
   single |-> FALSE, counts |-> AnyCount, checks |-> TRUE, verdict |-> verdict]

Good == OnMessages("good", TRUE, "good")
TrainGood == OnMessages("train-good", TRUE, "good")
Spam == OnMessages("spam", TRUE, "spam")
TrainSpam == OnMessages("train-spam", TRUE, "spam")

Receive == [OnMessages("receive", TRUE, "scored") EXCEPT !.single = TRUE]
Train == [OnMessages("train", TRUE, "scored") EXCEPT !.single = TRUE]
Score == [OnMessages("score", FALSE, "scored") EXCEPT !.readOnly = TRUE]

Remove == OnMessages("remove", TRUE, "kept")

(* These only report and yet lock and open the database for writing. *)
FindGood == OnMessages("find-good", FALSE, "scored")
FindSpam == OnMessages("find-spam", FALSE, "scored")
Summarize == OnMessages("summarize", FALSE, "scored")
Tokenize == OnMessages("tokenize", FALSE, "kept")

AutoTrain == [OnMessages("auto-train", TRUE, "never") EXCEPT !.kind = "balanced"]
AutoLearn == [AutoTrain EXCEPT !.name = "auto-learn"]

TrainTest == [OnMessages("train-test", TRUE, "never")
                EXCEPT !.kind = "listed", !.counts = {0}, !.checks = FALSE]
LearnTest == [TrainTest EXCEPT !.name = "learn-test"]

------------------------------------------------------------------------------
(* AbstractCommand: the commands that read or change terms. *)

OnTerms(name, changes, counts, checks) ==
  [name |-> name, kind |-> "terms", readOnly |-> FALSE, changes |-> changes,
   single |-> FALSE, counts |-> counts \cap AnyCount, checks |-> checks,
   verdict |-> "never"]
Looks(command) == [command EXCEPT !.readOnly = TRUE, !.changes = FALSE]

Cleanup == OnTerms("cleanup", TRUE, {n \in AnyCount : n % 2 = 0}, TRUE)
Purge == OnTerms("purge", TRUE, 0..1, TRUE)
PurgeTerms == OnTerms("purge-terms", TRUE, {1}, FALSE)
EditTerm == OnTerms("edit-term", TRUE, {3}, TRUE)
Import == OnTerms("import", TRUE, AnyCount, TRUE)
Exec == OnTerms("exec", FALSE, AnyCount \ {0}, FALSE)
ExecShared == Looks([Exec EXCEPT !.name = "exec-shared"])
Counts == Looks(OnTerms("counts", FALSE, {0}, FALSE))
Dump == Looks(OnTerms("dump", FALSE, 0..1, FALSE))
Export == Looks(OnTerms("export", FALSE, {0}, FALSE))
PrintTerms == Looks(OnTerms("print", FALSE, AnyCount \ {0}, FALSE))

------------------------------------------------------------------------------
(* The commands around the database. *)

CreateDb == [OnTerms("create-db", FALSE, {0}, FALSE) EXCEPT !.kind = "create-db"]
WriteConfig ==
  [OnTerms("create-config", FALSE, {0}, FALSE) EXCEPT !.kind = "create-config"]
ShowHelp ==
  [Looks(OnTerms("help", FALSE, AnyCount, FALSE)) EXCEPT !.kind = "help"]

AllCommands ==
  {AutoLearn, AutoTrain, Cleanup, Counts, WriteConfig, CreateDb, Dump, EditTerm,
   Exec, ExecShared, Export, FindGood, FindSpam, Good, ShowHelp, Import,
   LearnTest, PrintTerms, Purge, PurgeTerms, Receive, Remove, Score, Spam,
   Summarize, Train, TrainGood, TrainSpam, Tokenize, TrainTest}

NoCommand == [Looks(OnTerms("", FALSE, {}, FALSE)) EXCEPT !.kind = "none"]

(* argsOK: without arguments there is nothing to check. *)
ArgsOK(command, count, proper) ==
  /\ count \in command.counts
  /\ command.checks /\ count > 0 => proper

(* What isMessageSpam() says once a message is processed; before is what it *)
(* said of the one before it in the mailbox.                                 *)
Verdicts(command, before) ==
  CASE command.verdict = "good" -> {FALSE}
    [] command.verdict = "spam" -> {TRUE}
    [] command.verdict = "scored" -> BOOLEAN
    [] command.verdict = "kept" -> {before}
    [] command.verdict = "never" -> {FALSE}
==============================================================================
