------------------------------- MODULE Session -------------------------------
(* The program as its user meets it: runs of main() one after the other,    *)
(* each with its options, one command and its exit status, over the files    *)
(* that stay on disk between them: configuration files and databases.       *)
(*                                                                           *)
(* A directory stands for what is in it: at most one file spamprobe.hdl and  *)
(* one database sp_words, whose files are known by their suffix.  Of the     *)
(* records in a database the model keeps whether this run changed them.      *)
EXTENDS ConfigFile, DatabaseTypes, Commands

CONSTANTS
  Dirs,          \* directories; "home" is ~/.spamprobe
  StartDirs,     \* the sets of directories there may be at first
  StartConfigs,  \* the configuration files there may be in "home" at first
  Called,        \* the commands that are called: some of AllCommands
  Numbers,       \* arguments of the options that take a number
  Thresholds,    \* arguments of -l
  Chars,         \* arguments of -a
  FieldNames,    \* arguments of -g
  HeaderWays,    \* arguments of -H: [way, name]
  TypedDirs,     \* arguments of -d: [type, size, dir], size <<>> or <<n>>
  CaseNames,     \* arguments of -t
  ExtraNames,    \* arguments of -o
  MaxRuns,       \* bound: runs of the program
  MaxOptions,    \* bound: options of all runs together
  MaxFiles,      \* bound: mailboxes a command is given
  MaxMessages    \* bound: messages in a mailbox

ASSUME SessionAssumption == Called \subseteq AllCommands

(* A file that is loaded names no directory but those of the model, nor does *)
(* the command line.                                                         *)
NamesDatabase(st) == st.block = "database" /\ st.name = "private_filename"
InDirs(file) ==
  Readable(file) =>
    \A i \in DOMAIN file.statements :
      NamesDatabase(file.statements[i]) =>
        file.statements[i].args[1].string \in Dirs
ASSUME DirsAssumption == /\ "home" \in Dirs
                         /\ \A arg \in TypedDirs : arg.dir \in Dirs
                         /\ \A file \in StartConfigs \cup {NoFile} : InDirs(file)

(* The tokens of a file that is there at first are tokens that can be read:  *)
(* numbers without a sign, from readNumber; and its headers, like those of   *)
(* the command line, are among the ones whose order the model knows, none of *)
(* which holds a quote.                                                      *)
HeaderNames == {HeaderOrder[i] : i \in DOMAIN HeaderOrder}
KnownTokens(file) ==
  \A i \in DOMAIN file.statements :
    LET st == file.statements[i]
    IN /\ \A k \in 1..Len(st.args) : st.args[k].number \in Nat
       /\ st.name \in {"simple_prefix", "full_prefix"} =>
            st.args[1].string \in HeaderNames
ASSUME TokensAssumption == /\ \A file \in StartConfigs : KnownTokens(file)
                           /\ HeaderNames \cap Unquotable = {}
ASSUME ArgsAssumption ==
  /\ \A h \in HeaderWays :
       /\ h.way \in {"all", "nox", "normal", "none", "+", "-"}
       /\ h.way = "+" => h.name \in HeaderNames
  /\ \A arg \in TypedDirs : arg.size # <<>> => Head(arg.size) \in Int

VARIABLES
  disk,          \* what is kept: directories, configuration files, databases
  settings,      \* the ConfigManager of the run
  run,           \* the locals of main()
  job,           \* the command that is being executed
  history        \* what the properties remember of earlier steps
vars == <<disk, settings, run, job, history>>

------------------------------------------------------------------------------
NoLoad == [dir |-> "", at |-> 0, reset |-> FALSE, setsPrivate |-> FALSE]
NewRun(pc) ==
  [pc |-> pc, basedir |-> "home", configFile |-> "home", load |-> NoLoad,
   usageError |-> FALSE, forceMbox |-> FALSE, single |-> FALSE,
   version |-> FALSE, status |-> FALSE, failed |-> FALSE,
   testCases |-> <<>>, extended |-> <<>>, command |-> NoCommand,
   store |-> NoStore, exit |-> 0]
NoJob == [files |-> 0, messages |-> 0, open |-> FALSE, counted |-> 0,
          perPurge |-> 0, isSpam |-> FALSE]

Never == [made |-> FALSE, settings |-> InitialSettings]

Init ==
  /\ \E there \in StartDirs, file \in StartConfigs :
       disk = [dirs |-> there, files |-> [d \in Dirs |-> {}],
               touched |-> {},
               configs |-> [d \in Dirs |->
                              IF d = "home" /\ d \in there THEN file
                                                           ELSE NoFile]]
  /\ settings = InitialSettings
  /\ run = NewRun("start")
  /\ job = NoJob
  /\ history = [runs |-> 0, options |-> 0, before |-> disk, given |-> <<>>,
                plain |-> TRUE, unswept |-> 0,
                saved |-> [d \in Dirs |-> Never],
                stores |-> [d \in Dirs |-> {}]]

Exit(code) == run' = [run EXCEPT !.pc = "done", !.exit = code]

Killed == 136   \* by a division by zero

(* The end of main(): -R asks for the class of the last message. *)
EndStatus == IF run.status /\ ~job.isSpam THEN 1 ELSE 0

(* A new process: main() up to the configuration file it always looks for. *)
Start ==
  /\ run.pc = "start"
  /\ settings' = InitialSettings
  /\ run' = [NewRun("loading") EXCEPT !.load = [NoLoad EXCEPT !.dir = "home"]]
  /\ disk' = [disk EXCEPT !.touched = {}]
  /\ history' = [history EXCEPT !.runs = @ + 1, !.before = disk',
                                !.given = <<>>, !.plain = TRUE, !.unswept = 0]
  /\ job' = NoJob

------------------------------------------------------------------------------
(* load_config_file and ConfigManager::loadFromFile *)

LoadedFile == disk.configs[run.load.dir]

(* A file that does not parse or breaks the syntax ends the program before  *)
(* any of it is applied.                                                     *)
RejectConfig ==
  /\ run.pc = "loading" /\ run.load.at = 0
  /\ LoadedFile.exists /\ ~Readable(LoadedFile)
  /\ Exit(1)
  /\ UNCHANGED <<disk, settings, job, history>>

ApplyStatement ==
  /\ run.pc = "loading"
  /\ LoadedFile.exists /\ Readable(LoadedFile)
  /\ run.load.at + 1 \in DOMAIN LoadedFile.statements
  /\ LET i == run.load.at + 1
         step == Loaded(LoadedFile.statements[i], settings, run.load.reset)
     IN /\ settings' = step.settings
        /\ run' = [run EXCEPT !.load.at = i, !.load.reset = step.reset]
  /\ UNCHANGED <<disk, job, history>>

LoadIsOver ==
  /\ run.pc = "loading"
  /\ LoadedFile.exists =>
       /\ Readable(LoadedFile)
       /\ run.load.at + 1 \notin DOMAIN LoadedFile.statements

(* The file that was loaded is the one create-config will write; -d goes on *)
(* to name the database.                                                     *)
EndLoad ==
  /\ LoadIsOver
  /\ run' = [run EXCEPT !.pc = "options", !.load = NoLoad,
                        !.configFile = IF LoadedFile.exists THEN run.load.dir
                                                            ELSE @]
  /\ settings' = [settings EXCEPT
                    !.private = IF run.load.setsPrivate THEN run.basedir ELSE @]
  /\ history' = [history EXCEPT !.given =
       (IF run.load.setsPrivate THEN "private" :> run.basedir ELSE <<>>)
       @@ (IF LoadedFile.exists THEN <<>> ELSE @)]
  /\ UNCHANGED <<disk, job>>

------------------------------------------------------------------------------
(* The option loop of main(): one action for the options of one kind.  What  *)
(* an option sets is remembered as given until a file is loaded over it.     *)

Option ==
  /\ run.pc = "options"
  /\ history.options < MaxOptions
  /\ UNCHANGED <<disk, job>>

Sets(s, given) ==
  /\ settings' = s
  /\ history' = [history EXCEPT !.options = @ + 1, !.given = given @@ @]
  /\ UNCHANGED run
Notes(r) ==
  /\ run' = r
  /\ history' = [history EXCEPT !.options = @ + 1]
  /\ UNCHANGED settings
UsageError == Notes([run EXCEPT !.usageError = TRUE])

(* parse_int_arg and the options that take a number *)
Numbered(n, low, high, s, given) ==
  IF n \in low..high THEN Sets(s, given) ELSE UsageError

OptionNumber ==
  /\ Option
  /\ \E n \in Numbers :
       \/ Numbered(n, 0, 10000, SetMinWordCount(settings, n),
                   "minWordCount" :> n)
       \/ Numbered(n, 1, 10, [settings EXCEPT !.maxPhraseTerms = n],
                   "maxPhraseTerms" :> n)
       \/ Numbered(n, 1, 100000, [settings EXCEPT !.messagesPerPurge = n],
                   <<>>)
       \/ Numbered(n, 1, 10, [settings EXCEPT !.maxWordRepeats = n],
                   "maxWordRepeats" :> n)
       \/ Numbered(n, 5, 500, [settings EXCEPT !.termsForScore = n],
                   "termsForScore" :> n)
       \/ LET size == IF n = 0 THEN 100000 ELSE n
          IN Numbered(n, 0, 100000, [settings EXCEPT !.maxCacheTerms = size],
                      "maxCacheTerms" :> size)

OptionThreshold ==
  /\ Option
  /\ \E v \in Thresholds :
       Numbered(v, 0, One, SetDefaultThreshold(settings, v),
                "spamThreshold" :> v)

OptionText ==
  /\ Option
  /\ \/ \E c \in Chars : Sets(SetReplaceNonAscii(settings, c), "nonAscii" :> c)
     \/ Sets(SetReplaceNonAscii(settings, " "), "nonAscii" :> " ")
     \/ Sets(SetReplaceNonAscii(settings, ""), "nonAscii" :> "")
     \/ \E name \in FieldNames :
          Sets([settings EXCEPT !.fieldName = name], "fieldName" :> name)
     \/ Sets([settings EXCEPT !.removeHTML = FALSE], "removeHTML" :> FALSE)
     \/ \E h \in HeaderWays :
          Sets([settings EXCEPT !.headers = SetHeaders(@, h.way, h.name)], <<>>)

OptionSwitch ==
  /\ Option
  /\ \/ Sets([settings EXCEPT !.createDbDir = TRUE], <<>>)
     \/ Sets([settings EXCEPT !.ignoreContentLength = TRUE], <<>>)
     \/ Sets([settings EXCEPT !.extendTopTerms = TRUE],
             "extendTopTerms" :> TRUE)
     \/ Sets(With(settings, Sigs), Sigs)
     \/ Notes([run EXCEPT !.forceMbox = TRUE])
     \/ Notes([run EXCEPT !.single = TRUE])
     \/ Notes([run EXCEPT !.single = TRUE, !.status = TRUE])
     \/ Notes([run EXCEPT !.version = TRUE])
     \/ UsageError

OptionNamed ==
  /\ Option
  /\ \/ \E t \in CaseNames : run' = [run EXCEPT !.testCases = Append(@, t)]
     \/ \E o \in ExtraNames : run' = [run EXCEPT !.extended = Append(@, o)]
  /\ history' = [history EXCEPT !.options = @ + 1, !.plain = FALSE]
  /\ UNCHANGED settings

(* -d: the type and the size are set before the configuration file of the   *)
(* directory is read, the name of the database after it.                    *)
OptionDatabase ==
  /\ Option
  /\ \E arg \in TypedDirs :
       LET size == IF arg.size = <<>> THEN settings.targetSizeMB
                                        ELSE Head(arg.size)
       IN /\ settings' = [settings EXCEPT !.type = arg.type,
                                          !.targetSizeMB = size]
          /\ run' = [run EXCEPT !.pc = "loading", !.basedir = arg.dir,
                       !.load = [NoLoad EXCEPT !.dir = arg.dir,
                                               !.setsPrivate = TRUE]]
          /\ history' = [history EXCEPT !.options = @ + 1,
                           !.given = ("type" :> arg.type) @@ @]

(* -D: a type in front of the path is read and dropped. *)
OptionShared ==
  /\ Option
  /\ \E dir \in Dirs : Sets([settings EXCEPT !.shared = dir], "shared" :> dir)

(* -f: the file must be there; it changes the settings but does not name    *)
(* the database.                                                             *)
OptionConfigFile ==
  /\ Option
  /\ \E dir \in Dirs :
       IF disk.configs[dir].exists
       THEN /\ run' = [run EXCEPT !.pc = "loading", !.basedir = dir,
                                  !.load = [NoLoad EXCEPT !.dir = dir]]
            /\ history' = [history EXCEPT !.options = @ + 1]
            /\ UNCHANGED settings
       ELSE UsageError

------------------------------------------------------------------------------
(* main() from the end of the options to the call of execute() *)

FindCommand ==
  /\ run.pc = "options"
  /\ \/ /\ ~run.usageError
        /\ \E c \in Called, count \in AnyCount, proper \in BOOLEAN :
             /\ run' = [run EXCEPT !.pc = "found", !.command = c,
                          !.usageError = ~ArgsOK(c, count, proper)]
             /\ settings' = IF c.readOnly
                            THEN [settings EXCEPT !.messagesPerPurge = 0]
                            ELSE settings
     \/ /\ run' = [run EXCEPT !.pc = "found", !.usageError = TRUE]
        /\ UNCHANGED settings
  /\ UNCHANGED <<disk, job, history>>

(* createDbDir, SpamFilter::lock and createDatabaseImpl: what an attempt to  *)
(* open the database leaves and whether it succeeds.  The lock file needs    *)
(* the directory; the shared database is only read and comes first.          *)
Opening(readOnly, create) ==
  LET dir == settings.private
      store == BestFit(settings.type, disk.files[dir])
      dirs == IF create THEN disk.dirs \cup {dir} ELSE disk.dirs
      shared == settings.shared
      sharedOK == shared = "" \/ CanOpen(BestFit("", disk.files[shared]),
                                         disk.files[shared], TRUE)
      works == dir \in dirs /\ sharedOK
               /\ CanOpen(store, disk.files[dir], readOnly)
  IN [works |-> works, store |-> store,
      disk |-> [disk EXCEPT !.dirs = dirs,
                  !.files[dir] = IF works THEN Opened(store, @, readOnly)
                                          ELSE @]]

(* Mutant: the version is printed with the database open for writing. *)
ShowUsageWriting ==
  /\ run.pc = "found"
  /\ run.usageError \/ run.version
  /\ disk' = Opening(FALSE, FALSE).disk
  /\ Exit(IF run.version THEN 0 ELSE 1)
  /\ UNCHANGED <<settings, job, history>>

(* print_usage and print_version: the latter opens the database to name its *)
(* type and keeps quiet when that fails.                                     *)
ShowUsage ==
  /\ run.pc = "found"
  /\ run.usageError \/ run.version
  /\ disk' = Opening(TRUE, FALSE).disk
  /\ Exit(IF run.version THEN 0 ELSE 1)
  /\ UNCHANGED <<settings, job, history>>

SingleMessage ==
  /\ run.pc = "found"
  /\ ~run.usageError /\ ~run.version
  /\ settings' = IF run.single \/ (run.command.single /\ ~run.forceMbox)
                 THEN [settings EXCEPT !.ignoreFrom = TRUE,
                                       !.ignoreContentLength = TRUE]
                 ELSE settings
  /\ run' = [run EXCEPT !.pc = "cases"]
  /\ UNCHANGED <<disk, job, history>>

(* process_test_cases and process_extended_options: an unknown name is      *)
(* reported, the others still count, and the program ends after the loop.   *)
ApplyTestCase ==
  /\ run.pc = "cases" /\ run.testCases # <<>>
  /\ LET t == Head(run.testCases)
     IN /\ settings' = IF t \in TestCases THEN TestCase(t, settings)
                                          ELSE settings
        /\ run' = [run EXCEPT !.testCases = Tail(@),
                              !.failed = @ \/ t \notin TestCases]
  /\ UNCHANGED <<disk, job, history>>

ApplyExtendedOption ==
  /\ run.pc = "extras" /\ run.extended # <<>>
  /\ LET o == Head(run.extended)
     IN /\ settings' = IF o \in ExtendedOptions THEN ExtendedOption(o, settings)
                                                ELSE settings
        /\ run' = [run EXCEPT !.extended = Tail(@),
                              !.failed = @ \/ o \notin ExtendedOptions]
  /\ UNCHANGED <<disk, job, history>>

EndOfNames ==
  /\ \/ run.pc = "cases" /\ run.testCases = <<>>
     \/ run.pc = "extras" /\ run.extended = <<>>
  /\ IF run.failed THEN Exit(1)
     ELSE run' = [run EXCEPT !.pc = IF run.pc = "cases" THEN "extras"
                                                        ELSE "execute"]
  /\ UNCHANGED <<disk, settings, job, history>>

------------------------------------------------------------------------------
(* execute() of the commands that do not open a database *)

(* An unwritable name makes a stream that takes nothing, which nobody asks;  *)
(* the file that is written is the one the run loaded last.                  *)
CreateConfig ==
  /\ run.pc = "execute" /\ run.command.kind = "create-config"
  /\ LET dir == run.configFile
         whole == PrintsHeaders(settings.headers)
     IN /\ IF dir \in disk.dirs
           THEN /\ disk' = [disk EXCEPT !.configs[dir] = WrittenFile(settings)]
                /\ history' = [history EXCEPT !.saved[dir] =
                     IF whole THEN [made |-> TRUE, settings |-> settings]
                              ELSE Never]
           ELSE UNCHANGED <<disk, history>>
        /\ Exit(IF whole THEN EndStatus ELSE 1)
  /\ UNCHANGED <<settings, job>>

Help ==
  /\ run.pc = "execute" /\ run.command.kind = "help"
  /\ Exit(EndStatus)
  /\ UNCHANGED <<disk, settings, job, history>>

(* openDatabase: what was made before a failure stays.  create-db makes the  *)
(* directory without being asked.                                            *)
OpenDatabase ==
  /\ run.pc = "execute"
  /\ run.command.kind \notin {"create-config", "help"}
  /\ LET readOnly == run.command.readOnly
         create == \/ run.command.kind = "create-db"
                   \/ settings.createDbDir /\ ~readOnly
         opening == Opening(readOnly, create)
     IN /\ disk' = opening.disk
        /\ IF opening.works
           THEN /\ run' = [run EXCEPT !.pc = "work", !.store = opening.store]
                /\ history' = [history EXCEPT !.stores[settings.private] =
                                 IF readOnly THEN @ ELSE @ \cup {opening.store}]
           ELSE Exit(1) /\ UNCHANGED history
  /\ UNCHANGED <<settings, job>>

------------------------------------------------------------------------------
(* execute() with the database open *)

Changed(d) == [d EXCEPT !.touched = @ \cup {settings.private}]

(* The commands that work on terms: cleanup, counts, dump, edit-term, exec,  *)
(* export, import, print, purge and purge-terms.                             *)
TermsCommand ==
  /\ run.pc = "work" /\ run.command.kind = "terms"
  /\ \/ disk' = disk
     \/ run.command.changes /\ disk' = Changed(disk)
  /\ Exit(EndStatus)
  /\ UNCHANGED <<settings, job, history>>

Reading == run.pc = "work" /\ run.command.kind \in {"messages", "balanced",
                                                    "listed"}

(* processFile with its AutoPurger; the commands that balance good against   *)
(* spam read all their mailboxes as one and draw from it.  A mailbox may be a  *)
(* maildir: ignoreFrom makes one message of a file, not of a directory.        *)
StartFile ==
  /\ Reading /\ ~job.open
  /\ job.files < (IF run.command.kind = "balanced" THEN 1 ELSE MaxFiles)
  /\ \E n \in 0..MaxMessages :
       /\ run.command.kind = "balanced" => n > 0
       /\ job' = [files |-> job.files + 1, messages |-> n, open |-> TRUE,
                  counted |-> 0, isSpam |-> FALSE,
                  perPurge |-> IF run.command.readOnly
                               THEN 0 ELSE settings.messagesPerPurge]
  /\ UNCHANGED <<disk, settings, run, history>>

(* AutoTrainMailMessageReader draws a number below the number of messages:   *)
(* without one the division kills the program.                               *)
NothingToBalance ==
  /\ Reading /\ ~job.open /\ job.files = 0
  /\ run.command.kind = "balanced"
  /\ Exit(Killed)
  /\ UNCHANGED <<disk, settings, job, history>>

(* shouldProcessMessage: a mail program marked the message as deleted. *)
SkipMessage ==
  /\ Reading /\ job.open /\ job.messages > 0
  /\ settings.statusField # "" /\ ~settings.pretokenized
  /\ run.command.kind # "balanced"
  /\ job' = [job EXCEPT !.messages = @ - 1]
  /\ UNCHANGED <<disk, settings, run, history>>

(* processMessage and AutoPurger::processedMessage *)
ProcessMessage ==
  /\ Reading /\ job.open /\ job.messages > 0
  /\ LET counted == IF job.perPurge > 0 THEN job.counted + 1 ELSE 0
         sweeps == job.perPurge > 0 /\ counted % job.perPurge = 0
     IN \E verdict \in Verdicts(run.command, job.isSpam),
          changes \in {FALSE, run.command.changes} :
          /\ job' = [job EXCEPT !.messages = @ - 1, !.counted = counted,
                                !.isSpam = verdict]
          /\ disk' = IF changes \/ sweeps THEN Changed(disk) ELSE disk
          /\ history' = [history EXCEPT !.unswept =
                           IF sweeps \/ job.perPurge = 0 THEN 0 ELSE @ + 1]
  /\ UNCHANGED <<settings, run>>

(* Mutant: the end of a file is not a reason to sweep. *)
FinishFileUnswept ==
  /\ Reading /\ job.open /\ job.messages = 0
  /\ job' = [job EXCEPT !.open = FALSE]
  /\ UNCHANGED <<disk, settings, run, history>>

(* AutoPurger::finish *)
FinishFile ==
  /\ Reading /\ job.open /\ job.messages = 0
  /\ LET sweeps == job.perPurge > 0 /\ job.counted % job.perPurge # 0
     IN /\ disk' = IF sweeps THEN Changed(disk) ELSE disk
        /\ history' = [history EXCEPT !.unswept = IF sweeps THEN 0 ELSE @]
  /\ job' = [job EXCEPT !.open = FALSE]
  /\ UNCHANGED <<settings, run>>

(* learn-test and train-test: a name in the list is not that of a file, or   *)
(* its type is neither spam nor good.                                        *)
BadLine ==
  /\ Reading /\ ~job.open
  /\ run.command.kind = "listed"
  /\ Exit(1)
  /\ UNCHANGED <<disk, settings, job, history>>

(* An interrupt in the middle: the exception unwinds execute(), the close of *)
(* the filter keeps what was done.                                           *)
Interrupted ==
  /\ Reading /\ job.open
  /\ Exit(0)
  /\ UNCHANGED <<disk, settings, job, history>>

(* When every name was skipped, no file has set the class that -R asks for. *)
EndCommand ==
  /\ \/ Reading /\ ~job.open /\ (run.command.kind = "balanced" => job.files > 0)
     \/ run.pc = "work" /\ run.command.kind = "create-db"
  /\ \/ Exit(EndStatus)
     \/ run.status /\ run.command.kind = "messages" /\ job.files = 0 /\ Exit(0)
  /\ UNCHANGED <<disk, settings, job, history>>

------------------------------------------------------------------------------

Again ==
  /\ run.pc = "done" /\ history.runs < MaxRuns
  /\ run' = NewRun("start")
  /\ UNCHANGED <<disk, settings, job, history>>

Stop == run.pc = "done" /\ history.runs = MaxRuns /\ UNCHANGED vars

Next ==
  \/ Start \/ RejectConfig \/ ApplyStatement \/ EndLoad
  \/ OptionNumber \/ OptionThreshold \/ OptionText \/ OptionSwitch
  \/ OptionNamed \/ OptionDatabase \/ OptionShared \/ OptionConfigFile
  \/ FindCommand \/ ShowUsage \/ SingleMessage
  \/ ApplyTestCase \/ ApplyExtendedOption \/ EndOfNames
  \/ CreateConfig \/ Help \/ OpenDatabase \/ TermsCommand
  \/ StartFile \/ NothingToBalance \/ SkipMessage \/ ProcessMessage
  \/ FinishFile \/ BadLine \/ Interrupted \/ EndCommand
  \/ Again \/ Stop

Spec == Init /\ [][Next]_vars

------------------------------------------------------------------------------
(* What the users of the program rely on. *)

(* What writeConfig writes: every number and every string it prints can be   *)
(* read.  The statement of the type takes no other name than those of the    *)
(* syntax.                                                                   *)
Printable(s) ==
  /\ \A v \in {s.newWordScore, s.spamThreshold, s.minDistance} :
       DoubleToken(v) # Unreadable
  /\ s.targetSizeMB >= 0
  /\ s.type \in {"", "bdb", "pbl", "hash", "split"}
  /\ {s.fieldName, s.nonAscii, s.private, s.shared} \cap Unquotable = {}
  /\ \A n \in DOMAIN s.headers.values :
       {s.headers.values[n][1], s.headers.values[n][2]} \cap Unquotable = {}

KeptRoughly == {"newWordScore", "spamThreshold", "minDistance"}
Kept == (ParserMembers \cup FilterMembers \cup DatabaseMembers)
          \ (KeptRoughly \cup {"headers", "defaultMinWordCount",
                              "defaultThreshold", "selectors"})

(* The modes that leave X- headers out and that drop the prefixes do not    *)
(* come back; everything else about the headers does.                        *)
SameHeaders(h, g) == /\ h.all = g.all
                     /\ ~h.all => h.values = g.values

(* The settings a file was written with are in force once the file is       *)
(* loaded, whatever was in force before, fractions to six digits; and it can *)
(* be loaded.  (create-config, writeToFile and loadFromFile.)                *)
SettingsComeBack ==
  LET kept == history.saved[run.load.dir]
      old == kept.settings
  IN run.pc = "loading" /\ kept.made /\ Printable(old) =>
       /\ Readable(LoadedFile)
       /\ LoadIsOver =>
            /\ \A m \in Kept : settings[m] = old[m]
            /\ \A m \in KeptRoughly : settings[m] = SixDigits(old[m])
            /\ SameHeaders(old.headers, settings.headers)

(* A run with a mistake in its options or arguments, one that shows the     *)
(* version and one with a read-only command leave the directories, databases *)
(* and configurations as they were, even with -c and -P.  (main, openDatabase*)
(* and AutoPurger::disable.)                                                 *)
QuietRunsChangeNothing ==
  run.pc = "done" /\ (\/ run.usageError \/ run.version \/ run.failed
                     \/ run.command.readOnly) => disk = history.before

(* What an option asks for is in force when the command starts, whichever   *)
(* options, directories and configuration files follow it, unless a loaded   *)
(* file or a test case says otherwise.  The score mode alt1 has a word count *)
(* of its own, and only the normal one takes a threshold.  (The option loop  *)
(* of main and the setters of FilterConfig.)                                 *)
OptionsInForce ==
  run.pc = "execute" /\ history.plain =>
    \A m \in DOMAIN history.given :
      \/ settings[m] = history.given[m]
      \/ m = "spamThreshold" /\ settings.scoreMode # "normal"
      \/ m = "minWordCount" /\ settings.scoreMode = "alt1"

(* A database that was made with one type is opened as that type by a run   *)
(* that names none, and a read-only run finds it.  A split database is not   *)
(* found again that way.  (createDatabaseImplUsingBestFit.)                  *)
FoundAgain ==
  LET stores == history.stores[settings.private]
  IN run.pc = "execute" /\ settings.type = ""
     /\ Cardinality(stores) = 1 /\ "split" \notin stores =>
       /\ run'.pc = "work" => run'.store \in stores
       /\ run.command.name = "counts" /\ settings.shared = "" =>
            run'.pc = "work"
DatabaseFoundAgain == [][FoundAgain]_vars

(* With -P n fewer than n messages wait for a sweep at any time, and none   *)
(* once a mailbox has been read.  (processFile and AutoPurger.)              *)
SweptInTime ==
  Reading /\ job.perPurge > 0 =>
    /\ history.unswept < job.perPurge
    /\ ~job.open => history.unswept = 0

=============================================================================
