---------------------------- MODULE SessionProofs ----------------------------
(* A run that only looks, or that ends before its command starts, leaves the *)
(* disk as it was; sweeps come in time; what the options asked for is in     *)
(* force; a database is found again as what it is: for every set of          *)
(* directories, files, commands, options and bounds.                         *)
EXTENDS Session, FiniteSetTheorems, WellFoundedInduction, TLAPS

RunFields == {"pc", "basedir", "configFile", "load", "usageError",
              "forceMbox", "single", "version", "status", "failed",
              "testCases", "extended", "command", "store", "exit"}
LoadFields == {"dir", "at", "reset", "setsPrivate"}
JobFields == {"files", "messages", "open", "counted", "perPurge", "isSpam"}
HistoryFields == {"runs", "options", "before", "given", "plain", "unswept",
                  "saved", "stores"}

(* A disk with nothing but its four parts. *)
Sound(d) == d = [dirs |-> d.dirs, files |-> [e \in Dirs |-> d.files[e]],
                 touched |-> d.touched, configs |-> d.configs]

Shapes == /\ DOMAIN run = RunFields
          /\ DOMAIN job = JobFields
          /\ DOMAIN history = HistoryFields
          /\ Sound(disk)

Early == {"loading", "options", "found", "cases", "extras", "execute"}

(* Nothing has happened to the disk before the command starts. *)
Before == run.pc \in Early =>
            disk = history.before /\ job.perPurge = 0

(* A command that starts was asked for without a mistake. *)
Asked == /\ run.command \in Called \cup {NoCommand}
         /\ run.pc \in {"cases", "extras", "execute", "work"} =>
              ~run.usageError /\ ~run.version
         /\ run.pc \in {"execute", "work"} => ~run.failed

(* A read-only command at work has not changed anything, and never sweeps. *)
Looking == run.pc = "work" /\ run.command.readOnly =>
             disk = history.before /\ job.perPurge = 0

QuietInv == Shapes /\ Before /\ Asked /\ Looking /\ QuietRunsChangeNothing

------------------------------------------------------------------------------
(* The commands *)

Quiet(c) == c.readOnly => ~c.changes /\ c.kind \notin {"create-db", "create-config"}

LEMMA MessageCommands ==
  \A c \in {AutoLearn, AutoTrain, FindGood, FindSpam, Good, LearnTest, Receive,
            Remove, Score, Spam, Summarize, Train, TrainGood, TrainSpam,
            Tokenize, TrainTest} : Quiet(c)
<1>1. \A c \in {Good, TrainGood, Spam, TrainSpam, Receive, Train, Remove} : Quiet(c)
  BY DEF Quiet, OnMessages, Good, TrainGood, Spam, TrainSpam, Receive, Train, Remove
<1>2. \A c \in {FindGood, FindSpam, Summarize, Tokenize, Score} : Quiet(c)
  BY DEF Quiet, OnMessages, FindGood, FindSpam, Summarize, Tokenize, Score
<1>3. \A c \in {AutoTrain, AutoLearn, TrainTest, LearnTest} : Quiet(c)
  BY DEF Quiet, OnMessages, AutoTrain, AutoLearn, TrainTest, LearnTest
<1> QED
  BY <1>1, <1>2, <1>3

Columns == {"name", "kind", "readOnly", "changes", "single", "counts", "checks",
            "verdict"}

(* What only looks at the terms. *)
LEMMA LooksOnly ==
  ASSUME NEW c, DOMAIN c = Columns
  PROVE  /\ DOMAIN Looks(c) = Columns
         /\ ~Looks(c).changes
         /\ Looks(c).kind = c.kind
  BY DEF Looks, Columns

LEMMA TermCommands ==
  \A c \in {Cleanup, Counts, WriteConfig, CreateDb, Dump, EditTerm, Exec,
            ExecShared, Export, ShowHelp, Import, PrintTerms, Purge,
            PurgeTerms, NoCommand} : Quiet(c)
<1>1. \A c \in {Cleanup, Purge, PurgeTerms, EditTerm, Import, Exec} : Quiet(c)
  BY DEF Quiet, OnTerms, Cleanup, Purge, PurgeTerms, EditTerm, Import, Exec
<1>2. \A c \in {CreateDb, WriteConfig} : Quiet(c)
  BY DEF Quiet, OnTerms, CreateDb, WriteConfig
<1>3. \A c \in {ExecShared, Counts, Dump, Export, PrintTerms} : Quiet(c)
  <2>1. \A name, changes, counts, checks :
           LET c == OnTerms(name, changes, counts, checks)
           IN DOMAIN c = Columns /\ c.kind = "terms"
    BY DEF OnTerms, Columns
  <2>2. \A name, changes, counts, checks :
           Quiet(Looks(OnTerms(name, changes, counts, checks)))
    <3> SUFFICES ASSUME NEW name, NEW changes, NEW counts, NEW checks
                 PROVE  Quiet(Looks(OnTerms(name, changes, counts, checks)))
      OBVIOUS
    <3> DEFINE c == OnTerms(name, changes, counts, checks)
    <3>1. DOMAIN c = Columns /\ c.kind = "terms"
      BY <2>1
    <3> HIDE DEF c
    <3>2. ~Looks(c).changes /\ Looks(c).kind = "terms"
      BY <3>1, LooksOnly
    <3>3. Quiet(Looks(c))
      BY <3>2 DEF Quiet
    <3> QED
      BY <3>3 DEF c
  <2>3. Quiet(ExecShared)
    <3> DEFINE c == [Exec EXCEPT !.name = "exec-shared"]
    <3>1. DOMAIN c = Columns /\ c.kind = "terms"
      BY <2>1 DEF Exec, Columns
    <3> QED
      BY <3>1, LooksOnly DEF Quiet, ExecShared
  <2> QED
    BY <2>2, <2>3 DEF Counts, Dump, Export, PrintTerms
<1>4. \A c \in {ShowHelp, NoCommand} : Quiet(c)
  <2>1. \A name, changes, counts, checks :
           DOMAIN OnTerms(name, changes, counts, checks) = Columns
    BY DEF OnTerms, Columns
  <2>2. /\ DOMAIN Looks(OnTerms("help", FALSE, AnyCount, FALSE)) = Columns
        /\ ~Looks(OnTerms("help", FALSE, AnyCount, FALSE)).changes
    BY <2>1, LooksOnly
  <2>3. /\ DOMAIN Looks(OnTerms("", FALSE, {}, FALSE)) = Columns
        /\ ~Looks(OnTerms("", FALSE, {}, FALSE)).changes
    BY <2>1, LooksOnly
  <2> QED
    BY <2>2, <2>3 DEF Quiet, ShowHelp, NoCommand, Columns
<1> QED
  BY <1>1, <1>2, <1>3, <1>4

(* A command that only looks makes nothing and changes nothing. *)
LEMMA ReadOnlyIsQuiet == \A c \in Called \cup {NoCommand} : Quiet(c)
<1>1. \A c \in AllCommands : Quiet(c)
  BY MessageCommands, TermCommands, Zenon DEF AllCommands
<1> QED
  BY <1>1, TermCommands, SessionAssumption

(* An attempt to open the database for reading leaves no trace. *)
LEMMA QuietOpening ==
  ASSUME Sound(disk)
  PROVE  Opening(TRUE, FALSE).disk = disk
<1> DEFINE dir == settings.private
           works == Opening(TRUE, FALSE).works
<1>1. Opening(TRUE, FALSE).disk =
        [disk EXCEPT !.dirs = disk.dirs,
                     !.files[dir] = IF works THEN disk.files[dir] ELSE disk.files[dir]]
  BY DEF Opening, Opened
<1>2. Opening(TRUE, FALSE).disk =
        [disk EXCEPT !.dirs = disk.dirs, !.files[dir] = disk.files[dir]]
  BY <1>1
<1>3. disk.files = [disk.files EXCEPT ![dir] = disk.files[dir]]
  BY DEF Sound
<1>4. [disk EXCEPT !.dirs = disk.dirs] = disk
  BY DEF Sound
<1>5. [disk EXCEPT !.files[dir] = disk.files[dir]] = disk
  BY <1>3 DEF Sound
<1> QED
  BY <1>2, <1>4, <1>5

(* Opening the database in any way leaves a disk. *)
LEMMA SoundOpening ==
  ASSUME Sound(disk), NEW readOnly, NEW create
  PROVE  Sound(Opening(readOnly, create).disk)
<1> DEFINE o == Opening(readOnly, create)
           dir == settings.private
<1>1. PICK dirs, there : o.disk = [disk EXCEPT !.dirs = dirs, !.files[dir] = there]
  BY DEF Opening
<1>2. [disk.files EXCEPT ![dir] = there] =
        [e \in Dirs |-> [disk.files EXCEPT ![dir] = there][e]]
  BY DEF Sound
<1>3. o.disk = [dirs |-> dirs, files |-> [disk.files EXCEPT ![dir] = there],
                touched |-> disk.touched, configs |-> disk.configs]
  <2> HIDE DEF o
  <2> QED
    BY <1>1 DEF Sound
<1> DEFINE after == [disk.files EXCEPT ![dir] = there]
           d == o.disk
<1>4. /\ d = [dirs |-> dirs, files |-> after, touched |-> disk.touched,
              configs |-> disk.configs]
      /\ after = [e \in Dirs |-> after[e]]
  BY <1>2, <1>3
<1> HIDE DEF after, d
<1>5. d.files = [e \in Dirs |-> d.files[e]]
  BY <1>4
<1>6. Sound(d)
  BY <1>4, <1>5 DEF Sound
<1> QED
  BY <1>6 DEF d

------------------------------------------------------------------------------
(* The steps *)

AnyOption == \/ OptionNumber \/ OptionThreshold \/ OptionText \/ OptionSwitch
             \/ OptionNamed \/ OptionDatabase \/ OptionShared \/ OptionConfigFile

(* What every option leaves alone. *)
OptionEffect == /\ run.pc = "options" /\ run'.pc \in {"options", "loading"}
                /\ DOMAIN run' = RunFields /\ run'.command = run.command
                /\ run'.load = run.load \/ DOMAIN run'.load = LoadFields
                /\ DOMAIN history' = HistoryFields
                /\ history'.before = history.before
                /\ history'.unswept = history.unswept
                /\ UNCHANGED <<disk, job>>

LEMMA OptionStep ==
  ASSUME QuietInv, AnyOption
  PROVE  OptionEffect
<1>1. DOMAIN run = RunFields /\ DOMAIN history = HistoryFields
  BY DEF QuietInv, Shapes
<1>2. ASSUME Option, NEW s, NEW given, Sets(s, given) PROVE OptionEffect
  BY <1>1, <1>2 DEF Option, Sets, OptionEffect, HistoryFields
<1>3. ASSUME Option, NEW r, Notes(r), DOMAIN r = RunFields, r.pc = run.pc,
             r.command = run.command, r.load = run.load
      PROVE  OptionEffect
  BY <1>1, <1>3 DEF Option, Notes, OptionEffect, HistoryFields
<1>4. ASSUME Option, UsageError PROVE OptionEffect
  <2>1. DOMAIN [run EXCEPT !.usageError = TRUE] = RunFields
    BY <1>1
  <2> QED
    BY <1>1, <1>3, <1>4, <2>1 DEF UsageError, RunFields
<1>5. ASSUME Option, NEW n, NEW low, NEW high, NEW s, NEW given,
             Numbered(n, low, high, s, given)
      PROVE  OptionEffect
  BY <1>2, <1>4, <1>5 DEF Numbered
<1>6. CASE OptionNumber
  <2>1. PICK n, low, high, s, given : n \in Numbers /\ Numbered(n, low, high, s, given)
    BY <1>6 DEF OptionNumber
  <2>2. Option
    BY <1>6 DEF OptionNumber
  <2> QED
    BY <1>5, <2>1, <2>2, Zenon
<1>7. CASE OptionThreshold
  BY <1>5, <1>7, Zenon DEF OptionThreshold
<1>8. CASE OptionText
  BY <1>2, <1>8, Zenon DEF OptionText
<1>9. CASE OptionSwitch
  <2>1. ASSUME Option, Notes([run EXCEPT !.forceMbox = TRUE]) PROVE OptionEffect
    BY <1>1, <1>3, <2>1 DEF RunFields
  <2>2. ASSUME Option, Notes([run EXCEPT !.single = TRUE]) PROVE OptionEffect
    BY <1>1, <1>3, <2>2 DEF RunFields
  <2>3. ASSUME Option, Notes([run EXCEPT !.single = TRUE, !.status = TRUE])
        PROVE  OptionEffect
    BY <1>1, <1>3, <2>3 DEF RunFields
  <2>4. ASSUME Option, Notes([run EXCEPT !.version = TRUE]) PROVE OptionEffect
    BY <1>1, <1>3, <2>4 DEF RunFields
  <2> QED
    BY <1>2, <1>4, <1>9, <2>1, <2>2, <2>3, <2>4, Zenon DEF OptionSwitch
<1>10. CASE OptionNamed
  BY <1>1, <1>10 DEF OptionNamed, Option, OptionEffect, RunFields, HistoryFields
<1>11. CASE OptionDatabase
  BY <1>1, <1>11 DEF OptionDatabase, Option, OptionEffect, RunFields, HistoryFields,
                     NoLoad, LoadFields
<1>12. CASE OptionShared
  BY <1>2, <1>12, Zenon DEF OptionShared
<1>13. CASE OptionConfigFile
  <2>1. CASE UsageError
    BY <1>4, <1>13, <2>1 DEF OptionConfigFile
  <2>2. CASE ~UsageError
    <3>1. PICK dir \in Dirs :
            /\ run' = [run EXCEPT !.pc = "loading", !.basedir = dir,
                                  !.load = [NoLoad EXCEPT !.dir = dir]]
            /\ history' = [history EXCEPT !.options = @ + 1]
      BY <1>13, <2>2, Zenon DEF OptionConfigFile
    <3>2. DOMAIN run'.load = LoadFields
      BY <1>1, <3>1 DEF RunFields, NoLoad, LoadFields
    <3> QED
      BY <1>1, <1>13, <3>1, <3>2 DEF OptionConfigFile, Option, OptionEffect,
                                     RunFields, HistoryFields
  <2> QED
    BY <2>1, <2>2
<1> QED
  BY <1>6, <1>7, <1>8, <1>9, <1>10, <1>11, <1>12, <1>13 DEF AnyOption

(* The steps of a run before its command starts that leave the disk alone. *)
Preparing == \/ ApplyStatement \/ EndLoad \/ FindCommand \/ SingleMessage
             \/ ApplyTestCase \/ ApplyExtendedOption

LEMMA PreparingStep ==
  ASSUME QuietInv, Preparing
  PROVE  QuietInv'
<1> USE DEF QuietInv, Shapes, Early, Before, Asked, Looking, QuietRunsChangeNothing
<1>1. CASE ApplyStatement
  BY <1>1 DEF ApplyStatement, RunFields
<1>2. CASE EndLoad
  BY <1>2 DEF EndLoad, LoadIsOver, RunFields, HistoryFields
<1>3. CASE FindCommand
  <2>1. UNCHANGED <<disk, job, history>> /\ run.pc = "options"
    BY <1>3 DEF FindCommand
  <2>2. /\ run'.pc = "found" /\ DOMAIN run' = RunFields
        /\ run'.command \in Called \cup {run.command}
    BY <1>3 DEF FindCommand, RunFields
  <2> QED
    BY <2>1, <2>2
<1>4. CASE SingleMessage
  BY <1>4 DEF SingleMessage, RunFields
<1>5. CASE ApplyTestCase
  BY <1>5 DEF ApplyTestCase, RunFields
<1>6. CASE ApplyExtendedOption
  BY <1>6 DEF ApplyExtendedOption, RunFields
<1> QED
  BY <1>1, <1>2, <1>3, <1>4, <1>5, <1>6 DEF Preparing

(* The steps that end a run and leave the disk as it is. *)
Ending == \/ RejectConfig \/ Help \/ NothingToBalance \/ BadLine
          \/ Interrupted \/ EndCommand

LEMMA EndingStep ==
  ASSUME QuietInv, Ending
  PROVE  QuietInv'
<1>1. UNCHANGED <<disk, settings, job, history>>
  BY DEF Ending, RejectConfig, Help, NothingToBalance, BadLine, Interrupted,
         EndCommand
<1>2. run.pc \in {"loading", "execute", "work"}
  BY DEF Ending, RejectConfig, Help, NothingToBalance, BadLine, Interrupted,
         EndCommand, Reading
<1>3. \E code : Exit(code)
  BY DEF Ending, RejectConfig, Help, NothingToBalance, BadLine, Interrupted,
         EndCommand
<1>4. run'.pc = "done" /\ DOMAIN run' = RunFields
      /\ run'.command = run.command /\ run'.usageError = run.usageError
      /\ run'.version = run.version /\ run'.failed = run.failed
  BY <1>3 DEF Exit, QuietInv, Shapes, RunFields
<1> QED
  BY <1>1, <1>2, <1>4 DEF QuietInv, Shapes, Early, Before, Asked, Looking,
                          QuietRunsChangeNothing

(* The steps of a command at work that only concern its mailbox, and those  *)
(* that may change the database.                                             *)
LEMMA WorkingStep ==
  ASSUME QuietInv, StartFile \/ SkipMessage \/ ProcessMessage \/ FinishFile
  PROVE  QuietInv'
<1> USE DEF QuietInv, Shapes, Early, Before, Asked, Looking, QuietRunsChangeNothing
<1>1. CASE StartFile
  BY <1>1 DEF StartFile, Reading, JobFields
<1>2. CASE SkipMessage
  BY <1>2 DEF SkipMessage, Reading, JobFields
<1>3. Sound(Changed(disk))
  BY DEF Changed, Sound
<1>4. CASE ProcessMessage
  <2>1. /\ run' = run /\ run.pc = "work"
        /\ DOMAIN job' = JobFields /\ job'.perPurge = job.perPurge
        /\ DOMAIN history' = HistoryFields /\ history'.before = history.before
    BY <1>4 DEF ProcessMessage, Reading, JobFields, HistoryFields
  <2>2. disk' = disk \/ disk' = Changed(disk)
    BY <1>4 DEF ProcessMessage
  <2>3. run.command.readOnly => disk' = disk
    <3> HAVE run.command.readOnly
    <3> DEFINE counted == IF job.perPurge > 0 THEN job.counted + 1 ELSE 0
               sweeps == job.perPurge > 0 /\ counted % job.perPurge = 0
    <3>1. PICK verdict \in Verdicts(run.command, job.isSpam),
               changes \in {FALSE, run.command.changes} :
            disk' = IF changes \/ sweeps THEN Changed(disk) ELSE disk
      BY <1>4 DEF ProcessMessage
    <3>2. ~run.command.changes /\ job.perPurge = 0
      BY <2>1, ReadOnlyIsQuiet DEF Quiet
    <3>3. ~sweeps
      BY <3>2
    <3>4. ~changes
      BY <3>1, <3>2, Zenon
    <3> HIDE DEF sweeps
    <3> QED
      BY <3>1, <3>3, <3>4, Zenon
  <2> QED
    BY <1>3, <2>1, <2>2, <2>3
<1>5. CASE FinishFile
  <2>1. /\ run' = run /\ run.pc = "work"
        /\ DOMAIN job' = JobFields /\ job'.perPurge = job.perPurge
        /\ DOMAIN history' = HistoryFields /\ history'.before = history.before
    BY <1>5 DEF FinishFile, Reading, JobFields, HistoryFields
  <2>2. disk' = disk \/ disk' = Changed(disk)
    BY <1>5 DEF FinishFile
  <2>3. run.command.readOnly => disk' = disk
    BY <1>5, <2>1 DEF FinishFile
  <2> QED
    BY <1>3, <2>1, <2>2, <2>3
<1> QED
  BY <1>1, <1>2, <1>4, <1>5

(* The steps that make directories and files. *)
LEMMA MakingStep ==
  ASSUME QuietInv, ShowUsage \/ CreateConfig \/ OpenDatabase \/ TermsCommand
  PROVE  QuietInv'
<1> USE DEF QuietInv, Shapes, Early, Before, Asked, Looking, QuietRunsChangeNothing
<1>1. CASE ShowUsage
  <2>1. disk' = disk
    BY <1>1, QuietOpening DEF ShowUsage
  <2> QED
    BY <1>1, <2>1 DEF ShowUsage, Exit, RunFields
<1>2. CASE CreateConfig
  <2>1. ~run.command.readOnly
    BY <1>2, ReadOnlyIsQuiet DEF CreateConfig, Quiet
  <2>2. \A dir, file : Sound([disk EXCEPT !.configs[dir] = file])
    BY DEF Sound
  <2>3. Sound(disk') /\ DOMAIN history' = HistoryFields
        /\ history'.before = history.before /\ job' = job
    BY <1>2, <2>2 DEF CreateConfig, HistoryFields
  <2>4. run.pc = "execute" /\ \E code : Exit(code)
    BY <1>2 DEF CreateConfig
  <2> QED
    BY <2>1, <2>3, <2>4 DEF Exit, RunFields
<1>3. CASE OpenDatabase
  <2>1. run.command.readOnly => disk' = disk
    <3> HAVE run.command.readOnly
    <3>1. run.command.kind # "create-db"
      BY ReadOnlyIsQuiet DEF Quiet
    <3>2. run.command.readOnly = TRUE
      OBVIOUS
    <3> QED
      BY <1>3, <3>1, QuietOpening DEF OpenDatabase
  <2>2. Sound(disk')
    BY <1>3, SoundOpening DEF OpenDatabase
  <2>3. /\ run.pc = "execute" /\ job' = job
        /\ run'.pc \in {"work", "done"} /\ DOMAIN run' = RunFields
        /\ run'.command = run.command /\ run'.usageError = run.usageError
        /\ run'.version = run.version /\ run'.failed = run.failed
    BY <1>3 DEF OpenDatabase, Exit, RunFields
  <2>4. DOMAIN history' = HistoryFields /\ history'.before = history.before
    BY <1>3 DEF OpenDatabase, HistoryFields
  <2> QED
    BY <2>1, <2>2, <2>3, <2>4
<1>4. CASE TermsCommand
  <2>1. Sound(Changed(disk))
    BY DEF Changed, Sound
  <2>2. Sound(disk') /\ run.pc = "work" /\ job' = job /\ history' = history
    BY <1>4, <2>1 DEF TermsCommand
  <2>3. run.command.readOnly => disk' = disk
    BY <1>4, ReadOnlyIsQuiet DEF TermsCommand, Quiet
  <2> QED
    BY <1>4, <2>2, <2>3 DEF TermsCommand, Exit, RunFields
<1> QED
  BY <1>1, <1>2, <1>3, <1>4

LEMMA QuietInit == Init => QuietInv
<1> SUFFICES ASSUME Init PROVE QuietInv
  OBVIOUS
<1>1. Sound(disk)
  <2>1. PICK there, configs :
          disk = [dirs |-> there, files |-> [d \in Dirs |-> {}],
                  touched |-> {}, configs |-> configs]
    BY Zenon DEF Init
  <2> QED
    BY <2>1 DEF Sound
<1>2. DOMAIN history = HistoryFields
  BY DEF Init, HistoryFields
<1>3. /\ DOMAIN run = RunFields /\ run.pc = "start" /\ run.command = NoCommand
      /\ DOMAIN job = JobFields
  BY DEF Init, NewRun, NoJob, RunFields, JobFields
<1> QED
  BY <1>1, <1>2, <1>3 DEF QuietInv, Shapes, Early, Before, Asked, Looking,
                          QuietRunsChangeNothing

LEMMA QuietStep == QuietInv /\ [Next]_vars => QuietInv'
<1> SUFFICES ASSUME QuietInv, [Next]_vars PROVE QuietInv'
  OBVIOUS
<1> USE DEF QuietInv, Shapes, Early, Before, Asked, Looking, QuietRunsChangeNothing
<1>1. CASE Start
  <2>1. Sound([disk EXCEPT !.touched = {}])
    BY DEF Sound
  <2> QED
    BY <1>1, <2>1 DEF Start, NewRun, NoJob, RunFields, JobFields, HistoryFields
<1>2. CASE AnyOption
  <2>1. OptionEffect
    BY <1>2, OptionStep
  <2> QED
    BY <2>1 DEF OptionEffect
<1>3. CASE EndOfNames
  BY <1>3 DEF EndOfNames, Exit, RunFields
<1>4. CASE Again
  BY <1>4 DEF Again, NewRun, RunFields
<1>5. CASE UNCHANGED vars
  BY <1>5 DEF vars
<1>6. CASE Stop
  BY <1>5, <1>6 DEF Stop
<1>7. CASE Preparing
  BY <1>7, PreparingStep
<1>8. CASE Ending
  BY <1>8, EndingStep
<1>9. CASE StartFile \/ SkipMessage \/ ProcessMessage \/ FinishFile
  BY <1>9, WorkingStep
<1>10. CASE ShowUsage \/ CreateConfig \/ OpenDatabase \/ TermsCommand
  BY <1>10, MakingStep
<1> QED
  BY <1>1, <1>2, <1>3, <1>4, <1>5, <1>6, <1>7, <1>8, <1>9, <1>10, Zenon
     DEF Next, AnyOption, Preparing, Ending

(* A run with a mistake in its options or arguments, one that shows the     *)
(* version and one with a read-only command leave the disk as it was.       *)
THEOREM QuietAlways == Spec => []QuietRunsChangeNothing
<1>1. QuietInv => QuietRunsChangeNothing
  BY DEF QuietInv
<1> QED
  BY <1>1, QuietInit, QuietStep, PTL DEF Spec

------------------------------------------------------------------------------
(* The settings have all their members, and a number for -P *)

(* Changes that spare the number -P was given and the name of the database. *)
Spares(f) == "messagesPerPurge" \notin DOMAIN f /\ "private" \notin DOMAIN f
AllSpare(table) == \A t \in DOMAIN table : Spares(table[t])

(* What @@ and Table make of them. *)
LEMMA OverDomain == \A f, g : DOMAIN (f @@ g) = DOMAIN f \cup DOMAIN g
  BY DEF @@

LEMMA SparesOver == \A f, g : Spares(f) /\ Spares(g) => Spares(f @@ g)
  BY DEF Spares, @@

LEMMA TableSpares ==
  ASSUME NEW pairs, \A p \in pairs : Spares(p[2])
  PROVE  AllSpare(Table(pairs))
<1> SUFFICES ASSUME NEW t \in DOMAIN Table(pairs) PROVE Spares(Table(pairs)[t])
  BY DEF AllSpare
<1> DEFINE p == CHOOSE q \in pairs : q[1] = t
<1>1. p \in pairs
  BY DEF Table
<1>2. Table(pairs)[t] = p[2]
  BY DEF Table
<1> QED
  BY <1>1, <1>2

(* What the test cases are put together from, and the pairs of them. *)
LEMMA ChangesSpare ==
  /\ Spares(Graham) /\ Spares(Sigs) /\ Spares(WithHtml)
  /\ Spares(Suspicious) /\ Spares(Water) /\ Spares(Nothing)
  /\ \A m, n : Spares(Few(m, n)) /\ Spares(Phrases(m, n)) /\ Spares(Distance(m, n))
  /\ \A n : Spares(Longest(n)) /\ Spares(NewWords(n)) /\ Spares(Today(n))
  /\ Spares(Extended)
  /\ \A n : Spares(LeastChars(n)) /\ Spares(MostChars(n)) /\ Spares(Selectors(n))
  /\ \A v : Spares([ignoreBody |-> v]) /\ Spares([maxTermsPerMessage |-> v])
  /\ \A m, v : Spares([minDistance |-> m, ignoreBody |-> v])
  BY SMT DEF Spares, Graham, Sigs, WithHtml, Suspicious, Water, Nothing, Few, Phrases,
          Distance, Longest, NewWords, Today, Extended, LeastChars, MostChars, Selectors

LEMMA PairsSpare ==
  /\ \A m, n, v : Spares(Distance(m, n) @@ [ignoreBody |-> v])
  /\ \A m, n, v : Spares(Distance(m, n) @@ [maxTermsPerMessage |-> v])
  /\ \A m, n : Spares(Sigs @@ Phrases(m, n)) /\ Spares(Water @@ Phrases(m, n))
  /\ \A n : Spares(Sigs @@ Longest(n)) /\ Spares(NewWords(n) @@ Graham)
  /\ \A m, n : Spares(Longest(m) @@ MostChars(n))
  /\ \A m, n, v : Spares(Few(m, n) @@ Longest(v))
  /\ Spares(Water @@ Extended)
  /\ \A n : Spares(NewWords(n) @@ Suspicious) /\ Spares(Water @@ NewWords(n))
  /\ \A m, n, i, j, k : Spares(Distance(m, n) @@ Few(i, j) @@ Water
                      @@ NewWords(k) @@ Extended)
  BY ChangesSpare, SparesOver, Zenon

LEMMA MoreSpare == Spares(HeadersOnly) /\ \A n : Spares(Terms(n))
  BY PairsSpare, SMT DEF HeadersOnly, Terms

(* The table of the test cases. *)
Sparing(p) == Spares(p[2])

LEMMA SparingPair == \A n, f : Spares(f) => Sparing(<<n, f>>)
  BY DEF Sparing

LEMMA EarlySpare == AllSpare(EarlyTestCases)
<1>1. \A p \in EarlyCases : Sparing(p)
  BY SparingPair, PairsSpare, ChangesSpare, SMTT(60) DEF EarlyCases
<1>2. \A p \in EarlyCases : Spares(p[2])
  BY <1>1 DEF Sparing
<1> QED
  BY <1>2, TableSpares DEF EarlyTestCases

LEMMA LateSpare == AllSpare(LateTestCases)
<1>1. \A p \in LateCases : Sparing(p)
  BY SparingPair, PairsSpare, ChangesSpare, MoreSpare, SMTT(60) DEF LateCases
<1>2. \A p \in LateCases : Spares(p[2])
  BY <1>1 DEF Sparing
<1> QED
  BY <1>2, TableSpares DEF LateTestCases

(* The setters keep all the members. *)

Members == ParserMembers \cup FilterMembers \cup DatabaseMembers
             \cup CommandMembers \cup {"today"}

(* Settings with every member, and a number for -P. *)
Whole(s) == DOMAIN s = Members /\ s.messagesPerPurge \in Nat

LEMMA PurgeIsMember == "messagesPerPurge" \in Members
  BY DEF Members, CommandMembers

LEMMA WholeWith ==
  ASSUME NEW s, Whole(s), NEW changes, Spares(changes)
  PROVE  Whole(With(s, changes))
  BY PurgeIsMember DEF Whole, With, Spares

LEMMA WholeScoreMode ==
  ASSUME NEW s, Whole(s), NEW mode
  PROVE  Whole(SetScoreMode(s, mode))
  BY PurgeIsMember, SMT DEF Whole, SetScoreMode

LEMMA WholeScoring ==
  ASSUME NEW s, Whole(s)
  PROVE  \A n : /\ Whole(SetMinWordCount(s, n)) /\ Whole(SetSpamThreshold(s, n))
                /\ Whole(SetDefaultThreshold(s, n)) /\ Whole(SetReplaceNonAscii(s, n))
<1>1. \A n : Whole([s EXCEPT !.defaultThreshold = n])
  BY PurgeIsMember DEF Whole
<1>2. \A n : Whole(SetDefaultThreshold(s, n))
  BY <1>1, WholeScoreMode, Zenon DEF SetDefaultThreshold
<1>3. \A n : /\ Whole(SetMinWordCount(s, n)) /\ Whole(SetSpamThreshold(s, n))
             /\ Whole(SetReplaceNonAscii(s, n))
  BY PurgeIsMember DEF Whole, SetMinWordCount, SetSpamThreshold, SetReplaceNonAscii
<1> QED
  BY <1>2, <1>3, Zenon

LEMMA WholeTestCase ==
  ASSUME NEW s, Whole(s), NEW t
  PROVE  Whole(TestCase(t, s))
<1>1. \A changes : Spares(changes) =>
        LET r == [With(s, changes) EXCEPT !.headers = TestCaseHeaders(t, @)]
        IN Whole(r)
  BY WholeWith, PurgeIsMember DEF Whole
<1>2. \A r : Whole(r) => Whole(TestCaseScoring(t, r))
  <2> SUFFICES ASSUME NEW r, Whole(r) PROVE Whole(TestCaseScoring(t, r))
    OBVIOUS
  <2> QED
    BY WholeScoring, WholeScoreMode, SMT DEF TestCaseScoring
<1> DEFINE changes == CASE t \in DOMAIN EarlyTestCases -> EarlyTestCases[t]
                        [] t \in DOMAIN LateTestCases -> LateTestCases[t]
                        [] OTHER -> Nothing
<1>3. Spares(changes)
  BY EarlySpare, LateSpare, ChangesSpare, Zenon DEF AllSpare
<1> HIDE DEF changes
<1>4. Whole([With(s, changes) EXCEPT !.headers = TestCaseHeaders(t, @)])
  BY <1>1, <1>3
<1> DEFINE r == [With(s, changes) EXCEPT !.headers = TestCaseHeaders(t, @)]
<1>5. TestCase(t, s) = TestCaseScoring(t, r)
  BY Zenon DEF TestCase, changes
<1> QED
  BY <1>2, <1>4, <1>5, Zenon

LEMMA WholeExtendedOption ==
  ASSUME NEW s, Whole(s), NEW o \in ExtendedOptions
  PROVE  Whole(ExtendedOption(o, s))
<1>1. Whole([With(s, Graham) EXCEPT !.headers = AllHeaders])
  BY WholeWith, ChangesSpare, PurgeIsMember DEF Whole
<1>2. Whole(SetScoreMode([With(s, Graham) EXCEPT !.headers = AllHeaders], "original"))
  BY <1>1, WholeScoreMode
<1>3. Whole(With(s, Sigs @@ [minDistance |-> Thousandths(300), ignoreBody |-> TRUE]))
  BY WholeWith, ChangesSpare, SparesOver, Zenon
<1>4. /\ Whole([s EXCEPT !.keepSuspiciousTags = TRUE])
      /\ \A v : Whole([s EXCEPT !.statusField = v])
      /\ Whole([s EXCEPT !.pretokenized = TRUE])
      /\ Whole([s EXCEPT !.ignoreBody = TRUE])
  BY PurgeIsMember DEF Whole
<1>5. Whole(SetScoreMode(s, "original"))
  BY WholeScoreMode
<1> DEFINE W == Whole(ExtendedOption(o, s))
<1>6. CASE o = "graham"
  BY <1>2, <1>6 DEF ExtendedOption
<1>7. CASE o = "whitelist"
  BY <1>3, <1>7 DEF ExtendedOption
<1>8. CASE o = "orig-score"
  BY <1>5, <1>8 DEF ExtendedOption
<1>9. CASE o \in {"suspicious-tags", "honor-status-header", "honor-xstatus-header",
                  "tokenized", "ignore-body", "normal"}
  BY <1>4, <1>9 DEF ExtendedOption
<1> QED
  BY <1>6, <1>7, <1>8, <1>9 DEF ExtendedOptions

(* The constructors make settings with every member. *)
LEMMA WholeInitially == Whole(InitialSettings)
<1>1. DOMAIN NewParserConfig = ParserMembers
  BY SMT DEF NewParserConfig, ParserMembers
<1>2. DOMAIN NewFilterConfig = FilterMembers
  BY SMT DEF NewFilterConfig, FilterMembers
<1>3. DOMAIN NewDatabaseConfig = DatabaseMembers
  BY SMT DEF NewDatabaseConfig, DatabaseMembers
<1>4. DOMAIN NewCommandConfig = CommandMembers /\ NewCommandConfig.messagesPerPurge = 0
  BY SMT DEF NewCommandConfig, CommandMembers
<1> DEFINE first == NewParserConfig @@ NewFilterConfig @@ NewDatabaseConfig
           fourth == first @@ NewCommandConfig
           all == fourth @@ [today |-> "clock"]
<1>5. DOMAIN first = ParserMembers \cup FilterMembers \cup DatabaseMembers
  BY <1>1, <1>2, <1>3, OverDomain, Zenon
<1>6. "messagesPerPurge" \notin DOMAIN first
  BY <1>5, SMT DEF ParserMembers, FilterMembers, DatabaseMembers
<1> HIDE DEF first
<1>7. /\ DOMAIN fourth = ParserMembers \cup FilterMembers \cup DatabaseMembers
                           \cup CommandMembers
      /\ fourth.messagesPerPurge = 0
  BY <1>4, <1>5, <1>6, SMT DEF @@, CommandMembers
<1> HIDE DEF fourth
<1>8. Whole(all)
  BY <1>7, PurgeIsMember, SMT DEF @@, Whole, Members, CommandMembers
<1> HIDE DEF all
<1>9. Whole(SetScoreMode(all, "normal"))
  BY <1>8, WholeScoreMode
<1> QED
  BY <1>9, Zenon DEF InitialSettings, all, fourth, first

------------------------------------------------------------------------------
(* Statements of a configuration file *)

ParserNames ==
  {"replace_non_ascii", "remove_html", "keep_suspicious_tags", "ignore_body",
   "non_ascii_replacement", "spamprobe_field_name", "min_term_length",
   "max_term_length", "min_phrase_terms", "max_phrase_terms",
   "min_phrase_chars", "max_phrase_chars", "max_message_terms"}
FilterNames ==
  {"score_mode", "good_bias", "terms_for_score", "max_word_repeats",
   "min_word_count", "min_array_size", "extend_top_terms", "water_counts",
   "new_word_score", "spam_threshold", "min_distance_for_score"}
DatabaseNames ==
  {"type", "private_filename", "shared_filename", "target_size_mb",
   "max_cache_terms"}

(* The statements the syntax check lets through. *)
LEMMA ValidNames ==
  ASSUME NEW st, ValidStatement(st)
  PROVE  \/ st.block = "parser" /\ st.name \in ParserNames \cup {"header"}
         \/ st.block = "header" /\ st.name # "header"
         \/ st.block = "filter" /\ st.name \in FilterNames
         \/ st.block = "database" /\ st.name \in DatabaseNames
<1>1. PICK rule \in Syntax : rule.block = st.block /\ st.name \in rule.names
  BY DEF ValidStatement
<1>2. \/ rule.block = "parser" /\ rule.names \subseteq ParserNames \cup {"header"}
      \/ rule.block = "header" /\ "header" \notin rule.names
      \/ rule.block = "filter" /\ rule.names \subseteq FilterNames
      \/ rule.block = "database" /\ rule.names \subseteq DatabaseNames
  BY <1>1, SMT DEF Syntax, Rule, ParserNames, FilterNames, DatabaseNames
<1> QED
  BY <1>1, <1>2

LEMMA WholeLoaded ==
  ASSUME NEW st, ValidStatement(st), NEW s, Whole(s), NEW reset
  PROVE  Whole(Loaded(st, s, reset).settings)
<1>1. ASSUME st.name \in ParserNames PROVE Whole(LoadParserStatement(st, s))
  <2>1. \A v : Whole(SetReplaceNonAscii(s, v))
    BY WholeScoring
  <2>2. \A v : /\ Whole([s EXCEPT !.minTermLength = v])
              /\ Whole([s EXCEPT !.maxTermLength = v])
              /\ Whole([s EXCEPT !.removeHTML = v])
              /\ Whole([s EXCEPT !.minPhraseTerms = v])
              /\ Whole([s EXCEPT !.maxPhraseTerms = v])
              /\ Whole([s EXCEPT !.minPhraseChars = v])
              /\ Whole([s EXCEPT !.maxPhraseChars = v])
              /\ Whole([s EXCEPT !.maxTermsPerMessage = v])
              /\ Whole([s EXCEPT !.fieldName = v])
              /\ Whole([s EXCEPT !.keepSuspiciousTags = v])
              /\ Whole([s EXCEPT !.ignoreBody = v])
    BY PurgeIsMember DEF Whole
  <2> QED
    BY <1>1, <2>1, <2>2, Zenon DEF LoadParserStatement, ParserNames
<1>2. ASSUME st.name \in FilterNames PROVE Whole(LoadFilterStatement(st, s))
  <2>1. \A v : /\ Whole(SetScoreMode(s, v)) /\ Whole(SetMinWordCount(s, v))
              /\ Whole(SetSpamThreshold(s, v))
    BY WholeScoring, WholeScoreMode
  <2>2. \A v : /\ Whole([s EXCEPT !.goodBias = v])
              /\ Whole([s EXCEPT !.termsForScore = v])
              /\ Whole([s EXCEPT !.maxWordRepeats = v])
              /\ Whole([s EXCEPT !.extendTopTerms = v])
              /\ Whole([s EXCEPT !.minArraySize = v])
              /\ Whole([s EXCEPT !.waterCounts = v])
              /\ Whole([s EXCEPT !.newWordScore = v])
              /\ Whole([s EXCEPT !.minDistance = v])
    BY PurgeIsMember DEF Whole
  <2> QED
    BY <1>2, <2>1, <2>2, Zenon DEF LoadFilterStatement, FilterNames
<1>3. ASSUME st.name \in DatabaseNames PROVE Whole(LoadDatabaseStatement(st, s))
  <2>1. \A v : /\ Whole([s EXCEPT !.type = v]) /\ Whole([s EXCEPT !.private = v])
              /\ Whole([s EXCEPT !.shared = v])
              /\ Whole([s EXCEPT !.targetSizeMB = v])
              /\ Whole([s EXCEPT !.maxCacheTerms = v])
    BY PurgeIsMember DEF Whole
  <2> QED
    BY <1>3, <2>1, Zenon DEF LoadDatabaseStatement, DatabaseNames
<1>4. \A h : Whole([s EXCEPT !.headers = h])
  BY PurgeIsMember DEF Whole
<1>5. CASE st.block = "parser" /\ st.name = "header"
  BY <1>4, <1>5, SMT DEF Loaded
<1>6. CASE st.block = "header" /\ st.name # "header"
  BY <1>4, <1>6, SMT DEF Loaded
<1>7. CASE st.block = "parser" /\ st.name \in ParserNames /\ st.name # "header"
  BY <1>1, <1>7, SMT DEF Loaded
<1>8. CASE st.block = "filter" /\ st.name \in FilterNames /\ st.name # "header"
  BY <1>2, <1>8, SMT DEF Loaded
<1>9. CASE st.block = "database" /\ st.name \in DatabaseNames /\ st.name # "header"
  BY <1>3, <1>9, SMT DEF Loaded
<1> QED
  BY <1>5, <1>6, <1>7, <1>8, <1>9, ValidNames DEF ParserNames, FilterNames, DatabaseNames

(* The settings have all their members at every step. *)
LEMMA WholeOption ==
  ASSUME Whole(settings), AnyOption
  PROVE  Whole(settings')
<1>1. ASSUME NEW s, NEW given, Sets(s, given), Whole(s) PROVE Whole(settings')
  BY <1>1 DEF Sets
<1>2. ASSUME NEW r, Notes(r) PROVE Whole(settings')
  BY <1>2 DEF Notes
<1>3. ASSUME UsageError PROVE Whole(settings')
  BY <1>2, <1>3 DEF UsageError
<1>4. ASSUME NEW n, NEW low, NEW high, NEW s, NEW given, Whole(s),
             Numbered(n, low, high, s, given)
      PROVE  Whole(settings')
  BY <1>1, <1>3, <1>4 DEF Numbered
<1>5. \A v : /\ Whole([settings EXCEPT !.maxPhraseTerms = v])
             /\ Whole([settings EXCEPT !.maxWordRepeats = v])
             /\ Whole([settings EXCEPT !.termsForScore = v])
             /\ Whole([settings EXCEPT !.maxCacheTerms = v])
             /\ Whole([settings EXCEPT !.fieldName = v])
             /\ Whole([settings EXCEPT !.removeHTML = v])
             /\ Whole([settings EXCEPT !.headers = v])
             /\ Whole([settings EXCEPT !.createDbDir = v])
             /\ Whole([settings EXCEPT !.ignoreContentLength = v])
             /\ Whole([settings EXCEPT !.extendTopTerms = v])
             /\ Whole([settings EXCEPT !.shared = v])
  BY PurgeIsMember DEF Whole
<1>6. CASE OptionNumber
  <2>1. ASSUME NEW n, NEW most, NEW given,
               Numbered(n, 1, most, [settings EXCEPT !.messagesPerPurge = n], given)
        PROVE  Whole(settings')
    <3>1. \/ settings' = settings
          \/ n \in 1..most /\ settings' = [settings EXCEPT !.messagesPerPurge = n]
      BY <2>1 DEF Numbered, UsageError, Notes, Sets
    <3> QED
      BY <3>1, PurgeIsMember DEF Whole
  <2>2. \A n : Whole(SetMinWordCount(settings, n))
    BY WholeScoring
  <2>3. PICK n \in Numbers :
       \/ Numbered(n, 0, 10000, SetMinWordCount(settings, n),
                   "minWordCount" :> n)
       \/ Numbered(n, 1, 10, [settings EXCEPT !.maxPhraseTerms = n],
                   "maxPhraseTerms" :> n)
       \/ Numbered(n, 1, 100000, [settings EXCEPT !.messagesPerPurge = n],
                   <<>>)
       \/ Numbered(n, 1, 10, [settings EXCEPT !.maxWordRepeats = n],
                   "maxWordRepeats" :> n)
       \/ Numbered(n, 5, 500, [settings EXCEPT !.termsForScore = n],
                   "termsForScore" :> n)
       \/ LET size == IF n = 0 THEN 100000 ELSE n
          IN Numbered(n, 0, 100000, [settings EXCEPT !.maxCacheTerms = size],
                      "maxCacheTerms" :> size)
    BY <1>6, SMT DEF OptionNumber
  <2>4. CASE Numbered(n, 0, 10000, SetMinWordCount(settings, n), "minWordCount" :> n)
    BY <1>4, <2>2, <2>4, SMT
  <2>5. CASE Numbered(n, 1, 10, [settings EXCEPT !.maxPhraseTerms = n], "maxPhraseTerms" :> n)
    <3>1. Whole([settings EXCEPT !.maxPhraseTerms = n])
      BY PurgeIsMember DEF Whole
    <3> QED
      BY <1>4, <2>5, <3>1, SMT
  <2>6. CASE Numbered(n, 1, 100000, [settings EXCEPT !.messagesPerPurge = n], <<>>)
    BY <2>1, <2>6, SMT
  <2>7. CASE Numbered(n, 1, 10, [settings EXCEPT !.maxWordRepeats = n], "maxWordRepeats" :> n)
    <3>1. Whole([settings EXCEPT !.maxWordRepeats = n])
      BY PurgeIsMember DEF Whole
    <3> QED
      BY <1>4, <2>7, <3>1, SMT
  <2>8. CASE Numbered(n, 5, 500, [settings EXCEPT !.termsForScore = n], "termsForScore" :> n)
    <3>1. Whole([settings EXCEPT !.termsForScore = n])
      BY PurgeIsMember DEF Whole
    <3> QED
      BY <1>4, <2>8, <3>1, SMT
  <2>9. CASE LET size == IF n = 0 THEN 100000 ELSE n
             IN Numbered(n, 0, 100000, [settings EXCEPT !.maxCacheTerms = size],
                         "maxCacheTerms" :> size)
    <3> DEFINE size == IF n = 0 THEN 100000 ELSE n
    <3>1. Whole([settings EXCEPT !.maxCacheTerms = size])
      BY PurgeIsMember DEF Whole
    <3> QED
      BY <1>4, <2>9, <3>1, SMT
  <2> QED
    BY <2>3, <2>4, <2>5, <2>6, <2>7, <2>8, <2>9
<1>7. CASE OptionThreshold
  BY <1>4, <1>7, WholeScoring, SMT DEF OptionThreshold
<1>8. CASE OptionText
  BY <1>1, <1>5, <1>8, WholeScoring, Zenon DEF OptionText
<1>9. CASE OptionSwitch
  <2>1. Whole(With(settings, Sigs))
    BY WholeWith, ChangesSpare
  <2> QED
    BY <1>1, <1>2, <1>3, <1>5, <1>9, <2>1, Zenon DEF OptionSwitch
<1>10. CASE OptionNamed
  BY <1>10 DEF OptionNamed
<1>11. CASE OptionDatabase
  <2>1. PICK type, size : settings' = [settings EXCEPT !.type = type, !.targetSizeMB = size]
    BY <1>11, Zenon DEF OptionDatabase
  <2> QED
    BY <2>1, PurgeIsMember DEF Whole
<1>12. CASE OptionShared
  BY <1>1, <1>5, <1>12, Zenon DEF OptionShared
<1>13. CASE OptionConfigFile
  BY <1>3, <1>13 DEF OptionConfigFile
<1> QED
  BY <1>6, <1>7, <1>8, <1>9, <1>10, <1>11, <1>12, <1>13 DEF AnyOption

LEMMA WholeStep ==
  ASSUME Whole(settings), [Next]_vars
  PROVE  Whole(settings')
<1>1. CASE AnyOption
  BY <1>1, WholeOption
<1>2. CASE Start
  BY <1>2, WholeInitially DEF Start
<1>3. CASE ApplyStatement
  <2> DEFINE i == run.load.at + 1
             st == LoadedFile.statements[i]
  <2>1. /\ ValidStatement(st)
        /\ settings' = Loaded(st, settings, run.load.reset).settings
    BY <1>3, Zenon DEF ApplyStatement, Readable
  <2> QED
    BY <2>1, WholeLoaded
<1>4. CASE EndLoad
  <2>1. PICK v : settings' = [settings EXCEPT !.private = v]
    BY <1>4, Zenon DEF EndLoad
  <2> QED
    BY <2>1, PurgeIsMember DEF Whole
<1>5. CASE FindCommand
  <2>1. settings' = settings \/ settings' = [settings EXCEPT !.messagesPerPurge = 0]
    BY <1>5 DEF FindCommand
  <2> QED
    BY <2>1, PurgeIsMember DEF Whole
<1>6. CASE SingleMessage
  <2>1. \/ settings' = settings
        \/ settings' = [settings EXCEPT !.ignoreFrom = TRUE,
                                        !.ignoreContentLength = TRUE]
    BY <1>6 DEF SingleMessage
  <2> QED
    BY <2>1, PurgeIsMember DEF Whole
<1>7. CASE ApplyTestCase
  BY <1>7, WholeTestCase, Zenon DEF ApplyTestCase
<1>8. CASE ApplyExtendedOption
  BY <1>8, WholeExtendedOption, Zenon DEF ApplyExtendedOption
<1>9. CASE UNCHANGED settings
  BY <1>9
<1>10. CASE UNCHANGED vars
  BY <1>10 DEF vars
<1> QED
  BY <1>1, <1>2, <1>3, <1>4, <1>5, <1>6, <1>7, <1>8, <1>9, <1>10, Zenon
     DEF Next, AnyOption, RejectConfig, ShowUsage, EndOfNames, CreateConfig, Help,
         OpenDatabase, TermsCommand, StartFile, NothingToBalance, SkipMessage,
         ProcessMessage, FinishFile, BadLine, Interrupted, EndCommand, Again, Stop,
         vars

------------------------------------------------------------------------------
(* Sweeps *)

(* c messages make whole rounds of p and u more. *)
Rounds(c, p, u) == \E q \in Nat : c = q * p + u

(* Outside of a mailbox no message waits for a sweep; within, as many do as *)
(* were counted since the last whole round.                                  *)
Waiting ==
  /\ job.perPurge \in Nat /\ job.counted \in Nat
  /\ history.unswept \in Nat
  /\ run.pc \in Early => ~job.open
  /\ run.pc \notin {"start", "done"} =>
       /\ ~job.open \/ job.perPurge = 0 => history.unswept = 0
       /\ job.open /\ job.perPurge > 0 =>
            /\ history.unswept < job.perPurge
            /\ Rounds(job.counted, job.perPurge, history.unswept)

SweepInv == QuietInv /\ Whole(settings) /\ Waiting

LEMMA WholeRounds ==
  ASSUME NEW p \in Nat, p > 0, NEW u \in Nat, u < p, NEW c \in Nat, Rounds(c, p, u)
  PROVE  c % p = u
<1>1. PICK q \in Nat : c = q * p + u
  BY DEF Rounds
<1> DEFINE d == c \div p
           m == c % p
<1>2. d \in Int /\ m \in Nat /\ m < p /\ c = p * d + m
  OBVIOUS
<1> HIDE DEF d, m
<1>3. p * (q - d) = m - u
  BY <1>1, <1>2
<1>4. CASE q - d >= 1
  <2>1. p * (q - d) >= p
    BY <1>2, <1>4
  <2> QED
    BY <1>2, <1>3, <2>1
<1>5. CASE q - d <= -1
  <2>1. p * (q - d) <= -p
    BY <1>2, <1>5
  <2> QED
    BY <1>2, <1>3, <2>1
<1>6. CASE q - d = 0
  BY <1>2, <1>3, <1>6 DEF m
<1> QED
  BY <1>2, <1>4, <1>5, <1>6

(* One message more: either a round is whole, or one more waits. *)
LEMMA NextMessage ==
  ASSUME NEW p \in Nat, p > 0, NEW u \in Nat, u < p, NEW c \in Nat, Rounds(c, p, u)
  PROVE  IF (c + 1) % p = 0 THEN Rounds(c + 1, p, 0)
         ELSE u + 1 < p /\ Rounds(c + 1, p, u + 1)
<1>1. PICK q \in Nat : c = q * p + u
  BY DEF Rounds
<1>2. CASE u + 1 < p
  <2>1. Rounds(c + 1, p, u + 1)
    BY <1>1 DEF Rounds
  <2>2. (c + 1) % p = u + 1
    BY <1>2, <2>1, WholeRounds
  <2> QED
    BY <1>2, <2>1, <2>2
<1>3. CASE u + 1 = p
  <2>1. c + 1 = (q + 1) * p + 0 /\ q + 1 \in Nat
    BY <1>1, <1>3
  <2>2. Rounds(c + 1, p, 0)
    BY <2>1, Zenon DEF Rounds
  <2>3. (c + 1) % p = 0
    BY <2>2, WholeRounds
  <2> QED
    BY <2>2, <2>3
<1> QED
  BY <1>2, <1>3

LEMMA SweepInit == Init => SweepInv
<1> SUFFICES ASSUME Init PROVE SweepInv
  OBVIOUS
<1>1. QuietInv
  BY QuietInit
<1>2. run.pc = "start" /\ job = NoJob /\ history.unswept = 0
  BY DEF Init, NewRun
<1>3. Whole(settings)
  BY WholeInitially DEF Init
<1>4. Waiting
  BY <1>2 DEF Waiting, NoJob
<1> QED
  BY <1>1, <1>3, <1>4 DEF SweepInv

(* The steps that leave the counters of the command alone. *)
Aside ==
  /\ job' = job /\ history'.unswept = history.unswept
  /\ \/ run'.pc \in {"done", "start"}
     \/ run.pc \in Early /\ run'.pc \in Early \cup {"work"}

LEMMA AsideStep ==
  ASSUME QuietInv, Waiting, Aside
  PROVE  Waiting'
  BY DEF Waiting, Aside, Early, Rounds

LEMMA MostStepsAside ==
  ASSUME QuietInv, Next,
         ~Start, ~StartFile, ~SkipMessage, ~ProcessMessage, ~FinishFile, ~Stop
  PROVE  Aside
<1>0. DOMAIN run = RunFields /\ DOMAIN history = HistoryFields
  BY DEF QuietInv, Shapes
<1>1. CASE AnyOption
  BY <1>1, OptionStep DEF OptionEffect, Aside, Early
<1>2. CASE Preparing
  BY <1>0, <1>2 DEF Preparing, ApplyStatement, EndLoad, LoadIsOver, FindCommand,
                    SingleMessage, ApplyTestCase, ApplyExtendedOption, Aside,
                    Early, RunFields, HistoryFields
<1>3. ASSUME \E code : Exit(code), job' = job, history'.unswept = history.unswept
      PROVE  Aside
  BY <1>0, <1>3 DEF Exit, Aside, RunFields
<1>4. CASE Ending
  BY <1>3, <1>4 DEF Ending, RejectConfig, Help, NothingToBalance, BadLine,
                    Interrupted, EndCommand
<1>5. CASE EndOfNames
  BY <1>0, <1>3, <1>5 DEF EndOfNames, Exit, Aside, Early, RunFields
<1>6. CASE ShowUsage
  BY <1>3, <1>6 DEF ShowUsage
<1>7. CASE TermsCommand
  BY <1>3, <1>7 DEF TermsCommand
<1>8. CASE CreateConfig
  <2>1. job' = job /\ history'.unswept = history.unswept
    BY <1>0, <1>8 DEF CreateConfig, HistoryFields
  <2> QED
    BY <1>3, <1>8, <2>1 DEF CreateConfig
<1>9. CASE OpenDatabase
  <2>1. job' = job /\ history'.unswept = history.unswept
    BY <1>0, <1>9 DEF OpenDatabase, HistoryFields
  <2>2. run.pc = "execute" /\ run'.pc \in {"work", "done"}
    BY <1>0, <1>9 DEF OpenDatabase, Exit, RunFields
  <2> QED
    BY <2>1, <2>2 DEF Aside, Early
<1>10. CASE Again
  BY <1>0, <1>10 DEF Again, NewRun, Aside
<1> QED
  BY <1>1, <1>2, <1>4, <1>5, <1>6, <1>7, <1>8, <1>9, <1>10, Zenon
     DEF Next, AnyOption, Preparing, Ending

LEMMA SweepStep == SweepInv /\ [Next]_vars => SweepInv'
<1> SUFFICES ASSUME SweepInv, [Next]_vars PROVE Waiting'
  BY QuietStep, WholeStep DEF SweepInv
<1>1. DOMAIN job = JobFields /\ DOMAIN history = HistoryFields /\ DOMAIN run = RunFields
  BY DEF SweepInv, QuietInv, Shapes
<1>2. CASE Start
  <2>1. run'.pc = "loading" /\ job' = NoJob /\ history'.unswept = 0
    BY <1>1, <1>2 DEF Start, NewRun, HistoryFields
  <2> QED
    BY <2>1 DEF Waiting, NoJob, Early
<1>3. CASE StartFile
  <2>1. /\ run' = run /\ run.pc = "work" /\ ~job.open
        /\ history' = history /\ history.unswept = 0
    BY <1>3 DEF StartFile, Reading, SweepInv, Waiting
  <2>2. /\ job'.open = TRUE /\ job'.counted = 0 /\ job'.perPurge \in Nat
    BY <1>3 DEF StartFile, SweepInv, Whole
  <2>3. \A p \in Nat : Rounds(0, p, 0)
    <3>1. \A p \in Nat : 0 = 0 * p + 0
      OBVIOUS
    <3> QED
      BY <3>1 DEF Rounds
  <2> QED
    BY <2>1, <2>2, <2>3 DEF Waiting, Early
<1>4. CASE SkipMessage
  <2>1. /\ run' = run /\ history' = history
        /\ job'.open = job.open /\ job'.counted = job.counted
        /\ job'.perPurge = job.perPurge
    BY <1>1, <1>4 DEF SkipMessage, JobFields
  <2> QED
    BY <2>1 DEF SweepInv, Waiting
<1>5. CASE ProcessMessage
  <2> DEFINE p == job.perPurge
             u == history.unswept
             c == job.counted
  <2>1. /\ run' = run /\ run.pc = "work" /\ job.open
        /\ job'.open = job.open /\ job'.perPurge = p
    BY <1>1, <1>5 DEF ProcessMessage, Reading, JobFields
  <2>2. job'.counted = IF p > 0 THEN c + 1 ELSE 0
    BY <1>1, <1>5 DEF ProcessMessage, JobFields
  <2>3. history'.unswept = IF (p > 0 /\ (c + 1) % p = 0) \/ p = 0 THEN 0 ELSE u + 1
    BY <1>1, <1>5, Zenon DEF ProcessMessage, HistoryFields
  <2>4. p \in Nat /\ c \in Nat /\ u \in Nat
    BY DEF SweepInv, Waiting
  <2>5. CASE p = 0
    BY <2>1, <2>2, <2>3, <2>4, <2>5 DEF SweepInv, Waiting, Early
  <2>6. CASE p > 0
    <3>1. u < p /\ Rounds(c, p, u)
      BY <2>1, <2>6 DEF SweepInv, Waiting
    <3>2. IF (c + 1) % p = 0 THEN Rounds(c + 1, p, 0)
          ELSE u + 1 < p /\ Rounds(c + 1, p, u + 1)
      BY <2>4, <2>6, <3>1, NextMessage
    <3> QED
      BY <2>1, <2>2, <2>3, <2>4, <2>6, <3>2 DEF SweepInv, Waiting, Early
  <2> QED
    BY <2>4, <2>5, <2>6
<1>6. CASE FinishFile
  <2> DEFINE p == job.perPurge
             u == history.unswept
             c == job.counted
  <2>1. /\ run' = run /\ run.pc = "work" /\ job.open
        /\ job'.open = FALSE /\ job'.perPurge = p /\ job'.counted = c
    BY <1>1, <1>6 DEF FinishFile, Reading, JobFields
  <2>2. history'.unswept = IF p > 0 /\ c % p # 0 THEN 0 ELSE u
    BY <1>1, <1>6 DEF FinishFile, HistoryFields
  <2>3. p \in Nat /\ c \in Nat /\ u \in Nat
    BY DEF SweepInv, Waiting
  <2>4. history'.unswept = 0
    <3>1. CASE p = 0
      BY <2>1, <2>2, <2>3, <3>1 DEF SweepInv, Waiting
    <3>2. CASE p > 0
      <4>1. c % p = u
        BY <2>1, <2>3, <3>2, WholeRounds DEF SweepInv, Waiting
      <4> QED
        BY <2>2, <2>3, <3>2, <4>1
    <3> QED
      BY <2>3, <3>1, <3>2
  <2> QED
    BY <2>1, <2>3, <2>4 DEF Waiting, Early
<1>7. CASE Stop \/ UNCHANGED vars
  BY <1>7 DEF Stop, vars, SweepInv, Waiting
<1>8. CASE Aside
  BY <1>8, AsideStep DEF SweepInv
<1> QED
  BY <1>2, <1>3, <1>4, <1>5, <1>6, <1>7, <1>8, MostStepsAside DEF SweepInv

(* Fewer messages than -P was given wait for a sweep at any time, and none  *)
(* once a mailbox has been read.                                             *)
THEOREM AlwaysSweptInTime == Spec => []SweptInTime
<1>1. SweepInv => SweptInTime
  BY DEF SweepInv, Waiting, SweptInTime, Reading
<1> QED
  BY <1>1, SweepInit, SweepStep, PTL DEF Spec

------------------------------------------------------------------------------
(* What was asked for *)

(* The members an option can give a value that is remembered. *)
PlainMembers == {"maxPhraseTerms", "maxWordRepeats", "termsForScore",
                 "maxCacheTerms", "nonAscii", "fieldName", "removeHTML",
                 "extendTopTerms", "type", "shared", "private"}
GivenMembers == PlainMembers \cup {"minWordCount", "spamThreshold"}

(* The score mode has a value of its own. *)
Excused(s, m) == \/ m = "spamThreshold" /\ s.scoreMode # "normal"
                 \/ m = "minWordCount" /\ s.scoreMode = "alt1"

(* The settings hold what was given, and a change of the score mode goes    *)
(* back to it.                                                               *)
Holds(s, given) ==
  /\ DOMAIN given \subseteq GivenMembers
  /\ \A m \in DOMAIN given : s[m] = given[m] \/ Excused(s, m)
  /\ "minWordCount" \in DOMAIN given => s.defaultMinWordCount = given["minWordCount"]
  /\ "spamThreshold" \in DOMAIN given => s.defaultThreshold = given["spamThreshold"]

LEMMA MembersThere ==
  /\ GivenMembers \subseteq Members
  /\ {"scoreMode", "defaultMinWordCount", "defaultThreshold"} \subseteq Members
  BY DEF GivenMembers, PlainMembers, Members, ParserMembers, FilterMembers,
         DatabaseMembers

LEMMA HoldsOne ==
  ASSUME NEW s, Whole(s), NEW g, Holds(s, g), NEW m \in PlainMembers, NEW v
  PROVE  Holds([s EXCEPT ![m] = v], (m :> v) @@ g)
<1> DEFINE h == (m :> v) @@ g
           t == [s EXCEPT ![m] = v]
<1>1. DOMAIN h = {m} \cup DOMAIN g /\ h[m] = v /\ \A k \in DOMAIN g \ {m} : h[k] = g[k]
  BY SMT DEF @@, :>
<1>2. /\ m \in Members /\ m \in GivenMembers
      /\ m \notin {"minWordCount", "spamThreshold", "scoreMode",
                   "defaultMinWordCount", "defaultThreshold"}
  BY MembersThere DEF PlainMembers, GivenMembers
<1>3. t[m] = v /\ \A k \in Members \ {m} : t[k] = s[k]
  BY <1>2 DEF Whole
<1> HIDE DEF h, t
<1>4. t.scoreMode = s.scoreMode /\ t.defaultMinWordCount = s.defaultMinWordCount
      /\ t.defaultThreshold = s.defaultThreshold
  BY <1>2, <1>3, MembersThere
<1>5. \A k : Excused(t, k) <=> Excused(s, k)
  BY <1>4 DEF Excused
<1>6. Holds(t, h)
  BY <1>1, <1>2, <1>3, <1>4, <1>5, MembersThere DEF Holds
<1> QED
  BY <1>6 DEF t, h

(* Any other member may change. *)
LEMMA HoldsOther ==
  ASSUME NEW s, NEW t, Whole(s), NEW g, Holds(s, g),
         \A m \in GivenMembers \cup {"scoreMode", "defaultMinWordCount",
                                     "defaultThreshold"} : t[m] = s[m]
  PROVE  Holds(t, g)
<1>1. \A k : Excused(t, k) <=> Excused(s, k)
  BY DEF Excused
<1> QED
  BY <1>1 DEF Holds

LEMMA HoldsNothing ==
  ASSUME NEW s, NEW g, Holds(s, g)
  PROVE  Holds(s, <<>> @@ g)
<1> DEFINE h == <<>> @@ g
<1>1. DOMAIN <<>> = {}
  OBVIOUS
<1>2. DOMAIN h = DOMAIN <<>> \cup DOMAIN g
      /\ \A m \in DOMAIN <<>> \cup DOMAIN g :
           h[m] = IF m \in DOMAIN <<>> THEN <<>>[m] ELSE g[m]
  BY SMT DEF @@
<1> HIDE DEF h
<1>3. DOMAIN h = DOMAIN g /\ \A m \in DOMAIN g : h[m] = g[m]
  BY <1>1, <1>2
<1>4. Holds(s, h)
  BY <1>3 DEF Holds
<1> QED
  BY <1>4 DEF h

LEMMA HoldsCount ==
  ASSUME NEW s, Whole(s), NEW g, Holds(s, g), NEW n
  PROVE  Holds(SetMinWordCount(s, n), ("minWordCount" :> n) @@ g)
<1> DEFINE m == "minWordCount"
           h == (m :> n) @@ g
           t == SetMinWordCount(s, n)
<1>1. DOMAIN h = {m} \cup DOMAIN g /\ h[m] = n /\ \A k \in DOMAIN g \ {m} : h[k] = g[k]
  BY SMT DEF @@, :>
<1>2. /\ t.minWordCount = n /\ t.defaultMinWordCount = n
      /\ \A k \in Members \ {m, "defaultMinWordCount"} : t[k] = s[k]
  BY MembersThere DEF Whole, SetMinWordCount, GivenMembers
<1> HIDE DEF h, t
<1>3. t.scoreMode = s.scoreMode /\ t.defaultThreshold = s.defaultThreshold
  BY <1>2, MembersThere
<1>4. \A k : Excused(t, k) <=> Excused(s, k)
  BY <1>3 DEF Excused
<1>5. Holds(t, h)
  BY <1>1, <1>2, <1>3, <1>4, MembersThere DEF Holds, GivenMembers, PlainMembers
<1> QED
  BY <1>5 DEF t, h

LEMMA HoldsThreshold ==
  ASSUME NEW s, Whole(s), NEW g, Holds(s, g), NEW v
  PROVE  Holds(SetDefaultThreshold(s, v), ("spamThreshold" :> v) @@ g)
<1> DEFINE m == "spamThreshold"
           h == (m :> v) @@ g
           t == SetDefaultThreshold(s, v)
<1>1. DOMAIN h = {m} \cup DOMAIN g /\ h[m] = v /\ \A k \in DOMAIN g \ {m} : h[k] = g[k]
  BY SMT DEF @@, :>
<1>2. /\ t.scoreMode = s.scoreMode
      /\ t.defaultThreshold = v /\ t.defaultMinWordCount = s.defaultMinWordCount
      /\ s.scoreMode = "normal" => t.spamThreshold = v
      /\ s.scoreMode # "alt1" => t.minWordCount = s.defaultMinWordCount
      /\ \A k \in Members \ {m, "defaultThreshold", "goodBias", "minWordCount",
                              "scoreMode"} : t[k] = s[k]
  <2>1. {"scoreMode", "goodBias", "minWordCount", "spamThreshold",
         "defaultThreshold", "defaultMinWordCount"} \subseteq DOMAIN s
    BY DEF Whole, Members, FilterMembers
  <2>2. DOMAIN s = Members
    BY DEF Whole
  <2> DEFINE r == [s EXCEPT !.defaultThreshold = v]
  <2>3. /\ DOMAIN r = Members /\ r.defaultThreshold = v
        /\ \A k \in Members \ {"defaultThreshold"} : r[k] = s[k]
    BY <2>1, <2>2
  <2>4. t = SetScoreMode(r, s.scoreMode)
    BY DEF SetDefaultThreshold
  <2> HIDE DEF r
  <2>5. PICK bias, count, threshold :
          /\ t = [r EXCEPT !.scoreMode = s.scoreMode, !.goodBias = bias,
                           !.minWordCount = count, !.spamThreshold = threshold]
          /\ s.scoreMode = "normal" => threshold = r.defaultThreshold
          /\ s.scoreMode # "alt1" => count = r.defaultMinWordCount
    <3> DEFINE bias == IF s.scoreMode = "alt1" THEN 1 ELSE 2
               count == IF s.scoreMode = "alt1" THEN 1 ELSE r.defaultMinWordCount
               threshold == CASE s.scoreMode = "alt1" -> 6000000
                              [] s.scoreMode = "original" -> 9000000
                              [] s.scoreMode = "normal" -> r.defaultThreshold
    <3>1. t = [r EXCEPT !.scoreMode = s.scoreMode, !.goodBias = bias,
                        !.minWordCount = count, !.spamThreshold = threshold]
      BY <2>4, SMT DEF SetScoreMode
    <3>2. /\ s.scoreMode = "normal" => threshold = r.defaultThreshold
          /\ s.scoreMode # "alt1" => count = r.defaultMinWordCount
      BY SMT
    <3> HIDE DEF t, bias, count, threshold
    <3> QED
      BY <3>1, <3>2
  <2> HIDE DEF t
  <2> QED
    BY <2>1, <2>2, <2>3, <2>5
<1> HIDE DEF h, t
<1>3. \A k : Excused(t, k) <=> Excused(s, k)
  BY <1>2 DEF Excused
<1>4. "goodBias" \notin GivenMembers
  BY DEF GivenMembers, PlainMembers
<1>5. Holds(t, h)
  BY <1>1, <1>2, <1>3, <1>4, MembersThere DEF Holds, GivenMembers, PlainMembers, Excused
<1> QED
  BY <1>5 DEF t, h

LEMMA HoldsSigs ==
  ASSUME NEW s, Whole(s), NEW g, Holds(s, g)
  PROVE  Holds(With(s, Sigs), Sigs @@ g)
<1> DEFINE h == Sigs @@ g
           t == With(s, Sigs)
<1>1. DOMAIN Sigs = {"termsForScore", "maxWordRepeats", "extendTopTerms"}
  BY DEF Sigs
<1>2. DOMAIN Sigs \subseteq PlainMembers
  BY <1>1 DEF PlainMembers
<1>3. /\ DOMAIN h = DOMAIN Sigs \cup DOMAIN g
      /\ \A k \in DOMAIN Sigs : h[k] = Sigs[k]
      /\ \A k \in DOMAIN g \ DOMAIN Sigs : h[k] = g[k]
  <2>1. /\ DOMAIN h = DOMAIN Sigs \cup DOMAIN g
        /\ \A k \in DOMAIN Sigs \cup DOMAIN g :
             h[k] = IF k \in DOMAIN Sigs THEN Sigs[k] ELSE g[k]
    BY SMT DEF @@
  <2> HIDE DEF h
  <2> QED
    BY <2>1
<1>4. /\ \A k \in DOMAIN Sigs : t[k] = Sigs[k]
      /\ \A k \in Members \ DOMAIN Sigs : t[k] = s[k]
  BY <1>2, MembersThere DEF With, Whole, GivenMembers
<1> HIDE DEF h, t
<1>5. {"scoreMode", "defaultMinWordCount", "defaultThreshold", "minWordCount",
       "spamThreshold"} \cap DOMAIN Sigs = {}
  BY <1>1
<1>6. t.scoreMode = s.scoreMode /\ t.defaultMinWordCount = s.defaultMinWordCount
      /\ t.defaultThreshold = s.defaultThreshold
  BY <1>4, <1>5, MembersThere
<1>7. \A k : Excused(t, k) <=> Excused(s, k)
  BY <1>6 DEF Excused
<1>8. Holds(t, h)
  BY <1>2, <1>3, <1>4, <1>5, <1>6, <1>7, MembersThere DEF Holds, GivenMembers
<1> QED
  BY <1>8 DEF t, h

(* From the options to the command, and while a file that is not there is   *)
(* looked for, what was given holds.                                         *)
Settled == \/ run.pc \in {"options", "found", "cases", "extras", "execute"}
           \/ run.pc = "loading" /\ ~LoadedFile.exists
Given == history.plain =>
           /\ run.testCases = <<>> /\ run.extended = <<>>
           /\ Settled => Holds(settings, history.given)

GivenInv == QuietInv /\ Whole(settings) /\ Given

(* Members no option remembers. *)
Other(s, t) ==
  \A m \in GivenMembers \cup {"scoreMode", "defaultMinWordCount",
                              "defaultThreshold"} : t[m] = s[m]
Unremembered == Members \ (GivenMembers \cup {"scoreMode", "defaultMinWordCount",
                                              "defaultThreshold"})

LEMMA OthersChange ==
  ASSUME NEW s, Whole(s)
  PROVE  \A m \in Unremembered : \A v : Other(s, [s EXCEPT ![m] = v])
  BY MembersThere DEF Other, Whole, Unremembered

LEMMA TheOthers ==
  {"messagesPerPurge", "headers", "createDbDir", "ignoreContentLength",
   "ignoreFrom", "targetSizeMB"} \subseteq Unremembered
  BY DEF Unremembered, Members, CommandMembers, ParserMembers, DatabaseMembers,
         GivenMembers, PlainMembers

(* One option. *)
LEMMA GivenOption ==
  ASSUME GivenInv, AnyOption
  PROVE  Given'
<1> DEFINE g == history.given
           Whatever == Holds(settings, g)
<1>0. /\ DOMAIN run = RunFields /\ DOMAIN history = HistoryFields
      /\ run.pc = "options" /\ Whole(settings) /\ disk' = disk
      /\ history.plain => /\ Holds(settings, g)
                          /\ run.testCases = <<>> /\ run.extended = <<>>
  BY OptionStep DEF GivenInv, QuietInv, Shapes, OptionEffect, Given, Settled
<1>1. ASSUME NEW s, NEW given, Sets(s, given),
             history.plain => Holds(s, given @@ g)
      PROVE  Given'
  <2>1. /\ run' = run /\ settings' = s /\ history'.plain = history.plain
        /\ history'.given = given @@ g
    BY <1>0, <1>1 DEF Sets, HistoryFields
  <2> QED
    BY <1>0, <1>1, <2>1, Zenon DEF Given, Settled
<1>2. ASSUME NEW r, Notes(r), r.testCases = run.testCases,
             r.extended = run.extended
      PROVE  Given'
  <2>1. /\ run' = r /\ settings' = settings /\ history'.plain = history.plain
        /\ history'.given = g
    BY <1>0, <1>2 DEF Notes, HistoryFields
  <2> QED
    BY <1>0, <1>2, <2>1, Zenon DEF Given, Settled
<1>3. ASSUME UsageError PROVE Given'
  <2>1. /\ [run EXCEPT !.usageError = TRUE].testCases = run.testCases
        /\ [run EXCEPT !.usageError = TRUE].extended = run.extended
    BY <1>0 DEF RunFields
  <2> QED
    BY <1>2, <1>3, <2>1 DEF UsageError
<1>4. ASSUME NEW n, NEW low, NEW high, NEW s, NEW given,
             history.plain => Holds(s, given @@ g),
             Numbered(n, low, high, s, given)
      PROVE  Given'
  BY <1>1, <1>3, <1>4, Zenon DEF Numbered
<1>5. ASSUME NEW m \in PlainMembers, NEW v
      PROVE  history.plain => Holds([settings EXCEPT ![m] = v], (m :> v) @@ g)
  BY <1>0, HoldsOne, Zenon
<1>6. ASSUME NEW m \in Unremembered, NEW v
      PROVE  history.plain => Holds([settings EXCEPT ![m] = v], <<>> @@ g)
  <2>1. Other(settings, [settings EXCEPT ![m] = v])
    BY <1>0, OthersChange
  <2>2. history.plain => Holds([settings EXCEPT ![m] = v], g)
    BY <1>0, <2>1, HoldsOther, Zenon DEF Other
  <2> QED
    BY <2>2, HoldsNothing, Zenon
<1>7. CASE OptionNumber
  <2>1. PICK n \in Numbers :
       \/ Numbered(n, 0, 10000, SetMinWordCount(settings, n),
                   "minWordCount" :> n)
       \/ Numbered(n, 1, 10, [settings EXCEPT !.maxPhraseTerms = n],
                   "maxPhraseTerms" :> n)
       \/ Numbered(n, 1, 100000, [settings EXCEPT !.messagesPerPurge = n],
                   <<>>)
       \/ Numbered(n, 1, 10, [settings EXCEPT !.maxWordRepeats = n],
                   "maxWordRepeats" :> n)
       \/ Numbered(n, 5, 500, [settings EXCEPT !.termsForScore = n],
                   "termsForScore" :> n)
       \/ LET size == IF n = 0 THEN 100000 ELSE n
          IN Numbered(n, 0, 100000, [settings EXCEPT !.maxCacheTerms = size],
                      "maxCacheTerms" :> size)
    BY <1>7, SMT DEF OptionNumber
  <2>2. CASE Numbered(n, 0, 10000, SetMinWordCount(settings, n), "minWordCount" :> n)
    <3>1. history.plain => Holds(SetMinWordCount(settings, n), ("minWordCount" :> n) @@ g)
      BY <1>0, HoldsCount, Zenon
    <3> QED
      BY <1>4, <2>2, <3>1, SMT
  <2>3. CASE Numbered(n, 1, 10, [settings EXCEPT !.maxPhraseTerms = n], "maxPhraseTerms" :> n)
    <3>1. history.plain => Holds([settings EXCEPT !.maxPhraseTerms = n], ("maxPhraseTerms" :> n) @@ g)
      BY <1>5, SMT DEF PlainMembers
    <3> QED
      BY <1>4, <2>3, <3>1, SMT
  <2>4. CASE Numbered(n, 1, 100000, [settings EXCEPT !.messagesPerPurge = n], <<>>)
    <3>1. history.plain => Holds([settings EXCEPT !.messagesPerPurge = n], <<>> @@ g)
      BY <1>6, TheOthers, Zenon
    <3> QED
      BY <1>4, <2>4, <3>1, SMT
  <2>5. CASE Numbered(n, 1, 10, [settings EXCEPT !.maxWordRepeats = n], "maxWordRepeats" :> n)
    <3>1. history.plain => Holds([settings EXCEPT !.maxWordRepeats = n], ("maxWordRepeats" :> n) @@ g)
      BY <1>5, SMT DEF PlainMembers
    <3> QED
      BY <1>4, <2>5, <3>1, SMT
  <2>6. CASE Numbered(n, 5, 500, [settings EXCEPT !.termsForScore = n], "termsForScore" :> n)
    <3>1. history.plain => Holds([settings EXCEPT !.termsForScore = n], ("termsForScore" :> n) @@ g)
      BY <1>5, SMT DEF PlainMembers
    <3> QED
      BY <1>4, <2>6, <3>1, SMT
  <2>7. CASE LET size == IF n = 0 THEN 100000 ELSE n
             IN Numbered(n, 0, 100000, [settings EXCEPT !.maxCacheTerms = size],
                         "maxCacheTerms" :> size)
    <3> DEFINE size == IF n = 0 THEN 100000 ELSE n
    <3>1. Numbered(n, 0, 100000, [settings EXCEPT !.maxCacheTerms = size],
                   "maxCacheTerms" :> size)
      BY <2>7, SMT
    <3> HIDE DEF size
    <3>2. history.plain => Holds([settings EXCEPT !.maxCacheTerms = size],
                                 ("maxCacheTerms" :> size) @@ g)
      BY <1>5, SMT DEF PlainMembers
    <3> QED
      BY <1>4, <3>1, <3>2, SMT
  <2> QED
    BY <2>1, <2>2, <2>3, <2>4, <2>5, <2>6, <2>7
<1>8. CASE OptionThreshold
  <2>1. PICK v \in Thresholds :
          Numbered(v, 0, One, SetDefaultThreshold(settings, v), "spamThreshold" :> v)
    BY <1>8, SMT DEF OptionThreshold
  <2>2. history.plain => Holds(SetDefaultThreshold(settings, v),
                               ("spamThreshold" :> v) @@ g)
    BY <1>0, HoldsThreshold, Zenon
  <2> QED
    BY <1>4, <2>1, <2>2, SMT
<1>9. CASE OptionText
  <2>1. \A c : history.plain => Holds(SetReplaceNonAscii(settings, c),
                                      ("nonAscii" :> c) @@ g)
    BY <1>5, SMT DEF PlainMembers, SetReplaceNonAscii
  <2>2. \A v : history.plain => Holds([settings EXCEPT !.fieldName = v],
                                      ("fieldName" :> v) @@ g)
    BY <1>5, SMT DEF PlainMembers
  <2>3. history.plain => Holds([settings EXCEPT !.removeHTML = FALSE],
                               ("removeHTML" :> FALSE) @@ g)
    BY <1>5, Zenon DEF PlainMembers
  <2>4. \A h : history.plain => Holds([settings EXCEPT !.headers = h], <<>> @@ g)
    BY <1>6, TheOthers, Zenon
  <2>5. ASSUME NEW c, Sets(SetReplaceNonAscii(settings, c), "nonAscii" :> c)
        PROVE  Given'
    BY <1>1, <2>1, <2>5, Zenon
  <2>6. ASSUME NEW v, Sets([settings EXCEPT !.fieldName = v], "fieldName" :> v)
        PROVE  Given'
    BY <1>1, <2>2, <2>6, Zenon
  <2>7. ASSUME NEW h, Sets([settings EXCEPT !.headers = h], <<>>) PROVE Given'
    BY <1>1, <2>4, <2>7, Zenon
  <2> QED
    BY <1>1, <1>9, <2>3, <2>5, <2>6, <2>7, Zenon DEF OptionText
<1>10. CASE OptionSwitch
  <2>1. history.plain => Holds([settings EXCEPT !.createDbDir = TRUE], <<>> @@ g)
    BY <1>6, TheOthers, Zenon
  <2>2. history.plain => Holds([settings EXCEPT !.ignoreContentLength = TRUE], <<>> @@ g)
    BY <1>6, TheOthers, Zenon
  <2>3. history.plain => Holds([settings EXCEPT !.extendTopTerms = TRUE],
                               ("extendTopTerms" :> TRUE) @@ g)
    BY <1>5, Zenon DEF PlainMembers
  <2>4. history.plain => Holds(With(settings, Sigs), Sigs @@ g)
    BY <1>0, HoldsSigs, Zenon
  <2>5. \A r \in {[run EXCEPT !.forceMbox = TRUE], [run EXCEPT !.single = TRUE],
                   [run EXCEPT !.single = TRUE, !.status = TRUE],
                   [run EXCEPT !.version = TRUE]} :
          r.testCases = run.testCases /\ r.extended = run.extended
    BY <1>0 DEF RunFields
  <2> QED
    BY <1>1, <1>2, <1>3, <1>10, <2>1, <2>2, <2>3, <2>4, <2>5, Zenon DEF OptionSwitch
<1>11. CASE OptionNamed
  <2>1. history'.plain = FALSE
    BY <1>0, <1>11 DEF OptionNamed, HistoryFields
  <2> QED
    BY <2>1 DEF Given
<1>12. CASE OptionDatabase
  <2>1. PICK arg, size :
          /\ arg \in TypedDirs
          /\ settings' = [settings EXCEPT !.type = arg.type, !.targetSizeMB = size]
          /\ run'.testCases = run.testCases /\ run'.extended = run.extended
          /\ history'.given = ("type" :> arg.type) @@ g
          /\ history'.plain = history.plain
    <3>1. PICK arg, size :
            /\ arg \in TypedDirs
            /\ settings' = [settings EXCEPT !.type = arg.type, !.targetSizeMB = size]
            /\ run' = [run EXCEPT !.pc = "loading", !.basedir = arg.dir,
                         !.load = [NoLoad EXCEPT !.dir = arg.dir,
                                                 !.setsPrivate = TRUE]]
            /\ history' = [history EXCEPT !.options = @ + 1,
                             !.given = ("type" :> arg.type) @@ @]
      BY <1>12, Zenon DEF OptionDatabase
    <3>2. run'.testCases = run.testCases /\ run'.extended = run.extended
      BY <1>0, <3>1, SMT DEF RunFields
    <3>3. /\ history'.given = ("type" :> arg.type) @@ g
          /\ history'.plain = history.plain
      <4> DEFINE more == ("type" :> arg.type) @@ g
      <4>1. history' = [history EXCEPT !.options = @ + 1, !.given = more]
        BY <3>1, Zenon
      <4> HIDE DEF more
      <4>2. history'.given = more /\ history'.plain = history.plain
        BY <1>0, <4>1, SMT DEF HistoryFields
      <4> QED
        BY <4>2 DEF more
    <3> QED
      BY <3>1, <3>2, <3>3, Zenon
  <2> DEFINE s == [settings EXCEPT !.type = arg.type]
  <2>2. history.plain => Holds(s, ("type" :> arg.type) @@ g)
    BY <1>5, Zenon DEF PlainMembers
  <2>3. Whole(s) /\ settings' = [s EXCEPT !.targetSizeMB = size]
    BY <1>0, <2>1, PurgeIsMember DEF Whole
  <2>4. Other(s, settings')
    BY <2>3, OthersChange, TheOthers, Zenon
  <2> HIDE DEF s
  <2>5. history.plain => Holds(settings', ("type" :> arg.type) @@ g)
    BY <2>2, <2>3, <2>4, HoldsOther, Zenon DEF Other
  <2> QED
    BY <1>0, <2>1, <2>5, Zenon DEF Given
<1>13. CASE OptionShared
  <2>1. \A v : history.plain => Holds([settings EXCEPT !.shared = v], ("shared" :> v) @@ g)
    BY <1>5, SMT DEF PlainMembers
  <2> QED
    BY <1>1, <1>13, <2>1, Zenon DEF OptionShared
<1>14. CASE OptionConfigFile
  <2>1. CASE UsageError
    BY <1>3, <2>1
  <2>2. CASE ~UsageError
    <3>1. PICK dir \in Dirs :
            /\ disk.configs[dir].exists
            /\ run'.pc = "loading" /\ run'.load.dir = dir
            /\ run'.testCases = run.testCases /\ run'.extended = run.extended
            /\ history'.plain = history.plain
      <4>1. PICK dir \in Dirs :
              /\ disk.configs[dir].exists
              /\ run' = [run EXCEPT !.pc = "loading", !.basedir = dir,
                                    !.load = [NoLoad EXCEPT !.dir = dir]]
              /\ history' = [history EXCEPT !.options = @ + 1]
        BY <1>14, <2>2, Zenon DEF OptionConfigFile
      <4>2. run'.pc = "loading" /\ run'.load.dir = dir
        BY <1>0, <4>1 DEF RunFields, NoLoad
      <4>3. /\ run'.testCases = run.testCases /\ run'.extended = run.extended
            /\ history'.plain = history.plain
        BY <1>0, <4>1, SMT DEF RunFields, HistoryFields
      <4> QED
        BY <4>1, <4>2, <4>3, Zenon
    <3>2. ~Settled'
      BY <1>0, <3>1 DEF Settled, LoadedFile
    <3> QED
      BY <1>0, <3>1, <3>2, Zenon DEF Given
  <2> QED
    BY <2>1, <2>2
<1> QED
  BY <1>7, <1>8, <1>9, <1>10, <1>11, <1>12, <1>13, <1>14 DEF AnyOption

(* The fields of a load. *)
LEMMA LoadStep ==
  ASSUME QuietInv, DOMAIN run.load = LoadFields, [Next]_vars
  PROVE  DOMAIN run'.load = LoadFields
<1>0. DOMAIN run = RunFields
  BY DEF QuietInv, Shapes
<1>1. CASE AnyOption
  <2>1. OptionEffect
    BY <1>1, OptionStep
  <2> QED
    BY <2>1, Zenon DEF OptionEffect
<1>2. CASE Start \/ Again
  <2>1. DOMAIN NoLoad = LoadFields
    BY DEF NoLoad, LoadFields
  <2>2. \A pc : "load" \in DOMAIN NewRun(pc) /\ NewRun(pc).load = NoLoad
    BY DEF NewRun
  <2>3. run'.load \in {NoLoad, [NoLoad EXCEPT !.dir = "home"]}
    BY <1>2, <2>2 DEF Start, Again
  <2> QED
    BY <2>1, <2>3
<1>3. CASE ApplyStatement
  BY <1>0, <1>3 DEF ApplyStatement, RunFields
<1>4. CASE EndLoad
  BY <1>0, <1>4 DEF EndLoad, RunFields, NoLoad, LoadFields
<1>5. ASSUME NEW code, Exit(code) PROVE run'.load = run.load
  BY <1>0, <1>5 DEF Exit, RunFields
<1>6. CASE RejectConfig \/ ShowUsage \/ CreateConfig \/ Help \/ TermsCommand
           \/ NothingToBalance \/ BadLine \/ Interrupted \/ EndCommand
  BY <1>5, <1>6, Zenon DEF RejectConfig, ShowUsage, CreateConfig, Help, TermsCommand,
                           NothingToBalance, BadLine, Interrupted, EndCommand
<1>7. CASE FindCommand
  BY <1>0, <1>7 DEF FindCommand, RunFields
<1>8. CASE SingleMessage \/ ApplyTestCase \/ ApplyExtendedOption
  BY <1>0, <1>8 DEF SingleMessage, ApplyTestCase, ApplyExtendedOption, RunFields
<1>9. CASE EndOfNames
  BY <1>0, <1>5, <1>9 DEF EndOfNames, RunFields
<1>10. CASE OpenDatabase
  BY <1>0, <1>5, <1>10 DEF OpenDatabase, RunFields
<1>11. CASE StartFile \/ SkipMessage \/ ProcessMessage \/ FinishFile
  BY <1>11 DEF StartFile, SkipMessage, ProcessMessage, FinishFile
<1>12. CASE UNCHANGED vars \/ Stop
  BY <1>12 DEF vars, Stop
<1> QED
  BY <1>1, <1>2, <1>3, <1>4, <1>6, <1>7, <1>8, <1>9, <1>10, <1>11, <1>12, Zenon
     DEF Next, AnyOption

LEMMA GivenStep ==
  ASSUME GivenInv, DOMAIN run.load = LoadFields, [Next]_vars
  PROVE  Given'
<1>0. /\ DOMAIN run = RunFields /\ DOMAIN history = HistoryFields /\ Whole(settings)
      /\ history.plain => run.testCases = <<>> /\ run.extended = <<>>
      /\ history.plain /\ Settled => Holds(settings, history.given)
  BY DEF GivenInv, QuietInv, Shapes, Given
<1>1. CASE AnyOption
  BY <1>1, GivenOption
<1>2. \A s : Holds(s, <<>>)
  <2>1. DOMAIN <<>> = {}
    OBVIOUS
  <2> DEFINE h == <<>>
  <2>2. DOMAIN h = {}
    BY <2>1
  <2> HIDE DEF h
  <2>3. \A s : Holds(s, h)
    BY <2>2 DEF Holds
  <2> QED
    BY <2>3 DEF h
<1>3. CASE Start
  <2>1. run'.testCases = <<>> /\ run'.extended = <<>>
    BY <1>3 DEF Start, NewRun
  <2>2. history'.given = <<>>
    BY <1>0, <1>3 DEF Start, HistoryFields
  <2> QED
    BY <1>2, <2>1, <2>2 DEF Given
<1>4. CASE ApplyStatement
  <2>1. /\ LoadedFile.exists /\ disk' = disk /\ history' = history
        /\ run.pc = "loading"
    BY <1>4 DEF ApplyStatement
  <2>2. /\ run'.pc = run.pc /\ run'.load.dir = run.load.dir
        /\ run'.testCases = run.testCases /\ run'.extended = run.extended
    BY <1>0, <1>4 DEF ApplyStatement, RunFields, LoadFields
  <2>3. ~Settled'
    BY <2>1, <2>2 DEF Settled, LoadedFile
  <2> QED
    BY <1>0, <2>1, <2>2, <2>3 DEF Given
<1>5. CASE EndLoad
  <2> DEFINE base == IF LoadedFile.exists THEN <<>> ELSE history.given
  <2>1. /\ run.pc = "loading" /\ disk' = disk
        /\ run'.testCases = run.testCases /\ run'.extended = run.extended
        /\ history'.plain = history.plain
        /\ settings' = [settings EXCEPT !.private = IF run.load.setsPrivate
                                                   THEN run.basedir ELSE @]
    BY <1>0, <1>5, SMT DEF EndLoad, LoadIsOver, RunFields, HistoryFields
  <2>2. history'.given = (IF run.load.setsPrivate THEN "private" :> run.basedir
                                                  ELSE <<>>) @@ base
    <3> DEFINE more == (IF run.load.setsPrivate THEN "private" :> run.basedir
                                                ELSE <<>>) @@ base
    <3>1. history' = [history EXCEPT !.given = more]
      BY <1>5, Zenon DEF EndLoad
    <3> HIDE DEF more
    <3>2. history'.given = more
      BY <1>0, <3>1, SMT DEF HistoryFields
    <3> QED
      BY <3>2 DEF more
  <2>3. history.plain => Holds(settings, base)
    BY <1>0, <1>2, <2>1, Zenon DEF Settled
  <2> HIDE DEF base
  <2>4. CASE run.load.setsPrivate
    <3>1. /\ settings' = [settings EXCEPT !.private = run.basedir]
          /\ history'.given = ("private" :> run.basedir) @@ base
      BY <2>1, <2>2, <2>4, Zenon
    <3>2. history.plain => Holds(settings', history'.given)
      BY <1>0, <2>3, <3>1, HoldsOne, Zenon DEF PlainMembers
    <3> QED
      BY <1>0, <2>1, <3>2, Zenon DEF Given
  <2>5. CASE ~run.load.setsPrivate
    <3>1. /\ settings' = [settings EXCEPT !.private = settings.private]
          /\ history'.given = <<>> @@ base
      BY <2>1, <2>2, <2>5, Zenon
    <3>2. Other(settings, settings')
      BY <1>0, <3>1, MembersThere DEF Whole, Other
    <3>3. history.plain => Holds(settings', base)
      BY <1>0, <2>3, <3>2, HoldsOther, Zenon DEF Other
    <3>4. history.plain => Holds(settings', <<>> @@ base)
      BY <3>3, HoldsNothing, Zenon
    <3> QED
      BY <1>0, <2>1, <3>1, <3>4, Zenon DEF Given
  <2> QED
    BY <2>4, <2>5
<1>6. ASSUME Settled, disk' = disk, history' = history,
             run'.testCases = run.testCases, run'.extended = run.extended,
             Other(settings, settings')
      PROVE  Given'
  BY <1>0, <1>6, HoldsOther, Zenon DEF Other, Given
<1>7. Other(settings, settings)
  BY DEF Other
<1>8. CASE FindCommand
  <2>1. /\ Settled /\ disk' = disk /\ history' = history
        /\ run'.testCases = run.testCases /\ run'.extended = run.extended
    BY <1>0, <1>8 DEF FindCommand, Settled, RunFields
  <2>2. settings' = settings \/ settings' = [settings EXCEPT !.messagesPerPurge = 0]
    BY <1>8 DEF FindCommand
  <2>3. Other(settings, [settings EXCEPT !.messagesPerPurge = 0])
    BY <1>0, OthersChange, TheOthers, Zenon
  <2> QED
    BY <1>6, <1>7, <2>1, <2>2, <2>3, Zenon
<1>9. CASE SingleMessage
  <2>1. /\ Settled /\ disk' = disk /\ history' = history
        /\ run'.testCases = run.testCases /\ run'.extended = run.extended
    BY <1>0, <1>9 DEF SingleMessage, Settled, RunFields
  <2>2. \/ settings' = settings
        \/ settings' = [settings EXCEPT !.ignoreFrom = TRUE,
                                        !.ignoreContentLength = TRUE]
    BY <1>9 DEF SingleMessage
  <2>3. Other(settings, [settings EXCEPT !.ignoreFrom = TRUE,
                                         !.ignoreContentLength = TRUE])
    <3>1. "ignoreFrom" \in Unremembered /\ "ignoreContentLength" \in Unremembered
      BY TheOthers, Zenon
    <3> DEFINE one == [settings EXCEPT !.ignoreFrom = TRUE]
    <3>2. Other(settings, one) /\ Whole(one)
      <4>1. Other(settings, one)
        BY <1>0, <3>1, OthersChange, Zenon
      <4>2. Whole(one)
        BY <1>0, PurgeIsMember DEF Whole
      <4> QED
        BY <4>1, <4>2
    <3>3. [settings EXCEPT !.ignoreFrom = TRUE, !.ignoreContentLength = TRUE]
            = [one EXCEPT !.ignoreContentLength = TRUE]
      BY Zenon
    <3> HIDE DEF one
    <3>4. Other(one, [one EXCEPT !.ignoreContentLength = TRUE])
      BY <3>1, <3>2, OthersChange, Zenon
    <3> QED
      BY <3>2, <3>3, <3>4, Zenon DEF Other
  <2> QED
    BY <1>6, <1>7, <2>1, <2>2, <2>3, Zenon
<1>10. CASE ApplyTestCase \/ ApplyExtendedOption
  <2>1. history' = history /\ ~history.plain
    BY <1>0, <1>10 DEF ApplyTestCase, ApplyExtendedOption
  <2> QED
    BY <2>1 DEF Given
<1>11. CASE EndOfNames
  <2>1. /\ Settled /\ disk' = disk /\ history' = history /\ settings' = settings
        /\ run'.testCases = run.testCases /\ run'.extended = run.extended
    BY <1>0, <1>11 DEF EndOfNames, Settled, RunFields, Exit
  <2> QED
    BY <1>6, <1>7, <2>1, Zenon
<1>12. ASSUME NEW code, Exit(code), history'.plain = history.plain PROVE Given'
  <2>1. /\ run'.pc = "done"
        /\ run'.testCases = run.testCases /\ run'.extended = run.extended
    BY <1>0, <1>12 DEF Exit, RunFields
  <2> QED
    BY <1>0, <1>12, <2>1 DEF Given, Settled
<1>13. CASE RejectConfig \/ ShowUsage \/ CreateConfig \/ Help \/ TermsCommand
            \/ NothingToBalance \/ BadLine \/ Interrupted \/ EndCommand
  <2>1. history'.plain = history.plain
    BY <1>0, <1>13 DEF RejectConfig, ShowUsage, CreateConfig, Help, TermsCommand,
                       NothingToBalance, BadLine, Interrupted, EndCommand, HistoryFields
  <2> QED
    BY <1>12, <1>13, <2>1, Zenon
       DEF RejectConfig, ShowUsage, CreateConfig, Help, TermsCommand,
           NothingToBalance, BadLine, Interrupted, EndCommand
<1>14. CASE OpenDatabase
  <2>1. history'.plain = history.plain
    BY <1>0, <1>14 DEF OpenDatabase, HistoryFields
  <2>2. /\ run'.pc \in {"work", "done"}
        /\ run'.testCases = run.testCases /\ run'.extended = run.extended
    BY <1>0, <1>14 DEF OpenDatabase, Exit, RunFields
  <2> QED
    BY <1>0, <2>1, <2>2 DEF Given, Settled
<1>15. CASE StartFile \/ SkipMessage \/ ProcessMessage \/ FinishFile
  <2>1. run' = run /\ run.pc = "work" /\ history'.plain = history.plain
    BY <1>0, <1>15 DEF StartFile, SkipMessage, ProcessMessage, FinishFile, Reading,
                       HistoryFields
  <2> QED
    BY <1>0, <2>1 DEF Given, Settled
<1>16. CASE Again
  BY <1>16 DEF Again, NewRun, Given, Settled
<1>17. CASE UNCHANGED vars \/ Stop
  BY <1>17 DEF vars, Stop, GivenInv, Given, Settled, LoadedFile
<1> QED
  BY <1>1, <1>3, <1>4, <1>5, <1>8, <1>9, <1>10, <1>11, <1>13, <1>14, <1>15,
     <1>16, <1>17, Zenon DEF Next, AnyOption

(* What an option asks for is in force when the command starts, unless a    *)
(* file loaded after it or a test case says otherwise.                       *)
THEOREM OptionsAlwaysInForce == Spec => []OptionsInForce
<1> DEFINE I == GivenInv /\ DOMAIN run.load = LoadFields
<1>1. Init => I
  <2> SUFFICES ASSUME Init PROVE I
    OBVIOUS
  <2>1. run = NewRun("start") /\ settings = InitialSettings
    BY DEF Init
  <2>2. Given /\ DOMAIN run.load = LoadFields
    BY <2>1 DEF Given, Settled, NewRun, NoLoad, LoadFields
  <2> QED
    BY <2>1, <2>2, QuietInit, WholeInitially DEF GivenInv
<1>2. I /\ [Next]_vars => I'
  BY QuietStep, WholeStep, LoadStep, GivenStep DEF GivenInv
<1>3. I => OptionsInForce
  BY DEF GivenInv, Given, Settled, Holds, Excused, OptionsInForce
<1> QED
  BY <1>1, <1>2, <1>3, PTL DEF Spec

------------------------------------------------------------------------------
(* The name of the database: only -d and a file that is loaded change it *)

LEMMA PrivateThere == "private" \in Members
  BY DEF Members, DatabaseMembers

Stays(s, t) == t.private = s.private

LEMMA StaysScoring ==
  ASSUME NEW s, Whole(s)
  PROVE  \A n : /\ SetScoreMode(s, n).private = s.private
                /\ SetMinWordCount(s, n).private = s.private
                /\ SetSpamThreshold(s, n).private = s.private
                /\ SetDefaultThreshold(s, n).private = s.private
                /\ SetReplaceNonAscii(s, n).private = s.private
<1>1. ASSUME NEW r, DOMAIN r = Members
      PROVE  \A n : SetScoreMode(r, n).private = r.private
  BY <1>1, PrivateThere, SMT DEF SetScoreMode
<1>2. \A n : /\ DOMAIN [s EXCEPT !.defaultThreshold = n] = Members
             /\ [s EXCEPT !.defaultThreshold = n].private = s.private
  BY PrivateThere DEF Whole
<1>3. \A n : SetDefaultThreshold(s, n).private = s.private
  BY <1>1, <1>2, Zenon DEF SetDefaultThreshold
<1>4. \A n : /\ SetMinWordCount(s, n).private = s.private
             /\ SetSpamThreshold(s, n).private = s.private
             /\ SetReplaceNonAscii(s, n).private = s.private
  BY PrivateThere DEF Whole, SetMinWordCount, SetSpamThreshold, SetReplaceNonAscii
<1> QED
  BY <1>1, <1>3, <1>4, Zenon DEF Whole

LEMMA StaysTestCase ==
  ASSUME NEW s, Whole(s), NEW t
  PROVE  TestCase(t, s).private = s.private
<1> DEFINE changes == CASE t \in DOMAIN EarlyTestCases -> EarlyTestCases[t]
                        [] t \in DOMAIN LateTestCases -> LateTestCases[t]
                        [] OTHER -> Nothing
           r == [With(s, changes) EXCEPT !.headers = TestCaseHeaders(t, @)]
<1>1. Spares(changes)
  BY EarlySpare, LateSpare, ChangesSpare, Zenon DEF AllSpare
<1>2. TestCase(t, s) = TestCaseScoring(t, r)
  BY Zenon DEF TestCase
<1> HIDE DEF changes
<1>3. Whole(With(s, changes)) /\ With(s, changes).private = s.private
  BY <1>1, WholeWith, PrivateThere DEF With, Whole, Spares
<1>4. Whole(r) /\ r.private = s.private
  BY <1>3, PurgeIsMember, PrivateThere DEF Whole
<1> HIDE DEF r
<1>5. TestCaseScoring(t, r).private = r.private
  BY <1>4, StaysScoring, SMT DEF TestCaseScoring
<1> QED
  BY <1>2, <1>4, <1>5

LEMMA StaysExtendedOption ==
  ASSUME NEW s, Whole(s), NEW o \in ExtendedOptions
  PROVE  ExtendedOption(o, s).private = s.private
<1> DEFINE g == [With(s, Graham) EXCEPT !.headers = AllHeaders]
           w == Sigs @@ [minDistance |-> Thousandths(300), ignoreBody |-> TRUE]
<1>1. Spares(Graham) /\ Spares(w)
  BY ChangesSpare, SparesOver, Zenon
<1> HIDE DEF w
<1>2. \A f : Spares(f) => Whole(With(s, f)) /\ With(s, f).private = s.private
  BY WholeWith, PrivateThere DEF With, Whole, Spares
<1>3. Whole(g) /\ g.private = s.private
  BY <1>1, <1>2, PurgeIsMember, PrivateThere DEF Whole
<1> HIDE DEF g
<1>4. SetScoreMode(g, "original").private = s.private
  BY <1>3, StaysScoring
<1>5. CASE o = "graham"
  BY <1>4, <1>5 DEF ExtendedOption, g
<1>6. CASE o = "whitelist"
  BY <1>1, <1>2, <1>6 DEF ExtendedOption, w
<1>7. CASE o = "orig-score"
  BY <1>7, StaysScoring DEF ExtendedOption
<1>8. CASE o \in {"suspicious-tags", "honor-status-header", "honor-xstatus-header",
                  "tokenized", "ignore-body", "normal"}
  BY <1>8, PrivateThere DEF ExtendedOption, Whole
<1> QED
  BY <1>5, <1>6, <1>7, <1>8 DEF ExtendedOptions

LEMMA PrivateAtFirst == InitialSettings.private = "home"
<1> DEFINE two == NewParserConfig @@ NewFilterConfig
           three == two @@ NewDatabaseConfig
           four == three @@ NewCommandConfig
           day == [today |-> "clock"]
           all == four @@ day
<1>1. "private" \notin DOMAIN two
  <2>1. "private" \notin DOMAIN NewParserConfig
    BY SMT DEF NewParserConfig
  <2>2. "private" \notin DOMAIN NewFilterConfig
    BY SMT DEF NewFilterConfig
  <2> QED
    BY <2>1, <2>2, OverDomain, Zenon
<1>2. "private" \in DOMAIN NewDatabaseConfig /\ NewDatabaseConfig.private = "home"
  BY SMT DEF NewDatabaseConfig
<1>3. \A f, g : /\ "private" \in DOMAIN f => (f @@ g).private = f.private
                /\ "private" \notin DOMAIN f /\ "private" \in DOMAIN g =>
                     (f @@ g).private = g.private
  BY Zenon DEF @@
<1> HIDE DEF two
<1>4. "private" \in DOMAIN three /\ three.private = "home"
  BY <1>1, <1>2, <1>3, OverDomain, Zenon
<1> HIDE DEF three
<1>5. "private" \in DOMAIN four /\ four.private = "home"
  BY <1>3, <1>4, OverDomain, Zenon
<1> HIDE DEF four, day
<1>6. "private" \in DOMAIN all /\ all.private = "home"
  BY <1>3, <1>5, OverDomain, Zenon
<1> HIDE DEF all
<1>7. SetScoreMode(all, "normal").private = all.private
  BY <1>6, SMT DEF SetScoreMode
<1> QED
  BY <1>6, <1>7, Zenon DEF InitialSettings, all, day, four, three, two

LEMMA StaysLoaded ==
  ASSUME NEW st, ValidStatement(st), NEW s, Whole(s), NEW reset
  PROVE  Loaded(st, s, reset).settings.private =
           IF NamesDatabase(st) THEN st.args[1].string ELSE s.private
<1> USE PrivateThere
<1>1. ASSUME st.name \in ParserNames PROVE Stays(s, LoadParserStatement(st, s))
  <2>1. \A v : Stays(s, SetReplaceNonAscii(s, v))
    BY StaysScoring DEF Stays
  <2>2. \A v : /\ Stays(s, [s EXCEPT !.minTermLength = v])
              /\ Stays(s, [s EXCEPT !.maxTermLength = v])
              /\ Stays(s, [s EXCEPT !.removeHTML = v])
              /\ Stays(s, [s EXCEPT !.minPhraseTerms = v])
              /\ Stays(s, [s EXCEPT !.maxPhraseTerms = v])
              /\ Stays(s, [s EXCEPT !.minPhraseChars = v])
              /\ Stays(s, [s EXCEPT !.maxPhraseChars = v])
              /\ Stays(s, [s EXCEPT !.maxTermsPerMessage = v])
              /\ Stays(s, [s EXCEPT !.fieldName = v])
              /\ Stays(s, [s EXCEPT !.keepSuspiciousTags = v])
              /\ Stays(s, [s EXCEPT !.ignoreBody = v])
    BY DEF Whole, Stays
  <2>3. Stays(s, s)
    BY DEF Stays
  <2> QED
    BY <1>1, <2>1, <2>2, <2>3, Zenon DEF LoadParserStatement, ParserNames
<1>2. ASSUME st.name \in FilterNames PROVE Stays(s, LoadFilterStatement(st, s))
  <2>1. \A v : /\ Stays(s, SetScoreMode(s, v))
               /\ Stays(s, SetMinWordCount(s, v))
               /\ Stays(s, SetSpamThreshold(s, v))
    BY StaysScoring DEF Stays
  <2>2. \A v : /\ Stays(s, [s EXCEPT !.goodBias = v])
              /\ Stays(s, [s EXCEPT !.termsForScore = v])
              /\ Stays(s, [s EXCEPT !.maxWordRepeats = v])
              /\ Stays(s, [s EXCEPT !.extendTopTerms = v])
              /\ Stays(s, [s EXCEPT !.minArraySize = v])
              /\ Stays(s, [s EXCEPT !.waterCounts = v])
              /\ Stays(s, [s EXCEPT !.newWordScore = v])
              /\ Stays(s, [s EXCEPT !.minDistance = v])
    BY DEF Whole, Stays
  <2> QED
    BY <1>2, <2>1, <2>2, Zenon DEF LoadFilterStatement, FilterNames
<1>3. ASSUME st.name \in DatabaseNames
      PROVE  LoadDatabaseStatement(st, s).private =
               IF st.name = "private_filename" THEN st.args[1].string ELSE s.private
  BY <1>3, SMT DEF LoadDatabaseStatement, DatabaseNames, Whole
<1>4. \A h : Stays(s, [s EXCEPT !.headers = h])
  BY DEF Whole, Stays
<1> DEFINE after == Loaded(st, s, reset).settings
<1>5. CASE st.block = "parser" /\ st.name = "header"
  <2>1. Stays(s, after)
    BY <1>4, <1>5, SMT DEF Loaded
  <2> QED
    BY <1>5, <2>1 DEF NamesDatabase, Stays
<1>6. CASE st.block = "header" /\ st.name # "header"
  <2>1. Stays(s, after)
    BY <1>4, <1>6, SMT DEF Loaded
  <2> QED
    BY <1>6, <2>1 DEF NamesDatabase, Stays
<1>7. CASE st.block = "parser" /\ st.name \in ParserNames /\ st.name # "header"
  <2>1. after = LoadParserStatement(st, s)
    BY <1>7, SMT DEF Loaded
  <2> QED
    BY <1>1, <1>7, <2>1 DEF NamesDatabase, Stays
<1>8. CASE st.block = "filter" /\ st.name \in FilterNames /\ st.name # "header"
  <2>1. after = LoadFilterStatement(st, s)
    BY <1>8, SMT DEF Loaded
  <2> QED
    BY <1>2, <1>8, <2>1 DEF NamesDatabase, Stays
<1>9. CASE st.block = "database" /\ st.name \in DatabaseNames /\ st.name # "header"
  <2>1. after = LoadDatabaseStatement(st, s)
    BY <1>9, SMT DEF Loaded
  <2> QED
    BY <1>3, <1>9, <2>1 DEF NamesDatabase
<1> QED
  BY <1>5, <1>6, <1>7, <1>8, <1>9, ValidNames DEF ParserNames, FilterNames, DatabaseNames

LEMMA StaysOption ==
  ASSUME Whole(settings), AnyOption
  PROVE  Stays(settings, settings')
<1>1. ASSUME NEW s, NEW given, Sets(s, given), Stays(settings, s) PROVE Stays(settings, settings')
  BY <1>1 DEF Sets
<1>2. ASSUME NEW r, Notes(r) PROVE Stays(settings, settings')
  BY <1>2 DEF Notes, Stays
<1>3. ASSUME UsageError PROVE Stays(settings, settings')
  BY <1>2, <1>3 DEF UsageError
<1>4. ASSUME NEW n, NEW low, NEW high, NEW s, NEW given, Stays(settings, s),
             Numbered(n, low, high, s, given)
      PROVE  Stays(settings, settings')
  BY <1>1, <1>3, <1>4 DEF Numbered
<1>5. \A v : /\ Stays(settings, [settings EXCEPT !.maxPhraseTerms = v])
             /\ Stays(settings, [settings EXCEPT !.messagesPerPurge = v])
             /\ Stays(settings, [settings EXCEPT !.maxWordRepeats = v])
             /\ Stays(settings, [settings EXCEPT !.termsForScore = v])
             /\ Stays(settings, [settings EXCEPT !.maxCacheTerms = v])
             /\ Stays(settings, [settings EXCEPT !.fieldName = v])
             /\ Stays(settings, [settings EXCEPT !.removeHTML = v])
             /\ Stays(settings, [settings EXCEPT !.headers = v])
             /\ Stays(settings, [settings EXCEPT !.createDbDir = v])
             /\ Stays(settings, [settings EXCEPT !.ignoreContentLength = v])
             /\ Stays(settings, [settings EXCEPT !.extendTopTerms = v])
             /\ Stays(settings, [settings EXCEPT !.shared = v])
  BY PrivateThere DEF Whole, Stays
<1>6. CASE OptionNumber
  <2>1. \A n : Stays(settings, SetMinWordCount(settings, n))
    BY StaysScoring DEF Stays
  <2>2. PICK n \in Numbers :
       \/ Numbered(n, 0, 10000, SetMinWordCount(settings, n),
                   "minWordCount" :> n)
       \/ Numbered(n, 1, 10, [settings EXCEPT !.maxPhraseTerms = n],
                   "maxPhraseTerms" :> n)
       \/ Numbered(n, 1, 100000, [settings EXCEPT !.messagesPerPurge = n],
                   <<>>)
       \/ Numbered(n, 1, 10, [settings EXCEPT !.maxWordRepeats = n],
                   "maxWordRepeats" :> n)
       \/ Numbered(n, 5, 500, [settings EXCEPT !.termsForScore = n],
                   "termsForScore" :> n)
       \/ LET size == IF n = 0 THEN 100000 ELSE n
          IN Numbered(n, 0, 100000, [settings EXCEPT !.maxCacheTerms = size],
                      "maxCacheTerms" :> size)
    BY <1>6, SMT DEF OptionNumber
  <2>3. CASE Numbered(n, 0, 10000, SetMinWordCount(settings, n), "minWordCount" :> n)
    BY <1>4, <2>1, <2>3, SMT
  <2>4. CASE Numbered(n, 1, 10, [settings EXCEPT !.maxPhraseTerms = n], "maxPhraseTerms" :> n)
    <3>1. Stays(settings, [settings EXCEPT !.maxPhraseTerms = n])
      BY <1>5
    <3> QED
      BY <1>4, <2>4, <3>1, SMT
  <2>5. CASE Numbered(n, 1, 100000, [settings EXCEPT !.messagesPerPurge = n], <<>>)
    <3>1. Stays(settings, [settings EXCEPT !.messagesPerPurge = n])
      BY <1>5
    <3> QED
      BY <1>4, <2>5, <3>1, SMT
  <2>6. CASE Numbered(n, 1, 10, [settings EXCEPT !.maxWordRepeats = n], "maxWordRepeats" :> n)
    <3>1. Stays(settings, [settings EXCEPT !.maxWordRepeats = n])
      BY <1>5
    <3> QED
      BY <1>4, <2>6, <3>1, SMT
  <2>7. CASE Numbered(n, 5, 500, [settings EXCEPT !.termsForScore = n], "termsForScore" :> n)
    <3>1. Stays(settings, [settings EXCEPT !.termsForScore = n])
      BY <1>5
    <3> QED
      BY <1>4, <2>7, <3>1, SMT
  <2>8. CASE LET size == IF n = 0 THEN 100000 ELSE n
             IN Numbered(n, 0, 100000, [settings EXCEPT !.maxCacheTerms = size],
                         "maxCacheTerms" :> size)
    <3> DEFINE size == IF n = 0 THEN 100000 ELSE n
    <3>1. Stays(settings, [settings EXCEPT !.maxCacheTerms = size])
      BY PrivateThere DEF Whole, Stays
    <3> QED
      BY <1>4, <2>8, <3>1, SMT
  <2> QED
    BY <2>2, <2>3, <2>4, <2>5, <2>6, <2>7, <2>8
<1>7. CASE OptionThreshold
  <2>1. \A n : Stays(settings, SetDefaultThreshold(settings, n))
    BY StaysScoring DEF Stays
  <2> QED
    BY <1>4, <1>7, <2>1, SMT DEF OptionThreshold
<1>8. CASE OptionText
  <2>1. \A v : Stays(settings, SetReplaceNonAscii(settings, v))
    BY StaysScoring DEF Stays
  <2> QED
    BY <1>1, <1>5, <1>8, <2>1, Zenon DEF OptionText
<1>9. CASE OptionSwitch
  <2>1. Stays(settings, With(settings, Sigs))
    BY ChangesSpare, PrivateThere DEF With, Whole, Spares, Stays
  <2> QED
    BY <1>1, <1>2, <1>3, <1>5, <1>9, <2>1, Zenon DEF OptionSwitch
<1>10. CASE OptionNamed
  BY <1>10 DEF OptionNamed, Stays
<1>11. CASE OptionDatabase
  <2>1. PICK type, size : settings' = [settings EXCEPT !.type = type, !.targetSizeMB = size]
    BY <1>11, Zenon DEF OptionDatabase
  <2> QED
    BY <2>1, PrivateThere DEF Whole, Stays
<1>12. CASE OptionShared
  BY <1>1, <1>5, <1>12, Zenon DEF OptionShared
<1>13. CASE OptionConfigFile
  BY <1>3, <1>13 DEF OptionConfigFile, Stays
<1> QED
  BY <1>6, <1>7, <1>8, <1>9, <1>10, <1>11, <1>12, <1>13 DEF AnyOption

------------------------------------------------------------------------------
(* The stores of a build *)

BuildStores == {DbTypes[i].store : i \in DOMAIN DbTypes}

LEMMA Smallest == ASSUME NEW S, S \subseteq Nat, S # {}
                  PROVE  \E n \in S : \A m \in S : n <= m
<1>1. PICK n \in S : \A m \in S : ~ (<<m, n>> \in OpToRel(<, Nat))
  BY WFMin, NatLessThanWellFounded, Zenon
<1>2. \A m \in S : ~ (m < n)
  BY <1>1 DEF OpToRel
<1> QED
  BY <1>2

LEMMA EntriesThere == /\ DOMAIN DbTypes \subseteq Nat
                      /\ \A i \in DOMAIN DbTypes : DbTypes[i].store \in Plain \cup {"split"}
<1> DEFINE Entries == [prefix : STRING, suffix : STRING, store : Plain \cup {"split"}]
<1>1. \A entry \in Entries : entry.store \in Plain \cup {"split"}
  OBVIOUS
<1> HIDE DEF Entries
<1>2. DbTypes \in Seq(Entries)
  BY TypesAssumption, Zenon DEF Entries
<1>3. DOMAIN DbTypes \subseteq Nat /\ \A i \in DOMAIN DbTypes : DbTypes[i] \in Entries
  BY <1>2
<1> QED
  BY <1>1, <1>3, Zenon

LEMMA FirstEntryFits ==
  ASSUME NEW hits, hits \subseteq DOMAIN DbTypes
  PROVE  IF hits = {} THEN FirstEntry(hits) = NoStore
         ELSE \E i \in hits : FirstEntry(hits) = DbTypes[i].store
<1>1. hits \subseteq Nat
  BY EntriesThere
<1>2. CASE hits # {}
  <2> DEFINE least == CHOOSE i \in hits : \A j \in hits : i <= j
  <2>1. \E i \in hits : \A j \in hits : i <= j
    BY <1>1, <1>2, Smallest
  <2>2. least \in hits
    BY <2>1
  <2>3. FirstEntry(hits) = DbTypes[least].store
    BY <1>2 DEF FirstEntry
  <2> HIDE DEF least
  <2> QED
    BY <1>2, <2>2, <2>3
<1> QED
  BY <1>2 DEF FirstEntry

LEMMA StoreNames == NoStore \notin BuildStores /\ BuildStores \subseteq Plain \cup {"split"}
<1>1. \A i \in DOMAIN DbTypes : DbTypes[i].store \in Plain \cup {"split"}
  BY EntriesThere
<1>2. BuildStores \subseteq Plain \cup {"split"}
  BY <1>1 DEF BuildStores
<1>3. NoStore \notin Plain \cup {"split"}
  BY DEF NoStore, Plain
<1> QED
  BY <1>2, <1>3

LEMMA Defaulted == DefaultStore \in BuildStores
<1> DEFINE hits == {i \in DOMAIN DbTypes : DbTypes[i].prefix = ""}
<1>1. DefaultStore = FirstEntry(hits)
  BY DEF DefaultStore, ForType
<1>2. DefaultStore # NoStore
  BY TypesAssumption DEF NoStore, Plain
<1>3. hits \subseteq DOMAIN DbTypes
  OBVIOUS
<1> HIDE DEF hits
<1>4. \E i \in hits : FirstEntry(hits) = DbTypes[i].store
  BY <1>1, <1>2, <1>3, FirstEntryFits
<1> QED
  BY <1>1, <1>3, <1>4 DEF BuildStores

(* Some store of the build is always found. *)
LEMMA BestFitBuilt == \A type, files : BestFit(type, files) \in BuildStores
<1>1. ASSUME NEW hits, hits \subseteq DOMAIN DbTypes
      PROVE  FirstEntry(hits) \in BuildStores \cup {NoStore}
  BY <1>1, FirstEntryFits DEF BuildStores
<1>2. \A type : ForType(type) \in BuildStores \cup {NoStore}
  <2> TAKE type
  <2> DEFINE hits == {i \in DOMAIN DbTypes : DbTypes[i].prefix = type}
  <2>1. hits \subseteq DOMAIN DbTypes
    OBVIOUS
  <2> QED
    BY <1>1, <2>1 DEF ForType
<1>3. \A files : ExistingFile(files) \in BuildStores \cup {NoStore}
  <2> TAKE files
  <2> DEFINE hits == {i \in DOMAIN DbTypes : DbTypes[i].suffix \in files \ {""}}
  <2>1. hits \subseteq DOMAIN DbTypes
    OBVIOUS
  <2> QED
    BY <1>1, <2>1 DEF ExistingFile
<1> QED
  BY <1>2, <1>3, Defaulted DEF BestFit, Requested, OrElse

(* A plain store has one file, and no other store has that file. *)
LEMMA OwnFile ==
  \A s \in Plain : \E x : /\ PlainFiles(s) = {x} /\ x # ""
                          /\ \A t \in Plain \ {s} : PlainFiles(t) # {x}
<1>1. /\ PlainFiles("hash") = {"hash"} /\ PlainFiles("pbl") = {"pkey"}
      /\ PlainFiles("bdb") = {"bdb"}
  BY SMT DEF PlainFiles
<1>2. /\ {"hash"} # {"pkey"} /\ {"hash"} # {"bdb"} /\ {"pkey"} # {"bdb"}
  OBVIOUS
<1> QED
  BY <1>1, <1>2 DEF Plain

(* With the file of one store there, and no type asked for, it is that one  *)
(* that is opened.                                                           *)
LEMMA BestFitFinds ==
  ASSUME NEW s \in BuildStores \ {"split"}
  PROVE  BestFit("", FilesOf(s)) = s
<1>1. s \in Plain /\ FilesOf(s) = PlainFiles(s)
  BY StoreNames DEF FilesOf
<1>2. PICK x : /\ PlainFiles(s) = {x} /\ x # ""
               /\ \A t \in Plain \ {s} : PlainFiles(t) # {x}
  BY <1>1, OwnFile
<1> DEFINE hits == {i \in DOMAIN DbTypes : DbTypes[i].suffix \in PlainFiles(s) \ {""}}
<1>3. \A i \in hits : DbTypes[i].store = s
  <2> TAKE i \in hits
  <2>1. i \in DOMAIN DbTypes /\ DbTypes[i].suffix = x
    BY <1>2
  <2>2. DbTypes[i].store \in Plain /\ PlainFiles(DbTypes[i].store) = {x}
    BY <1>2, <2>1, TypesAssumption
  <2> QED
    BY <1>2, <2>2
<1>4. hits = {} => s = DefaultStore
  <2> SUFFICES ASSUME s # DefaultStore PROVE hits # {}
    OBVIOUS
  <2>1. PICK k \in DOMAIN DbTypes : DbTypes[k].store = s
    BY DEF BuildStores
  <2>2. PICK j \in DOMAIN DbTypes : DbTypes[j].store = s /\ DbTypes[j].suffix # ""
    BY <1>1, <2>1, TypesAssumption
  <2>3. {DbTypes[j].suffix} = {x}
    BY <1>2, <2>2, TypesAssumption
  <2>4. j \in hits
    BY <1>2, <2>2, <2>3
  <2> QED
    BY <2>4
<1>5. hits \subseteq DOMAIN DbTypes
  OBVIOUS
<1>6. ExistingFile(FilesOf(s)) = FirstEntry(hits)
  BY <1>1 DEF ExistingFile
<1> HIDE DEF hits
<1>7. IF hits = {} THEN FirstEntry(hits) = NoStore ELSE FirstEntry(hits) = s
  BY <1>3, <1>5, FirstEntryFits
<1>8. s # NoStore
  BY StoreNames
<1> QED
  BY <1>4, <1>6, <1>7, <1>8 DEF BestFit, Requested, OrElse

(* The command that only counts. *)
LEMMA CountsCommand ==
  \A c \in Called \cup {NoCommand} :
    c.name = "counts" => c.readOnly = TRUE /\ c.kind = "terms"
<1> DEFINE Counting(c) == c.name = "counts" => c.readOnly = TRUE /\ c.kind = "terms"
<1>1. \A c \in {AutoLearn, AutoTrain, FindGood, FindSpam, Good, LearnTest, Receive,
                Remove, Score, Spam, Summarize, Train, TrainGood, TrainSpam,
                Tokenize, TrainTest} : Counting(c)
  <2>1. \A c \in {Good, TrainGood, Spam, TrainSpam, Receive, Train, Remove} : c.name # "counts"
    BY DEF OnMessages, Good, TrainGood, Spam, TrainSpam, Receive, Train, Remove
  <2>2. \A c \in {FindGood, FindSpam, Summarize, Tokenize, Score} : c.name # "counts"
    BY DEF OnMessages, FindGood, FindSpam, Summarize, Tokenize, Score
  <2>3. \A c \in {AutoTrain, AutoLearn, TrainTest, LearnTest} : c.name # "counts"
    BY DEF OnMessages, AutoTrain, AutoLearn, TrainTest, LearnTest
  <2> QED
    BY <2>1, <2>2, <2>3
<1>2. \A c \in {Cleanup, Purge, PurgeTerms, EditTerm, Import, Exec, CreateDb,
                WriteConfig} : c.name # "counts"
  BY DEF OnTerms, Cleanup, Purge, PurgeTerms, EditTerm, Import, Exec, CreateDb, WriteConfig
<1>3. \A name, changes, counts, checks :
        LET c == OnTerms(name, changes, counts, checks)
        IN /\ c.name = name /\ DOMAIN c = Columns /\ c.kind = "terms"
           /\ Looks(c).name = name /\ Looks(c).kind = "terms" /\ Looks(c).readOnly = TRUE
  BY DEF OnTerms, Looks, Columns
<1>4. \A c \in {Counts, Dump, Export, PrintTerms} : Counting(c)
  <2>1. \A name, changes, counts, checks :
          Counting(Looks(OnTerms(name, changes, counts, checks)))
    <3> TAKE name, changes, counts, checks
    <3> DEFINE c == Looks(OnTerms(name, changes, counts, checks))
    <3>1. c.kind = "terms" /\ c.readOnly = TRUE
      BY <1>3
    <3> HIDE DEF c
    <3>2. Counting(c)
      BY <3>1
    <3> QED
      BY <3>2 DEF c
  <2> HIDE DEF Counting
  <2> QED
    BY <2>1 DEF Counts, Dump, Export, PrintTerms
<1>5. \A c \in {ExecShared, ShowHelp, NoCommand} : c.name # "counts"
  BY DEF OnTerms, Looks, ExecShared, Exec, ShowHelp, NoCommand
<1> HIDE DEF Counting
<1>6. \A c : c.name # "counts" => Counting(c)
  BY DEF Counting
<1>7. \A c \in AllCommands \cup {NoCommand} : Counting(c)
  BY <1>1, <1>2, <1>4, <1>5, <1>6, Zenon DEF AllCommands
<1> QED
  BY <1>7, SessionAssumption DEF Counting

------------------------------------------------------------------------------
(* The file create-config writes names the database of the run *)

NamesDir(st) ==
  NamesDatabase(st) /\ ValidStatement(st) => st.args[1].string \in Dirs
AllNameDirs(list) == \E S : list \in Seq(S) /\ \A st \in S : NamesDir(st)

LEMMA NameDirsBoth ==
  ASSUME NEW a, NEW b, AllNameDirs(a), AllNameDirs(b)
  PROVE  AllNameDirs(a \o b)
<1>1. PICK S : a \in Seq(S) /\ \A st \in S : NamesDir(st)
  BY DEF AllNameDirs
<1>2. PICK T : b \in Seq(T) /\ \A st \in T : NamesDir(st)
  BY DEF AllNameDirs
<1> DEFINE U == S \cup T
<1>0. S \subseteq U /\ T \subseteq U
  OBVIOUS
<1> HIDE DEF U
<1>3. a \in Seq(U) /\ b \in Seq(U)
  BY <1>0, <1>1, <1>2
<1>4. a \o b \in Seq(U)
  BY <1>3
<1>5. \A st \in U : NamesDir(st)
  BY <1>1, <1>2, Zenon DEF U
<1> QED
  BY <1>4, <1>5, Zenon DEF AllNameDirs

LEMMA NameDirsSet ==
  ASSUME NEW S, \A st \in S : NamesDir(st), NEW list \in Seq(S)
  PROVE  AllNameDirs(list)
  BY Zenon DEF AllNameDirs

LEMMA NameDirsNone == AllNameDirs(<<>>)
<1>1. <<>> \in Seq({})
  OBVIOUS
<1> QED
  BY <1>1, NameDirsSet, Zenon

(* Only a statement of the database block names it. *)
LEMMA OthersName ==
  \A name, args, token :
    /\ NamesDir(Statement("parser", name, args))
    /\ NamesDir(Statement("header", name, args))
    /\ NamesDir(InParser(name, token))
    /\ NamesDir(InHeader(name, token))
    /\ NamesDir(InFilter(name, token))
    /\ name # "private_filename" => NamesDir(InDatabase(name, token))
  BY SMT DEF NamesDir, NamesDatabase, Statement, InParser, InHeader, InFilter, InDatabase

LEMMA WrittenName ==
  ASSUME NEW p \in Dirs
  PROVE  NamesDir(InDatabase("private_filename", StringToken(p)))
<1> DEFINE token == StringToken(p)
           st == InDatabase("private_filename", token)
<1>1. /\ st.block = "database" /\ st.name = "private_filename"
      /\ st.args = <<token>> /\ st.args[1] = token
  BY SMT DEF InDatabase, Statement
<1> HIDE DEF st
<1>2. SUFFICES ASSUME ValidStatement(st) PROVE token.string \in Dirs
  BY <1>1 DEF NamesDir, st
<1>3. PICK rule \in Syntax :
        /\ rule.block = "database" /\ "private_filename" \in rule.names
        /\ Len(st.args) = Len(rule.args)
        /\ \A i \in 1..Len(st.args) : ValidArgument(rule.args[i], st.args[i])
  BY <1>1, <1>2, Zenon DEF ValidStatement
<1>4. rule.args = AString
  BY <1>3, SMT DEF Syntax, Rule
<1>5. ValidArgument(rule.args[1], token)
  BY <1>1, <1>3
<1>6. AString[1] = Accepts({"string"}, {})
  BY DEF AString
<1>7. token.type = "string"
  BY <1>4, <1>5, <1>6 DEF ValidArgument, Accepts
<1>8. Unreadable.type = "none"
  BY DEF Unreadable, Token
<1>9. token = Token("string", 0, p)
  BY <1>7, <1>8 DEF StringToken
<1> HIDE DEF token
<1> QED
  BY <1>9 DEF Token

LEMMA WrittenInDirs ==
  ASSUME NEW s, s.private \in Dirs
  PROVE  InDirs(WrittenFile(s))
<1> USE OthersName
<1>1. AllNameDirs(ParserStatements(s))
  <2>1. \A a : NamesDir(a) => AllNameDirs(<<a>>)
    <3> TAKE a
    <3> HAVE NamesDir(a)
    <3>1. <<a>> \in Seq({a})
      OBVIOUS
    <3> QED
      BY <3>1, NameDirsSet
  <2>2. AllNameDirs(<<InParser("replace_non_ascii", BoolToken(s.nonAscii # ""))>>)
    BY <2>1, Zenon
  <2>3. AllNameDirs(IF s.nonAscii = "" THEN <<>> ELSE
                      <<InParser("non_ascii_replacement", StringToken(s.nonAscii))>>)
    BY <2>1, NameDirsNone, Zenon
  <2>4. \A a, b, c, d, e, f, g, h, i, j, k, l :
          /\ NamesDir(a) /\ NamesDir(b) /\ NamesDir(c) /\ NamesDir(d) /\ NamesDir(e)
          /\ NamesDir(f) /\ NamesDir(g) /\ NamesDir(h) /\ NamesDir(i) /\ NamesDir(j)
          /\ NamesDir(k) /\ NamesDir(l)
          => AllNameDirs(<<a, b, c, d, e, f, g, h, i, j, k, l>>)
    <3> TAKE a, b, c, d, e, f, g, h, i, j, k, l
    <3>1. <<a, b, c, d, e, f, g, h, i, j, k, l>> \in Seq({a, b, c, d, e, f, g, h, i, j, k, l})
      OBVIOUS
    <3> QED
      BY <3>1, NameDirsSet
  <2>5. AllNameDirs(
          <<InParser("min_term_length", IntToken(s.minTermLength)),
            InParser("max_term_length", IntToken(s.maxTermLength)),
            InParser("remove_html", BoolToken(s.removeHTML)),
            InParser("min_phrase_terms", IntToken(s.minPhraseTerms)),
            InParser("max_phrase_terms", IntToken(s.maxPhraseTerms)),
            InParser("max_phrase_chars", IntToken(s.maxPhraseChars)),
            InParser("min_phrase_chars", IntToken(s.minPhraseChars)),
            InParser("max_message_terms", IntToken(s.maxTermsPerMessage)),
            InParser("spamprobe_field_name", StringToken(s.fieldName)),
            InParser("keep_suspicious_tags", BoolToken(s.keepSuspiciousTags)),
            InParser("ignore_body", BoolToken(s.ignoreBody)),
            Statement("parser", "header", <<>>)>>)
    BY <2>4, Zenon
  <2> QED
    BY <2>2, <2>3, <2>5, NameDirsBoth, Zenon DEF ParserStatements
<1>2. AllNameDirs(HeaderStatements(s.headers))
  <2> DEFINE h == s.headers
             names == PrintedNames(h)
             prefix(n) == <<StringToken(n), StringToken(h.values[n][1]),
                            StringToken(h.values[n][2])>>
             lines == [i \in 1..Len(names) |->
                         Statement("header", "full_prefix", prefix(names[i]))]
  <2>1. \A a, b, c, d : NamesDir(a) /\ NamesDir(b) /\ NamesDir(c) /\ NamesDir(d)
                        => AllNameDirs(<<a, b, c, d>>)
    <3> TAKE a, b, c, d
    <3>1. <<a, b, c, d>> \in Seq({a, b, c, d})
      OBVIOUS
    <3> QED
      BY <3>1, NameDirsSet
  <2>2. AllNameDirs(
          <<InHeader("blank_prefixes_mode", BoolToken(h.blank)),
            InHeader("ignore_x_headers_mode", BoolToken(h.all /\ h.noX)),
            InHeader("all_headers_mode", BoolToken(h.all)),
            InHeader("no_headers_mode", BoolToken(~h.all /\ DOMAIN h.values = {}))>>)
    BY <2>1, Zenon
  <2>3. AllNameDirs(lines)
    <3> DEFINE T == {Statement("header", "full_prefix", prefix(names[i])) :
                       i \in 1..Len(names)}
    <3>1. Len(names) \in Nat
      OBVIOUS
    <3>3. lines \in [1..Len(names) -> T]
      BY Zenon
    <3>4. lines \in Seq(T)
      BY <3>1, <3>3
    <3>5. \A st \in T : NamesDir(st)
      BY Zenon
    <3> QED
      BY <3>4, <3>5, NameDirsSet
  <2> HIDE DEF lines
  <2> QED
    BY <2>2, <2>3, NameDirsBoth, Zenon DEF HeaderStatements, lines
<1>3. AllNameDirs(FilterStatements(s))
  <2>1. \A a, b, c, d, e, f, g, h, i, j, k :
          /\ NamesDir(a) /\ NamesDir(b) /\ NamesDir(c) /\ NamesDir(d) /\ NamesDir(e)
          /\ NamesDir(f) /\ NamesDir(g) /\ NamesDir(h) /\ NamesDir(i) /\ NamesDir(j)
          /\ NamesDir(k)
          => AllNameDirs(<<a, b, c, d, e, f, g, h, i, j, k>>)
    <3> TAKE a, b, c, d, e, f, g, h, i, j, k
    <3>1. <<a, b, c, d, e, f, g, h, i, j, k>> \in Seq({a, b, c, d, e, f, g, h, i, j, k})
      OBVIOUS
    <3> QED
      BY <3>1, NameDirsSet
  <2> QED
    BY <2>1, Zenon DEF FilterStatements
<1>4. AllNameDirs(DatabaseStatements(s))
  <2>1. \A a, b, c, d, e :
          NamesDir(a) /\ NamesDir(b) /\ NamesDir(c) /\ NamesDir(d) /\ NamesDir(e)
          => AllNameDirs(<<a, b, c, d, e>>)
    <3> TAKE a, b, c, d, e
    <3>1. <<a, b, c, d, e>> \in Seq({a, b, c, d, e})
      OBVIOUS
    <3> QED
      BY <3>1, NameDirsSet
  <2>2. NamesDir(InDatabase("private_filename", StringToken(s.private)))
    BY WrittenName
  <2>3. \A token : /\ NamesDir(InDatabase("type", token))
                   /\ NamesDir(InDatabase("shared_filename", token))
                   /\ NamesDir(InDatabase("target_size_mb", token))
                   /\ NamesDir(InDatabase("max_cache_terms", token))
    BY SMT
  <2> QED
    BY <2>1, <2>2, <2>3, Zenon DEF DatabaseStatements
<1>5. AllNameDirs(WrittenFile(s).statements)
  <2> DEFINE whole == PrintsHeaders(s.headers)
             front == ParserStatements(s) \o HeaderStatements(s.headers)
             rest == IF whole THEN FilterStatements(s) \o DatabaseStatements(s)
                              ELSE <<>>
  <2>1. AllNameDirs(front)
    BY <1>1, <1>2, NameDirsBoth, Zenon
  <2>2. AllNameDirs(FilterStatements(s) \o DatabaseStatements(s))
    BY <1>3, <1>4, NameDirsBoth, Zenon
  <2>3. AllNameDirs(rest)
    BY <2>2, NameDirsNone, Zenon
  <2>4. WrittenFile(s).statements = front \o rest
    BY Zenon DEF WrittenFile
  <2> HIDE DEF front, rest
  <2> QED
    BY <2>1, <2>3, <2>4, NameDirsBoth, Zenon
<1> HIDE DEF WrittenFile
<1> DEFINE list == WrittenFile(s).statements
<1>6. \A i \in DOMAIN list : NamesDir(list[i])
  <2>1. PICK S : list \in Seq(S) /\ \A st \in S : NamesDir(st)
    BY <1>5 DEF AllNameDirs
  <2>2. \A i \in DOMAIN list : list[i] \in S
    BY <2>1
  <2> QED
    BY <2>1, <2>2
<1> QED
  BY <1>6, Zenon DEF InDirs, Readable, NamesDir

------------------------------------------------------------------------------
(* The database is found again *)

(* The files of every directory are those of the stores that were opened    *)
(* there for writing, and its configuration file names a known directory.   *)
Stored ==
  /\ DOMAIN disk.configs = Dirs /\ DOMAIN history.stores = Dirs
  /\ \A d \in Dirs :
       /\ InDirs(disk.configs[d])
       /\ history.stores[d] \subseteq BuildStores
       /\ disk.files[d] = UNION {FilesOf(s) : s \in history.stores[d]}
       /\ history.stores[d] # {} => d \in disk.dirs
(* Whatever names a directory names a known one. *)
Named == /\ settings.private \in Dirs /\ run.basedir \in Dirs
         /\ run.pc = "loading" => run.load.dir \in Dirs

FoundInv == QuietInv /\ Whole(settings) /\ DOMAIN run.load = LoadFields
            /\ Stored /\ Named

(* What most steps leave alone. *)
DiskKept == /\ disk'.configs = disk.configs /\ disk'.files = disk.files
            /\ disk'.dirs = disk.dirs /\ history'.stores = history.stores

LEMMA KeptStored == ASSUME Stored, DiskKept PROVE Stored'
  BY DEF Stored, DiskKept, InDirs

(* What every option leaves alone, and the directory it may name. *)
OptionKept == /\ history'.stores = history.stores
              /\ \/ run'.pc = run.pc /\ run'.basedir = run.basedir
                 \/ run'.basedir \in Dirs /\ run'.load.dir \in Dirs

LEMMA OptionKeeps ==
  ASSUME QuietInv, AnyOption
  PROVE  OptionKept
<1>1. DOMAIN run = RunFields /\ DOMAIN history = HistoryFields
  BY DEF QuietInv, Shapes
<1>2. ASSUME NEW s, NEW given, Sets(s, given) PROVE OptionKept
  BY <1>1, <1>2 DEF Sets, HistoryFields, OptionKept
<1>3. ASSUME NEW r, Notes(r), r.pc = run.pc, r.basedir = run.basedir PROVE OptionKept
  BY <1>1, <1>3 DEF Notes, HistoryFields, OptionKept
<1>4. ASSUME UsageError PROVE OptionKept
  <2>1. /\ [run EXCEPT !.usageError = TRUE].pc = run.pc
        /\ [run EXCEPT !.usageError = TRUE].basedir = run.basedir
    BY <1>1 DEF RunFields
  <2> QED
    BY <1>3, <1>4, <2>1 DEF UsageError
<1>5. ASSUME NEW n, NEW low, NEW high, NEW s, NEW given,
             Numbered(n, low, high, s, given)
      PROVE  OptionKept
  BY <1>2, <1>4, <1>5 DEF Numbered
<1>6. CASE OptionNumber
  <2>1. PICK n, low, high, s, given : Numbered(n, low, high, s, given)
    BY <1>6 DEF OptionNumber
  <2> QED
    BY <1>5, <2>1, Zenon
<1>7. CASE OptionThreshold
  BY <1>5, <1>7, Zenon DEF OptionThreshold
<1>8. CASE OptionText
  BY <1>2, <1>8, Zenon DEF OptionText
<1>9. CASE OptionSwitch
  <2>1. ASSUME Notes([run EXCEPT !.forceMbox = TRUE]) PROVE OptionKept
    BY <1>1, <1>3, <2>1 DEF RunFields
  <2>2. ASSUME Notes([run EXCEPT !.single = TRUE]) PROVE OptionKept
    BY <1>1, <1>3, <2>2 DEF RunFields
  <2>3. ASSUME Notes([run EXCEPT !.single = TRUE, !.status = TRUE]) PROVE OptionKept
    BY <1>1, <1>3, <2>3 DEF RunFields
  <2>4. ASSUME Notes([run EXCEPT !.version = TRUE]) PROVE OptionKept
    BY <1>1, <1>3, <2>4 DEF RunFields
  <2> QED
    BY <1>2, <1>4, <1>9, <2>1, <2>2, <2>3, <2>4, Zenon DEF OptionSwitch
<1>10. CASE OptionNamed
  BY <1>1, <1>10 DEF OptionNamed, RunFields, HistoryFields, OptionKept
<1>11. CASE OptionDatabase
  <2>1. PICK arg \in TypedDirs :
          /\ run' = [run EXCEPT !.pc = "loading", !.basedir = arg.dir,
                       !.load = [NoLoad EXCEPT !.dir = arg.dir,
                                               !.setsPrivate = TRUE]]
          /\ history' = [history EXCEPT !.options = @ + 1,
                           !.given = ("type" :> arg.type) @@ @]
    BY <1>11, Zenon DEF OptionDatabase
  <2>2. arg.dir \in Dirs
    BY DirsAssumption
  <2>3. run'.basedir = arg.dir /\ run'.load.dir = arg.dir
    BY <1>1, <2>1 DEF RunFields, NoLoad
  <2>4. history'.stores = history.stores
    BY <1>1, <2>1 DEF HistoryFields
  <2> QED
    BY <2>2, <2>3, <2>4 DEF OptionKept
<1>12. CASE OptionShared
  BY <1>2, <1>12, Zenon DEF OptionShared
<1>13. CASE OptionConfigFile
  <2>1. CASE UsageError
    BY <1>4, <2>1
  <2>2. CASE ~UsageError
    <3>1. PICK dir \in Dirs :
            /\ run' = [run EXCEPT !.pc = "loading", !.basedir = dir,
                                  !.load = [NoLoad EXCEPT !.dir = dir]]
            /\ history' = [history EXCEPT !.options = @ + 1]
      BY <1>13, <2>2, Zenon DEF OptionConfigFile
    <3>2. run'.basedir = dir /\ run'.load.dir = dir
      BY <1>1, <3>1 DEF RunFields, NoLoad
    <3>3. history'.stores = history.stores
      BY <1>1, <3>1 DEF HistoryFields
    <3> QED
      BY <3>2, <3>3 DEF OptionKept
  <2> QED
    BY <2>1, <2>2
<1> QED
  BY <1>6, <1>7, <1>8, <1>9, <1>10, <1>11, <1>12, <1>13 DEF AnyOption

(* The parts of what an attempt to open the database leaves. *)
Leaves(o, dir, readOnly, create) ==
  /\ o.store = BestFit(settings.type, disk.files[dir])
  /\ o.disk.configs = disk.configs
  /\ o.disk.dirs = IF create THEN disk.dirs \cup {dir} ELSE disk.dirs
  /\ o.disk.files =
       [disk.files EXCEPT ![dir] =
          IF o.works THEN Opened(o.store, disk.files[dir], readOnly)
                     ELSE disk.files[dir]]
  /\ o.works => /\ dir \in o.disk.dirs
                /\ CanOpen(o.store, disk.files[dir], readOnly)

LEMMA OpeningParts ==
  ASSUME Sound(disk), settings.private \in Dirs, NEW readOnly, NEW create
  PROVE  Leaves(Opening(readOnly, create), settings.private, readOnly, create)
<1> DEFINE dir == settings.private
           store == BestFit(settings.type, disk.files[dir])
           dirs == IF create THEN disk.dirs \cup {dir} ELSE disk.dirs
           o == Opening(readOnly, create)
           shared == settings.shared
           sharedOK == shared = "" \/ CanOpen(BestFit("", disk.files[shared]),
                                              disk.files[shared], TRUE)
           works == dir \in dirs /\ sharedOK
                    /\ CanOpen(store, disk.files[dir], readOnly)
           file == IF works THEN Opened(store, disk.files[dir], readOnly)
                            ELSE disk.files[dir]
<1>1. /\ o.works = works /\ o.store = store
      /\ o.disk = [disk EXCEPT !.dirs = dirs, !.files[dir] = file]
  BY SMT DEF Opening
<1> HIDE DEF o, store, dirs, works, file
<1>2. /\ o.disk.configs = disk.configs /\ o.disk.dirs = dirs
      /\ o.disk.files = [disk.files EXCEPT ![dir] = file]
  BY <1>1 DEF Sound
<1>3. works => dir \in dirs /\ CanOpen(store, disk.files[dir], readOnly)
  BY DEF works
<1> QED
  BY <1>1, <1>2, <1>3, Zenon DEF o, store, dirs, file, Leaves

(* The steps that make no database and write no configuration. *)
LEMMA MostKeepDisk ==
  ASSUME QuietInv, [Next]_vars, ~CreateConfig, ~OpenDatabase
  PROVE  DiskKept
<1>0. DOMAIN history = HistoryFields /\ Sound(disk)
  BY DEF QuietInv, Shapes
<1>1. CASE AnyOption
  <2>1. OptionEffect /\ OptionKept
    BY <1>1, OptionStep, OptionKeeps
  <2> QED
    BY <2>1 DEF OptionEffect, OptionKept, DiskKept
<1>2. CASE Start
  BY <1>0, <1>2 DEF Start, DiskKept, HistoryFields, Sound
<1>3. CASE EndLoad
  BY <1>0, <1>3 DEF EndLoad, DiskKept, HistoryFields
<1>4. CASE ShowUsage
  <2>1. disk' = disk /\ history' = history
    BY <1>0, <1>4, QuietOpening DEF ShowUsage
  <2> QED
    BY <2>1 DEF DiskKept
<1>5. /\ Changed(disk).configs = disk.configs /\ Changed(disk).files = disk.files
      /\ Changed(disk).dirs = disk.dirs
  BY <1>0 DEF Changed, Sound
<1>6. CASE TermsCommand \/ ProcessMessage \/ FinishFile
  <2>1. disk' = disk \/ disk' = Changed(disk)
    BY <1>6 DEF TermsCommand, ProcessMessage, FinishFile
  <2>2. history'.stores = history.stores
    BY <1>0, <1>6 DEF TermsCommand, ProcessMessage, FinishFile, HistoryFields
  <2> QED
    BY <1>5, <2>1, <2>2, Zenon DEF DiskKept
<1>7. CASE UNCHANGED <<disk, history>>
  BY <1>7 DEF DiskKept
<1>8. CASE UNCHANGED vars
  BY <1>8 DEF DiskKept, vars
<1> QED
  BY <1>1, <1>2, <1>3, <1>4, <1>6, <1>7, <1>8, Zenon
     DEF Next, AnyOption, RejectConfig, ApplyStatement, FindCommand, SingleMessage,
         ApplyTestCase, ApplyExtendedOption, EndOfNames, Help, StartFile,
         NothingToBalance, SkipMessage, BadLine, Interrupted, EndCommand, Again,
         Stop, vars

LEMMA StoredStep ==
  ASSUME FoundInv, [Next]_vars
  PROVE  Stored'
<1>0. /\ DOMAIN history = HistoryFields /\ Sound(disk) /\ QuietInv
      /\ Stored /\ settings.private \in Dirs
  BY DEF FoundInv, QuietInv, Shapes, Named
<1>1. CASE ~CreateConfig /\ ~OpenDatabase
  BY <1>0, <1>1, MostKeepDisk, KeptStored
<1>2. CASE CreateConfig
  <2>1. history'.stores = history.stores
    BY <1>0, <1>2 DEF CreateConfig, HistoryFields
  <2>2. \/ disk' = disk
        \/ \E dir : disk' = [disk EXCEPT !.configs[dir] = WrittenFile(settings)]
    BY <1>2, Zenon DEF CreateConfig
  <2> DEFINE file == WrittenFile(settings)
  <2>3. InDirs(file)
    BY <1>0, WrittenInDirs
  <2> HIDE DEF file
  <2>4. ASSUME NEW dir, disk' = [disk EXCEPT !.configs[dir] = file]
        PROVE  Stored'
    <3>1. /\ disk'.files = disk.files /\ disk'.dirs = disk.dirs
          /\ disk'.configs = [disk.configs EXCEPT ![dir] = file]
      BY <1>0, <2>4 DEF Sound
    <3>2. /\ DOMAIN disk'.configs = Dirs
          /\ \A d \in Dirs : InDirs(disk'.configs[d])
      <4>1. \A d \in Dirs : disk'.configs[d] \in {disk.configs[d], file}
        BY <1>0, <3>1 DEF Stored
      <4>2. DOMAIN disk'.configs = Dirs
        BY <1>0, <3>1 DEF Stored
      <4> QED
        BY <1>0, <2>3, <4>1, <4>2 DEF Stored
    <3>3. \A f : InDirs(f)' <=> InDirs(f)
      BY DEF InDirs
    <3> QED
      BY <1>0, <2>1, <3>1, <3>2, Zenon DEF Stored
  <2> QED
    BY <1>0, <2>1, <2>2, <2>4, KeptStored DEF file, DiskKept
<1>3. CASE OpenDatabase
  <2> DEFINE readOnly == run.command.readOnly
             create == \/ run.command.kind = "create-db"
                       \/ settings.createDbDir /\ ~readOnly
             o == Opening(readOnly, create)
             dir == settings.private
             store == o.store
             works == o.works
             more == IF readOnly THEN history.stores[dir]
                                 ELSE history.stores[dir] \cup {store}
             file == IF works THEN Opened(store, disk.files[dir], readOnly)
                              ELSE disk.files[dir]
  <2>1. /\ disk' = o.disk
        /\ IF works THEN history' = [history EXCEPT !.stores[dir] = more]
                    ELSE history' = history
    BY <1>3, Zenon DEF OpenDatabase
  <2>2. /\ store \in BuildStores
        /\ o.disk.configs = disk.configs
        /\ disk.dirs \subseteq o.disk.dirs
        /\ o.disk.files = [disk.files EXCEPT ![dir] = file]
        /\ works => dir \in o.disk.dirs
    <3> HIDE DEF create
    <3>1. Leaves(o, dir, readOnly, create)
      BY <1>0, OpeningParts
    <3> HIDE DEF o
    <3> QED
      BY <3>1, BestFitBuilt DEF Leaves
  <2>3. file = IF works /\ ~readOnly THEN disk.files[dir] \cup FilesOf(store)
                                     ELSE disk.files[dir]
    BY DEF Opened
  <2> HIDE DEF o, store, works, create, file
  <2>4. DOMAIN disk.files = Dirs
    BY <1>0 DEF Sound
  <2>5. CASE ~works
    <3>1. /\ disk'.configs = disk.configs /\ disk.dirs \subseteq disk'.dirs
          /\ history'.stores = history.stores
          /\ disk'.files = [disk.files EXCEPT ![dir] = disk.files[dir]]
      BY <2>1, <2>2, <2>3, <2>5
    <3>2. \A d \in Dirs : disk'.files[d] = disk.files[d]
      BY <2>4, <3>1
    <3> QED
      BY <1>0, <3>1, <3>2 DEF Stored, InDirs
  <2>6. CASE works
    <3>1. /\ disk'.configs = disk.configs /\ disk.dirs \subseteq disk'.dirs
          /\ dir \in disk'.dirs
          /\ disk'.files = [disk.files EXCEPT ![dir] = file]
      BY <2>1, <2>2, <2>6
    <3>2. history'.stores = [history.stores EXCEPT ![dir] = more]
      BY <1>0, <2>1, <2>6 DEF HistoryFields
    <3>3. file = UNION {FilesOf(s) : s \in more}
      <4>1. disk.files[dir] = UNION {FilesOf(s) : s \in history.stores[dir]}
        BY <1>0 DEF Stored
      <4>2. CASE readOnly
        BY <2>3, <4>1, <4>2
      <4>3. CASE ~readOnly
        <5>1. file = disk.files[dir] \cup FilesOf(store)
          BY <2>3, <2>6, <4>3
        <5>2. more = history.stores[dir] \cup {store}
          BY <4>3
        <5> HIDE DEF more
        <5> QED
          BY <4>1, <5>1, <5>2
      <4> QED
        BY <4>2, <4>3
    <3>4. more \subseteq BuildStores
      BY <1>0, <2>2 DEF Stored
    <3> HIDE DEF more
    <3>5. ASSUME NEW d \in Dirs
          PROVE  /\ InDirs(disk'.configs[d])
                 /\ history'.stores[d] \subseteq BuildStores
                 /\ disk'.files[d] = UNION {FilesOf(s) : s \in history'.stores[d]}
                 /\ history'.stores[d] # {} => d \in disk'.dirs
      <4>0. /\ DOMAIN history.stores = Dirs /\ InDirs(disk.configs[d])
            /\ history.stores[d] \subseteq BuildStores
            /\ disk.files[d] = UNION {FilesOf(s) : s \in history.stores[d]}
            /\ history.stores[d] # {} => d \in disk.dirs
        BY <1>0 DEF Stored
      <4>1. CASE d = dir
        <5>1. disk'.files[d] = file /\ history'.stores[d] = more
          BY <2>4, <3>1, <3>2, <4>0, <4>1
        <5> QED
          BY <3>1, <3>3, <3>4, <4>0, <4>1, <5>1
      <4>2. CASE d # dir
        <5>1. disk'.files[d] = disk.files[d] /\ history'.stores[d] = history.stores[d]
          BY <2>4, <3>1, <3>2, <4>0, <4>2
        <5> QED
          BY <3>1, <4>0, <5>1
      <4> QED
        BY <4>1, <4>2
    <3>6. DOMAIN disk'.configs = Dirs /\ DOMAIN history'.stores = Dirs
      BY <1>0, <3>1, <3>2 DEF Stored
    <3> QED
      BY <3>5, <3>6, Zenon DEF Stored
  <2> QED
    BY <2>5, <2>6
<1> QED
  BY <1>1, <1>2, <1>3

LEMMA NamedStep ==
  ASSUME FoundInv, [Next]_vars
  PROVE  Named'
<1>0. /\ DOMAIN run = RunFields /\ QuietInv /\ Whole(settings) /\ Stored
      /\ DOMAIN run.load = LoadFields
      /\ settings.private \in Dirs /\ run.basedir \in Dirs
      /\ run.pc = "loading" => run.load.dir \in Dirs
  BY DEF FoundInv, QuietInv, Shapes, Named
<1>1. CASE AnyOption
  <2>1. /\ settings'.private = settings.private /\ OptionKept
        /\ run.pc = "options"
    BY <1>0, <1>1, StaysOption, OptionKeeps, OptionStep DEF Stays, OptionEffect
  <2> QED
    BY <1>0, <2>1 DEF OptionKept, Named
<1>2. CASE Start
  <2>1. /\ settings'.private = "home" /\ run'.basedir = "home" /\ run'.load.dir = "home"
    BY <1>2, PrivateAtFirst DEF Start, NewRun, NoLoad
  <2> QED
    BY <2>1, DirsAssumption DEF Named
<1>3. CASE ApplyStatement
  <2> DEFINE i == run.load.at + 1
             st == LoadedFile.statements[i]
  <2>1. /\ run.pc = "loading" /\ Readable(LoadedFile)
        /\ i \in DOMAIN LoadedFile.statements
        /\ settings' = Loaded(st, settings, run.load.reset).settings
    BY <1>3, Zenon DEF ApplyStatement
  <2>2. ValidStatement(st) /\ InDirs(LoadedFile)
    BY <1>0, <2>1, Zenon DEF Readable, Stored, LoadedFile
  <2>3. NamesDatabase(st) => st.args[1].string \in Dirs
    BY <2>1, <2>2, Zenon DEF InDirs
  <2> HIDE DEF st
  <2>4. settings'.private \in Dirs
    BY <1>0, <2>1, <2>2, <2>3, StaysLoaded
  <2>5. run'.basedir = run.basedir /\ run'.load.dir = run.load.dir
    BY <1>0, <1>3 DEF ApplyStatement, RunFields, LoadFields
  <2> QED
    BY <1>0, <2>1, <2>4, <2>5 DEF Named
<1>4. CASE EndLoad
  <2>1. /\ run'.basedir = run.basedir /\ run'.pc = "options"
        /\ settings' = [settings EXCEPT !.private = IF run.load.setsPrivate
                                                   THEN run.basedir ELSE @]
    BY <1>0, <1>4 DEF EndLoad, RunFields
  <2>2. settings'.private \in {settings.private, run.basedir}
    BY <1>0, <2>1, PrivateThere DEF Whole
  <2> QED
    BY <1>0, <2>1, <2>2 DEF Named
<1>5. ASSUME settings'.private = settings.private, run'.basedir \in {run.basedir, "home"},
             run'.pc # "loading"
      PROVE  Named'
  BY <1>0, <1>5, DirsAssumption DEF Named
<1>6. CASE FindCommand
  <2>1. settings' = settings \/ settings' = [settings EXCEPT !.messagesPerPurge = 0]
    BY <1>6 DEF FindCommand
  <2>2. settings'.private = settings.private
    BY <1>0, <2>1, PrivateThere DEF Whole
  <2>3. run'.basedir = run.basedir /\ run'.pc = "found"
    BY <1>0, <1>6 DEF FindCommand, RunFields
  <2> QED
    BY <1>5, <2>2, <2>3
<1>7. CASE SingleMessage
  <2>1. \/ settings' = settings
        \/ settings' = [settings EXCEPT !.ignoreFrom = TRUE,
                                        !.ignoreContentLength = TRUE]
    BY <1>7 DEF SingleMessage
  <2>2. settings'.private = settings.private
    BY <1>0, <2>1, PrivateThere DEF Whole
  <2>3. run'.basedir = run.basedir /\ run'.pc = "cases"
    BY <1>0, <1>7 DEF SingleMessage, RunFields
  <2> QED
    BY <1>5, <2>2, <2>3
<1>8. CASE ApplyTestCase
  <2>1. \/ settings' = settings
        \/ \E t : settings' = TestCase(t, settings)
    BY <1>8, Zenon DEF ApplyTestCase
  <2>2. settings'.private = settings.private
    BY <1>0, <2>1, StaysTestCase
  <2>3. run'.basedir = run.basedir /\ run'.pc = "cases"
    BY <1>0, <1>8 DEF ApplyTestCase, RunFields
  <2> QED
    BY <1>5, <2>2, <2>3
<1>9. CASE ApplyExtendedOption
  <2>1. \/ settings' = settings
        \/ \E o \in ExtendedOptions : settings' = ExtendedOption(o, settings)
    BY <1>9, Zenon DEF ApplyExtendedOption
  <2>2. settings'.private = settings.private
    BY <1>0, <2>1, StaysExtendedOption
  <2>3. run'.basedir = run.basedir /\ run'.pc = "extras"
    BY <1>0, <1>9 DEF ApplyExtendedOption, RunFields
  <2> QED
    BY <1>5, <2>2, <2>3
<1>10. ASSUME NEW code, Exit(code), settings' = settings PROVE Named'
  <2>1. run'.basedir = run.basedir /\ run'.pc = "done"
    BY <1>0, <1>10 DEF Exit, RunFields
  <2> QED
    BY <1>5, <1>10, <2>1
<1>11. CASE RejectConfig \/ ShowUsage \/ CreateConfig \/ Help \/ TermsCommand
            \/ NothingToBalance \/ BadLine \/ Interrupted \/ EndCommand
  BY <1>10, <1>11, Zenon DEF RejectConfig, ShowUsage, CreateConfig, Help, TermsCommand,
                             NothingToBalance, BadLine, Interrupted, EndCommand
<1>12. CASE EndOfNames
  <2>1. settings' = settings /\ run'.basedir = run.basedir
        /\ run'.pc \in {"done", "extras", "execute"}
    BY <1>0, <1>12 DEF EndOfNames, Exit, RunFields
  <2> QED
    BY <1>5, <2>1
<1>13. CASE OpenDatabase
  <2>1. settings' = settings /\ run'.basedir = run.basedir
        /\ run'.pc \in {"done", "work"}
    BY <1>0, <1>13 DEF OpenDatabase, Exit, RunFields
  <2> QED
    BY <1>5, <2>1
<1>14. CASE StartFile \/ SkipMessage \/ ProcessMessage \/ FinishFile
  <2>1. settings' = settings /\ run' = run
    BY <1>14 DEF StartFile, SkipMessage, ProcessMessage, FinishFile
  <2> QED
    BY <1>0, <2>1 DEF Named
<1>15. CASE Again
  <2>1. settings' = settings /\ run'.basedir = "home" /\ run'.pc = "start"
    BY <1>15 DEF Again, NewRun
  <2> QED
    BY <1>5, <2>1
<1>16. CASE UNCHANGED vars \/ Stop
  BY <1>0, <1>16 DEF vars, Stop, Named
<1> QED
  BY <1>1, <1>2, <1>3, <1>4, <1>6, <1>7, <1>8, <1>9, <1>11, <1>12, <1>13, <1>14,
     <1>15, <1>16, Zenon DEF Next, AnyOption

LEMMA FoundInit == Init => FoundInv
<1> SUFFICES ASSUME Init PROVE FoundInv
  OBVIOUS
<1>1. run = NewRun("start") /\ settings = InitialSettings
  BY DEF Init
<1>2. DOMAIN run.load = LoadFields /\ run.basedir = "home" /\ run.pc = "start"
  BY <1>1 DEF NewRun, NoLoad, LoadFields
<1>3. Named
  BY <1>1, <1>2, PrivateAtFirst, DirsAssumption DEF Named
<1>4. PICK there \in StartDirs, first \in StartConfigs :
        disk = [dirs |-> there, files |-> [d \in Dirs |-> {}],
                touched |-> {},
                configs |-> [d \in Dirs |-> IF d = "home" /\ d \in there THEN first
                                                                        ELSE NoFile]]
  BY Zenon DEF Init
<1>5. history.stores = [d \in Dirs |-> {}]
  BY DEF Init
<1>6. \A d \in Dirs : disk.configs[d] \in StartConfigs \cup {NoFile}
  BY <1>4
<1>7. \A d \in Dirs : InDirs(disk.configs[d])
  BY <1>6, DirsAssumption
<1>8. \A d \in Dirs : disk.files[d] = {} /\ history.stores[d] = {}
  BY <1>4, <1>5
<1>9. DOMAIN disk.configs = Dirs /\ DOMAIN history.stores = Dirs
  BY <1>4, <1>5
<1>10. Stored
  BY <1>7, <1>8, <1>9 DEF Stored
<1> QED
  BY <1>1, <1>2, <1>3, <1>10, QuietInit, WholeInitially DEF FoundInv

LEMMA OneStore ==
  ASSUME NEW stores, stores \subseteq BuildStores, Cardinality(stores) = 1
  PROVE  \E s \in BuildStores : stores = {s}
<1>1. IsFiniteSet({"hash", "pbl", "bdb", "split"})
  <2>1. IsFiniteSet({"hash"}) /\ IsFiniteSet({"pbl"}) /\ IsFiniteSet({"bdb"})
        /\ IsFiniteSet({"split"})
    BY FS_Singleton
  <2>2. IsFiniteSet({"hash"} \cup {"pbl"}) /\ IsFiniteSet({"bdb"} \cup {"split"})
    BY <2>1, FS_Union
  <2>3. IsFiniteSet(({"hash"} \cup {"pbl"}) \cup ({"bdb"} \cup {"split"}))
    BY <2>2, FS_Union
  <2>4. {"hash", "pbl", "bdb", "split"} = ({"hash"} \cup {"pbl"}) \cup ({"bdb"} \cup {"split"})
    OBVIOUS
  <2> QED
    BY <2>3, <2>4
<1>2. stores \in SUBSET {"hash", "pbl", "bdb", "split"}
  BY StoreNames DEF Plain
<1>3. IsFiniteSet(stores)
  BY <1>1, <1>2, FS_Subset
<1>4. PICK s : stores = {s}
  BY <1>3, FS_Singleton
<1> QED
  BY <1>4

LEMMA FoundStep ==
  ASSUME FoundInv, [Next]_vars
  PROVE  [FoundAgain]_vars
<1> SUFFICES ASSUME Next, run.pc = "execute", settings.type = "",
                    Cardinality(history.stores[settings.private]) = 1,
                    "split" \notin history.stores[settings.private]
             PROVE  /\ run'.pc = "work" => run'.store \in history.stores[settings.private]
                    /\ run.command.name = "counts" /\ settings.shared = "" =>
                         run'.pc = "work"
  BY DEF FoundAgain
<1> DEFINE dir == settings.private
           readOnly == run.command.readOnly
           create == \/ run.command.kind = "create-db"
                     \/ settings.createDbDir /\ ~readOnly
           o == Opening(readOnly, create)
<1>0. /\ DOMAIN run = RunFields /\ Sound(disk) /\ dir \in Dirs
      /\ run.command \in Called \cup {NoCommand}
      /\ history.stores[dir] \subseteq BuildStores
      /\ disk.files[dir] = UNION {FilesOf(s) : s \in history.stores[dir]}
      /\ history.stores[dir] # {} => dir \in disk.dirs
  BY DEF FoundInv, QuietInv, Shapes, Asked, Stored, Named
<1>1. PICK s \in BuildStores : history.stores[dir] = {s}
  BY <1>0, OneStore
<1>2. disk.files[dir] = FilesOf(s) /\ dir \in disk.dirs /\ s # "split"
  BY <1>0, <1>1
<1>3. BestFit(settings.type, disk.files[dir]) = s
  BY <1>1, <1>2, BestFitFinds
<1>4. o.store = s
  <2> HIDE DEF create
  <2>1. Leaves(o, dir, readOnly, create)
    BY <1>0, OpeningParts
  <2> QED
    BY <1>3, <2>1 DEF Leaves
<1>5. CreateConfig \/ Help \/ OpenDatabase
  <2>1. ~AnyOption
    BY OptionStep DEF FoundInv, OptionEffect
  <2>2. ~Start /\ ~RejectConfig /\ ~ApplyStatement /\ ~EndLoad /\ ~FindCommand
    BY DEF Start, RejectConfig, ApplyStatement, EndLoad, LoadIsOver, FindCommand
  <2>3. ~ShowUsage /\ ~SingleMessage /\ ~ApplyTestCase /\ ~ApplyExtendedOption
        /\ ~EndOfNames /\ ~Again /\ ~Stop
    BY DEF ShowUsage, SingleMessage, ApplyTestCase, ApplyExtendedOption, EndOfNames,
           Again, Stop
  <2>4. ~TermsCommand /\ ~EndCommand /\ ~StartFile /\ ~NothingToBalance /\ ~SkipMessage
        /\ ~ProcessMessage /\ ~FinishFile /\ ~BadLine /\ ~Interrupted
    BY DEF TermsCommand, EndCommand, StartFile, NothingToBalance, SkipMessage,
           ProcessMessage, FinishFile, BadLine, Interrupted, Reading
  <2> QED
    BY <2>1, <2>2, <2>3, <2>4, Zenon DEF Next, AnyOption
<1>6. CASE CreateConfig \/ Help
  <2>1. run'.pc = "done"
    BY <1>0, <1>6, Zenon DEF CreateConfig, Help, Exit, RunFields
  <2>2. run.command.kind \in {"create-config", "help"}
    BY <1>6 DEF CreateConfig, Help
  <2>3. run.command.name # "counts"
    BY <1>0, <2>2, CountsCommand
  <2> QED
    BY <2>1, <2>3
<1>7. CASE OpenDatabase
  <2>1. IF o.works THEN run' = [run EXCEPT !.pc = "work", !.store = o.store]
                   ELSE run' = [run EXCEPT !.pc = "done", !.exit = 1]
    BY <1>7, Zenon DEF OpenDatabase, Exit
  <2> HIDE DEF o
  <2>2. /\ o.works => run'.pc = "work" /\ run'.store = o.store
        /\ ~o.works => run'.pc = "done"
    BY <1>0, <2>1 DEF RunFields
  <2>3. ASSUME run.command.name = "counts", settings.shared = "" PROVE o.works
    <3>1. readOnly = TRUE /\ run.command.kind = "terms"
      BY <1>0, <2>3, CountsCommand
    <3>2. create = FALSE
      BY <3>1
    <3>3. FilesOf(s) \subseteq disk.files[dir]
      BY <1>2
    <3>4. o.works = /\ dir \in IF create THEN disk.dirs \cup {dir} ELSE disk.dirs
                    /\ \/ settings.shared = ""
                       \/ CanOpen(BestFit("", disk.files[settings.shared]),
                                  disk.files[settings.shared], TRUE)
                    /\ CanOpen(BestFit(settings.type, disk.files[dir]),
                               disk.files[dir], readOnly)
      BY Zenon DEF o, Opening
    <3> QED
      BY <1>2, <1>3, <2>3, <3>1, <3>2, <3>3, <3>4 DEF CanOpen
  <2> QED
    BY <1>1, <1>4, <2>2, <2>3
<1> QED
  BY <1>5, <1>6, <1>7

(* A database that was made with one type is opened as that type by a run   *)
(* that names none, and a read-only run finds it: for every table of stores *)
(* a build can have and every command line and configuration file.          *)
THEOREM AlwaysFoundAgain == Spec => DatabaseFoundAgain
<1>1. FoundInv /\ [Next]_vars => FoundInv'
  BY QuietStep, WholeStep, LoadStep, StoredStep, NamedStep DEF FoundInv
<1>2. FoundInv /\ [Next]_vars => [FoundAgain]_vars
  BY FoundStep
<1> QED
  BY <1>1, <1>2, FoundInit, PTL DEF Spec, DatabaseFoundAgain
==============================================================================
