# SpamProbe: a verification project

TLA+ models of SpamProbe from the mailbox to the database, the TLC runs that check
them and the theorems about them that TLAPS proves.  Paths are relative to the
repository; `FrequencyDB.cc:337` is line 337 of `src/database/FrequencyDB.cc`.

## 1. The system

SpamProbe is a command line program.  Mail delivery, cron and the user start it
many times, often at once; each process reads its options and configuration files,
opens the database in `~/.spamprobe` under a lock file, runs one command over some
messages, and closes the database.

| part | state it keeps | operations | talks to |
|---|---|---|---|
| the program (`spamprobe.cc`, `ConfigManager`, `FilterConfig`, `ParserConfig`, `HeaderPrefixList`) | the settings of the run; configuration files on disk | options in any order, `-d` and `-f` that load a file, test cases, extended options, `create-config` | everything |
| configuration language (`hdl/`) | none | printing, tokens, parsing, checking against a syntax | `ConfigManager` |
| commands (`Command_*`, `AbstractMessageCommand`) | the message in hand, counters for `-P` | one `execute` for each command, one `processMessage` for each message | readers, `SpamFilter` |
| line input and mailbox readers (`LineReader`, `MBoxMailMessageReader`, `MbxMailMessageReader`) | a position in a file, the current line | one line, one message | the commands |
| message structure (`MailMessage`, `HeaderParser`, `BodyParser`, `TraditionalMailMessageParser`, `MailMessageDigester`) | the list of header prefixes with its counts | headers, parts, digest | the tokenizers |
| text (`MimeDecoder`, `SimpleMultiLineStringCharReader`, `HtmlTokenizer`, `SimpleTokenizer`, `TokenFilteringTokenizer`, `PhrasingTokenizer`, `Message`) | a cursor with marks, a tag and an entity, a word, a window of words, terms with counts | decode, one character, one word, one phrase, one term | each other |
| message accounting (`SpamFilter`, `FrequencyDB`, `Message`) | none between calls; it is all in records of the store: a count pair for each term, for each message digest, and for `__COUNT__` | `classifyMessage`, `ensureSpamMessage`, `addMessage`, `removeMessage`, `touchMessage`, `trainOnMessage` | the store, call by call |
| choice of the store (`DatabaseConfig`) | none | by the type asked for, the files that are there, the build | the stores |
| record cache (`FrequencyDBImpl_cache`, `LRUCache`) | cached records, some of them locked until they are flushed, an LRU list | `readWord`, `writeWord`, `flush`, `close`, `firstWord`, `sweepOutOldTerms` | the store below |
| hash store (`FrequencyDBImpl_hash`, `HashDataFile`, `WordArray`) | a mapped file of fixed size; temporary files during a sweep | open and create, probe, read, write, sweep with renames | the file system |
| PBL, BerkeleyDB, CDB, null stores | a keyed file, a transaction | the same interface | their libraries |
| dual and split stores | two stores | shared over private; terms apart from digests | two stores |
| limits (`CleanupManager`, `AutoPurger`) | pairs of count and age; a message counter | `shouldDelete`, `processedMessage`, `finish` | the store's sweep |
| locks (`LockFD`, `LockFile`) | fcntl locks | shared and exclusive lock, release | other processes |
| process life (`spamprobe.cc`, `InterruptTest`) | interrupt flags, the global filter | signal handlers, exit paths | everything, asynchronously |
| scoring (`TokenSelector`, `SpamFilter`) | none | token selection, score, confidence | the store, reads only |

Behaviours that are hard here:

* A message is many records.  `addMessage` and `removeMessage` make one store
  call for each term, one for the digest and one for `__COUNT__`, and an
  interrupt takes effect at the end of any store call.  What was done by then is
  flushed.  There is no transaction around a message.
* Commands are retried.  `classifyMessage` adds a message up to 25 times until
  its score is confident, and users give the same mailbox again.
* Purges run between messages and do not know which message a term came from.
* The cache delays writes, evicts, has to flush in the middle of a message when
  it is full of writes, and sits above stores with quite different ideas of
  what is durable and when.
* A hash file has a fixed size, collisions, and a sweep that replaces the file
  by two renames, while the process can be killed at any point.
* Several processes share a database.  A process holds the lock file from its
  first read to the end of its flush, and a flush writes whole records.  It can
  end in many ways: normally, by an exception, by `exit` called from a signal
  handler in the middle of anything, by a signal during its own destructors, or
  killed.
* The same message is stored in many ways (mbox, MBX, alone; with and without
  lengths; with any line ends), and its digest has to be the same in each, since
  that is how it is found again.
* The tokenizers run inside each other: the words of a tag are taken while a word of
  the text is open, a tag that is none is read again from a mark, and phrases are
  cut out of a window that is compacted under their offsets.
* Options, test cases and configuration files overwrite each other's settings in the
  order they come, some setters set several members, and what one run wrote is read
  by another that starts from other settings.

What makes each part correct is stated by the properties of section 4; the
hazards they are aimed at are listed in `PROJECT.json`, each with its line.

The facts of the build that the models use are those of `src/config.log` and the
Makefiles: C++98 compiled for x86_64 with `-DNDEBUG`, memory mapped hash files
compiled in and used by default, no `USE_HASH_AUTO_CLEAN`; stores `split`, `hash` and
`pbl`, the last one the default.

## 2. The modules

```
Settings  ->  ConfigFile  --+
              DatabaseTypes +-->  Session    runs of main() over the files it keeps
              Commands    --+

Mailbox + MailParts  ->  MailReading         from a file to messages, parts, digests

CharCodes -> CharReader, MimeDecoder, Tokenizers  ->  TextReading   from a part to terms
FlatReader      what a character reader promises
   ^ implemented by  CharReader in TextReading

MessageLedger   what classification promises: each message known in one class
   ^ implemented by
MessageCounts   FrequencyDB and SpamFilter, one store call for each step

TermStore       what a store promises to FrequencyDB, crashes included
   ^ implemented by          ^ implemented by
TermCache       HashFile     the cache over a store; the hash file

Processes       processes around one such stack: lock, signals, exits

TermLists       export, import and purge-terms: iteration over the whole stack
```

`MC...` modules give the constants of the runs, `...Proofs` modules hold the
theorems: those of `HashFile` and of `Processes`, which are about the same file, are in
`FileProofs`, and those of `Session` in `SessionProofs` and `SettingsProofs`.  The chain goes from the top of the list to its bottom: `Session` says
which command runs with which settings, `MailReading` which texts the tokenizers
are given, `TextReading` which terms come out, `MessageCounts` what becomes of them
in a store that does what it is told; `TermStore` is that store, and `TermCache` and
`HashFile` are two layers that are shown to provide it.

**Settings, ConfigFile.**  `Settings` is the record of all members of the four
configurations, with the setters that touch more than one (`SetScoreMode`,
`SetMinWordCount`, `SetDefaultThreshold`), every test case and every extended
option.  Fractions are counted in ten-millionths.  `ConfigFile` has the statements a
file is made of: each argument is the token that is *read back* from the text that
was printed (`DoubleToken` has the six digits of the stream and the exponent that
`readNumber` does not take, `StringToken` the quotes, `IntToken` the missing sign),
`Syntax` is the syntax tree of `ConfigManager.cc`, and `Loaded` is what one statement
does to the settings.

**DatabaseTypes, Commands.**  The table of the build and `createDatabaseImplUsingBestFit`
over the files that are there; and each of the 30 commands by what `main`, `execute`
and `processMessage` make of it.

**Session.**  `disk` is what stays between runs; `settings`, `run` (the locals of
`main`) and `job` (the mailbox in hand with its `AutoPurger`) are the process;
`history` is for the properties.  One run is: `Start`, the file in the home
directory statement by statement (`ApplyStatement`), options in any order
(`Option...`, of which `-d` and `-f` go back to loading), `FindCommand`, usage or
version, `SingleMessage`, test cases, extended options, and one of the commands
(`CreateConfig`, `Help`, `OpenDatabase` with `TermsCommand` or with mailboxes from
`StartFile` to `FinishFile`), to an exit status.  A database is reduced to its files and
whether the run changed it.

**Mailbox.**  `IstreamCharReader`, `LineReader::forward` with its limit, and the
readers: `format` is the one `setStream` chose, `stage` the place in `readMessage`.
A character stands for itself or for a piece of text the readers recognise as a
whole (`FromMark`, `LengthMark`, `RecordMark`).  The last character of a file is never
current, as in the code.  `length` is what is left of a `Content-Length`, less
`CONTENT_LENGTH_PADDING`, or of an MBX record.

**MailParts, MailReading.**  `MailParts` is structure without state: a message is head
and body, a head is parsed into headers with their continuation lines, a body is cut
at its boundaries and at none if there are none, and `DigestOf` names the lines that are
digested, or the header that is taken instead.  `MailReading` is the command over a
`Mailbox`: `ParseBodyOf` visits one message or part (`work` holds those still to come) and
says what each header and the body give the tokenizers (`fed`), while `values`, the
`HeaderPrefixList`, lives as long as the command; `EndMessage` digests.

**CharCodes, CharReader, FlatReader.**  The classes of characters, and the cursor over the
lines of a text as if they were one string: `ResetPosition`, `Skip`, marks, with or without
a terminator after each line.  `FlatReader` is a cursor over one string; `TextReading`
is shown to implement it with the cursor it uses (`ReadsLikeOneString`, for TLC and as a
theorem).  `EnsureCharReady` is a function over `Position`, the places a cursor can be at.

**MimeDecoder, Tokenizers, TextReading.**  `MimeDecoder` has quoted printable, base 64 and
the encoded words of headers.  `Tokenizers` has what one character makes of the four states of
`SimpleTokenizer`, the filter, and the phrase window (`AddWord`, `CompactChars`, `Phrases`).
`TextReading` runs them: `ReadChar`, `ReadEntity` and `ReadTag` are the three loops of
`HtmlTokenizer`, which may return to `mark` and `entityMark`; `TokenizeChar` is the loop of
the text's own chain; a closed tag queues `jobs` for the tokenizer of the tags
(`TagChar`, `TagEnd`), with the URLs in it decoded; `AddTerm` is `Message::addToken` with its limit.

**MessageCounts.**  `term`, `digest` and `total` are the three kinds of record
in the store: `WordData` of a term, of `__MD5__<digest>` and of `__COUNT__`.
`job` is the command at work on one message, the locals of `classifyMessage`,
`addMessage` and `removeMessage` included, and its `stage` is the place in the
code.  Each action is one store call of those functions (`SubtractTerm`,
`SubtractDigest`, `SubtractMessage`; `AddTerm`, `AddDigest`, `AddMessage`), or a
test between two of them (`EnsureClass`, `Admit`, `Confident`, `GiveUp`,
`AnotherAttempt`).  The tokens of a message are visited in any order, since
the code iterates over a map by name and no property may depend on names.
`Interrupt` ends the job between any two steps, as `InterruptTest` does
(FrequencyDB.cc:51-68).  `Sweep` is a purge between two messages.  The score is a
floating point number; whether it is confident is a choice that changes
whenever the counts do (`sure`).  Counts are clamped at zero as in
`WordData::adjustGoodCount`.

**MessageLedger** knows only, for each message, the class it is known in, and
the number of messages of each class.  It classifies and forgets.

**TermCache.**  `entry` is the index of `LRUCache` with its nodes, `normalList`
its list of unlocked nodes; `image` is the private record as the running process
sees the store, `disk` what a killed process leaves.  They differ only for a
transactional store (PBL, BDB).  A flush is a step for each record, with a
commit every `ChunkSize` records; `after` says what the call that flushed goes
on to do (the write that found the cache full, `close` or `firstWord`, which
clear the cache, `sweepOutOldTerms`).  A flush may fail at any record, and the
process may be killed at any step.  Every word has an optional record in a
shared database that is never written (`FrequencyDBImpl_dual`), and some words
may bypass the cache (`canCacheTerm`, the split store).

**TermStore** is the user's records, and a stable copy that trails them record
by record.  A crash goes back to the stable copy.  Both layers implement it: for
`TermCache` the stable copy is `disk`, for `HashFile`, where a store into the
mapping survives the process, it is the records themselves.

**HashFile.**  `live`, `rehash` and `bak` are the three files a sweep deals
with.  A file is its type record, the record of `__COUNT__`, and its slots.  Words
are their hash codes, since nothing else of a word reaches this code.  `AsRead`
is the conversion of a code to the bytes of a slot and back: `KeyRange` and
`LongRange` are the widths of the bytes and of an `unsigned long`.  `Place` is
where the probing of `read` and `write` stops.  A sweep is a step for each slot,
then each rename, the second mapping and the removal of the backup; it may fail
or be killed at each of them.  `SweepOver` and `Exit` forget temporary files
that no later call reads.

**Processes.**  `at` is where a process stands in `SpamFilter::open`, a store
call or `SpamFilter::close`; `holders` and `sharedLock` are the fcntl lock.  A record is
reduced to the number of updates it has seen, a process's `cache` to copies of
records, with `pending` the updates not yet written.  `exiting` says that the
static destructors run.  The ways out follow `main` and the handlers:

* `close_and_exit` (SIGINT, SIGTERM, SIGPIPE) asks `requestInterrupt`.  While a
  store call is in progress the first signal only sets `m_isInterrupted`
  (`ScheduleInterrupt`); `~InterruptTest` throws at the end of the call
  (`EndCall`, `FlushEnd`, `CloseDatabase`).  Between calls, or for the second
  time, the handler calls `exit` on top of whatever it interrupted
  (`SignalExits`).
* An exception reaches `main`, which returns.  Returning and `exit` both run the
  destructor of the global `s_filter`, and `~SpamFilter` flushes and closes
  (`BeginExit`): `FrequencyDB::isOpen` is always true.
* During that destructor `s_filter` is already null, so that a signal exits at
  once and leaves the flush unfinished (`SignalDuringExit`), and an exception
  ends the process (`Throws`), as does one thrown by `~InterruptTest` on top of
  another.
* `close_and_abort` and SIGKILL close nothing (`Killed`).

A handler that runs `exit` in the middle of a store call finds the cache before
the call's change or after it; a change caught halfway is undefined behaviour and
is represented by these two outcomes and by the end of the process.  `Exec` runs
another process while the lock is held, and waits for it.

**TermLists.**  One process runs `export`, `import` or `purge-terms` (`op`) on a
hash file under a cache.  `slot` is the file as the iteration sees it, `dirty` the
records the cache has to write, `cursor` is `m_cursor` or the line that import
has reached.  Where probing puts a record is left open, since `HashFile` makes
that choice.  What the cache has only read is not kept: it is what the file has
(`Coherent`), as long as a word and its own code are not used together, and the
files imported here never mix the two.  A flush is a step for each record, and so is
the iteration, so that a full cache is flushed under the cursor of `purge-terms`
(`held` is the write that waits for it).  When the file is full the exception ends the
command, `~SpamFilter` flushes once more, and what that throws ends the process
(`FileFull`); a signal ends the command between two records (`Interrupt`).  A line
is a name, its counts as one number, and the date, which old exports lack.

## 3. Runs

Passing runs:

| run | what it shows |
|---|---|
| `session` | Two runs one after the other, options in any order, files loaded and written, each type of database: what was saved comes back, what was asked for is in force, runs that only look leave the disk alone, a database is found again as what it is, and no mailbox outgrows its sweep. |
| `mail` | Every short file and stored messages in all their formats: each character is delivered once and in its place, a message has one digest however it was stored, prefixes do not depend on earlier messages, each line of a body with parts reaches exactly one part. |
| `text` | Texts put together from pieces of words, tags, comments and entities, and every encoding of small texts: words, phrases and counted terms are what the text without its tags says, decoding undoes encoding, and the character reader is one over a single string. |
| `counts` | Without interrupts, but with purges, the accounting implements the ledger: no message is ever counted twice or in two classes, every command reaches what it was asked to do (`CommandAchieved`) and ends (`CommandsEnd`); removing or reclassifying a purged message never leaves a term with more than its messages gave it. |
| `counts_interrupted` | With two interrupts at any store calls: a digest never counts in two classes nor more than the limit, `__COUNT__` is off by at most one message, and a term by at most one message's tokens, for each interrupt. |
| `cache_stack` | A cache of two entries over a store with transactions that may fail, beside a word that is not cached: index and list agree, and cache and store together are a store. |
| `cache_shared` | A cache of one entry over a private and a shared store: it never confuses the two, and touching a shared word never copies it. |
| `hash_file` | A hash file with fewer slots than words: every record is found by probing, the file is a store while it has a free slot, failed renames and kills lose nothing but in one window, and a sweep removes exactly what it should. |
| `processes` | Two processes on one database, either of which may be run by the other: no process works on stale records or writes over the updates of another, one signal or error loses no update, and the lock comes free. |
| `term_lists` | Files of three records, filled, exported, imported into and purged, with flushes on the way, signals, a full file and kills: an export has each record that counts once, an import adds each line it has read once and in order, and `purge-terms` empties what matches and nothing else. |

Runs that show the code and its documentation apart (each has a finding in
`PROJECT.json` with the lines quoted; a third finding, on what an import does to dates, is
listed there with `term_lists`, which passes, and below):

| run | what it shows |
|---|---|
| `v_hash_wide` | On a 64-bit build a written word is not found, because its code is compared with the four bytes stored of it. |
| `v_header` | The second encoded word of a header is decoded behind a copy of the first. |

Bounds, and why they are enough:

* `session`: `MaxRuns` 2, since what one run leaves for the next is a matter of two;
  `MaxOptions` 2, so that each pair of options comes in both orders, `-d` and `-f` among
  them; two files of two messages (`MaxFiles`, `MaxMessages`), so that a counter of `-P 2`
  can be due at the end of a file and within one.  Nine of the thirty commands are
  called, one of each way `execute` goes; two directories, which exist or are yet to be
  made; five files to start with: none, one cut short, one the syntax refuses, one
  whose settings depend on the order, one that names the other directory.
* `mail`: every file of up to five characters (`MaxFile`) over those that mean
  something to a reader, and behind each header of a length or an MBX file.  Five characters
  hold a boundary, a blank line, a line end of two characters and one more of each
  of them.  Two messages of seven kinds in each format, with five sets of options.
  `Padding` is 2 instead of `CONTENT_LENGTH_PADDING`, since the texts are short as well;
  `Infinity` (999) is longer than any file.
* `text`: three pieces of text in all combinations, from fourteen; longer ones in
  twos.  `MaxTagLength` 9, `MaxTermsPerMessage` 7, terms of 1 to 6 characters, phrases of 1
  to 2 terms and 4 to 6 characters, and `MaxStart` 3 (2048 in the code): each is reached and
  exceeded.  `MaxEntityLength` is the code's.
* Two messages over two terms, one message with a term twice, the other sharing
  that term: a count taken from the wrong message, the wrong class or the wrong
  number of times shows.
  `MaxClassify` is 2 or 3 instead of 25: one attempt, the last attempt and, with
  3, one in between.
* Two interrupts: one to damage, one to hit the repair of the damage.  The
  bounds of the drift grow with the number of interrupts, and the second one
  shows that they do not grow faster.
* Purges with limits 1 and 2 take some of the terms and leave others.
* Three words compete for a cache of two entries, beside a fourth that is not
  cached, with chunks of two records: evictions, a cache full of locked records,
  a flush of more than one chunk and a kill between two of them all happen.
* Two slots and three codes, of which two share a home and wrap around: the file
  collides, wraps, fills up and is swept.  Nothing in the code depends on how many
  slots there are but wrapping and filling up.
* Three slots and four codes: a file that fills up and one record too many for it.
  The imported files are an export of another database, words with a repetition
  and without dates, and records that do not fit; three lines each, with a flush
  due after three and a cache that is full after two, so that both fall together
  and apart.
* `MaxCalls`: two store calls for each command, so that one update is pending
  while another is made.  `MaxTrouble`: one signal to interrupt, one to exit.
  `MaxCount` bounds the updates of a record.  Two processes suffice for a stale read and
  for a deadlock, two words for a half-written flush.

`CHECK_DEADLOCK` is left on: the next command can always start, and what ends
(`mail`, `text`, `session` after its last run) ends in a `Stop` that repeats.
`SYMMETRY` is used in `cache_stack` only, for the words that have the same
constants, and no liveness is checked there.

**Fairness.**  `CommandsEnd` and `LockComesFree` need it.  The `FairSpec` of
`MessageCounts` asks weak fairness of the steps of the running job, that of
`Processes` of each process's own steps (`Advance`): processes are scheduled, and
their input is finite.  Neither asks anything of the score, which may never become
confident, of signals, errors or new commands.

## 4. Properties

Of the settings and the files between runs:

* `SettingsComeBack`: what `create-config` saved is what a later run has when it
  loads that file, for every setting that a file can hold, although statements reset each
  other's settings and the later run starts from others.
* `OptionsInForce`: each setting has the value of the last option that set it, unless
  `-d`, `-f`, a test case or an extended option meant it afterwards.
* `QuietRunsChangeNothing`: a run that fails before its command, or whose command only reads,
  leaves files and databases alone, with `-P` and `-c` as well.
* `SweptInTime`: with `-P n`, never more than n messages of a mailbox wait for a sweep, and
  none at its end.
* `DatabaseFoundAgain`: a database that one run made is opened as the same store by the
  next one, in its directory and for its type.

From the file to the terms:

* `NothingLost`: lines and messages put together again are the file, short of what a format
  defines as its own.  `PartsKeepEveryLine` says so of the parts of a body.
* `DigestKeptByReaders`: a message that was sent has one digest, stored in whatever
  format.
* `PrefixesFresh`: the prefix of a header depends on the headers before it in its own part.
* `WordsAreRuns`, `PhrasesExact`, `FirstTermsCounted`: words, phrases and terms stated over the
  text alone, by definitions that know nothing of states, marks and windows.
* `DecodesWhatWasEncoded`: decoding after any encoding of a text gives the text.
* `ReadsLikeOneString`: the reader implements `FlatReader`, returns to marks included.

Of the accounting:

* `OneClass`, `DigestBounded`: a digest never counts a message on both sides,
  and never more than `MaxClassify` times.
* `TotalDriftBounded`, `TermDriftBounded`: what interrupts can cost.
* `NeverOverCounted`: what purges can cost.
* `ImplementsLedger`, `CommandAchieved`, `CommandsEnd`.

Of the stores:

* `ListMatchesIndex`: the data structure of the cache.
* `Coherent`: an unlocked entry is what the store would answer.
  `CommittedUntilFlushed`: outside a flush a crash takes nothing back from the
  store, and a flush that is over has left nothing to write.  With `ImplementsStore`
  (no record is lost on the way) this is what a completed close promises, also when
  the flush had to be repeated.  `TouchStaysShared`.
* `ImplementsStore` (of cache and hash file), `EveryRecordFound`,
  `KeptUntilSwept`, `SweepExact`.  A hash file implements the store as long as it
  has a free slot; that is part of the property.
* `ExportExact`, `ImportAdds`, `ImportInOrder` and `PurgeTermsExact` say what a whole
  pass over the database amounts to, stated over the records before it.

Of the processes:

* `CacheFresh`: what a process has cached is what the file has and its own
  updates.  It fails when a lock is taken too late, let go too early, or kept by
  two writers, and when a flush writes a record that another process changed.
* `OneTroubleLosesNothing`: whatever a process is doing, one signal or one error
  leaves time to write everything.  Two may not: that is what the handlers say
  they do ("TRY AGAIN AFTER SEVERAL SECONDS IF SHUTDOWN FAILS").
* `LockComesFree`: the lock is given back, except in the deadlock of `exec` that
  its help text describes.

Violated: `ReadsWhatWasWritten` (a word just written is found) and `EncodedWordsDecoded`
(a header with encoded words reads as what was encoded).

`JobAgrees` (a job acts on what is still true), `LockedBound` and `SizeBound` (of the cache),
`FullMeansFull` and `OneSlotEach` are not checked by a run: theorems prove them, and
the other invariants rest on them.  So are the type invariants of `MessageCounts`,
`TermCache`, `HashFile`, `Processes` and `TermLists`.

Every property of a passing run has a mutant in `PROJECT.json`: a change of one modelled
definition, as a slip in the code would make it, under which TLC finds the property
violated.  Mutants stand next to the definitions they change and are marked as such.

Seen while modelling, and kept in the models as it is, without a run of its own:

* A purge of a hash file drops digests with the terms, so that a rescan counts messages
  twice (FrequencyDBImpl_hash.cc:303); README.txt:109-111 says that a message is never
  counted twice.  A kill between the two renames of a sweep leaves no live file, and the next
  command creates an empty one (FrequencyDBImpl_hash.cc:337).
* An import dates the records that are in the database already today
  (FrequencyDB.cc:204-208), and so an import of what was exported makes every record it
  meets new to `cleanup`.  ChangeLog:792-794 says that `addWord()` "preserves flags if word
  already in database", and ChangeLog:811-812 that export and import "include flags as well
  as counts for each word so that timestamps can be preserved"; only a record that is new to
  the database, and has one line in the file, keeps its date.  `ImportAdds` and
  `ImportInOrder` say what the code does, the first being where `PROJECT.json` lists this
  as a finding.
* `good` and `spam` add the terms of known messages again while the score is not
  confident (SpamFilter.cc:470; README.txt:977-980).
* `isReadOnly` has no return statement (HashDataFile.h:94).
* `create-config` with `-d` and a directory without a file overwrites the file in the home
  directory (ConfigManager.cc:239; README.txt:880-881).  In a directory that
  does not exist it writes nothing and exits with 0.  With `-H normal` it throws in
  the middle and leaves a file that later runs refuse.  What it writes for a very small
  threshold, a negative size or the type of a store that is not built in is not accepted
  either; the header mode `nox` comes back as `all`, and `blank_prefixes_mode` not at all.
* A split database that is opened later without a type is taken for a plain hash file.
  `-l` resets `good_bias` although a file set it.  `-R` with nothing but skipped messages tests a
  member that was never set.  `auto-train` without messages divides by zero.
* The list of words of a phrase has room for `min_phrase_chars` words when that is not 0
  (PhrasingTokenizer.cc:51).  With `max_phrase_terms` above it, which a configuration file
  (or `-w` after `-o`) can ask for, phrases of more words than `min_phrase_chars` are never
  built, although `max_phrase_terms` allows them.
* `find-good`, `summarize` and `tokenize` sweep the database when `-P` is given.

## 5. Proofs

Each theorem is for every value of the constants that meets the module's `ASSUME` and, where
one is named, the theorem's own.

**SessionProofs.**  The whole program: every set of directories, files, commands, options
and bounds.

* `QuietAlways`.  The inductive invariant is
  `QuietInv == Shapes /\ Before /\ Asked /\ Looking /\ QuietRunsChangeNothing`: nothing touches
  the disk before the command starts (`Before`), a command starts only when no mistake was
  noted (`Asked`), and a read-only one at work has changed nothing and counts for no sweep
  (`Looking`).  It rests on `ReadOnlyIsQuiet`, which looks at each of the thirty commands.
* `AlwaysSweptInTime` adds `Waiting`: what waits is the remainder of the counter.  That the
  settings keep all their members, and a number where `-P` put one, is `Whole`, with a lemma for
  each setter, statement, option, test case and extended option.
* `OptionsAlwaysInForce` adds `Given`: while no file is loaded, what is remembered of the options
  is what the settings hold.  An option resets members of others (`SetScoreMode`, `-l`), so
  that each setter has a lemma that says which it leaves alone.
* `AlwaysFoundAgain` adds `Stored` and `Named`.  The files of a directory are those of the
  stores that were opened in it for writing, and whatever names a directory (the settings,
  the line `-f` loads from, a configuration file that a run of the program wrote) names a
  known one.  `BestFitFinds` is then a fact about the table of the build alone.  It needs
  `WrittenInDirs`: the only statement of a written file that names a database is the one
  that holds the directory.

**SettingsProofs.**  `SettingsAlwaysComeBack` is about the file as `create-config` writes it
and a later run reads it, one statement for each step, each of which changes the settings that
the next one starts from.

* The file can be read at all: every printed statement is one that the syntax takes
  (`ValidStatement`), with arguments of the types its rule asks for, provided that the settings
  are `Printable`: fractions whose six digits are a number again, a size that is not negative, a
  type that the syntax knows, and names, prefixes and directories without a quote.
* What a statement does is said once for each kind.  It `Restores` a member if it gives it the
  value that was printed whatever the settings were before, and `Keeps` it if it leaves it alone.
  Most restore one member and keep all others.  Not so `score_mode`, which sets three more
  (`SetScoreMode`); the two statements of the replacement for other characters, which are
  right only together; and those of the headers, the first of which empties the map when
  nothing has.  The order of `writeConfig` makes the file right: what a statement disturbs is
  printed behind it.
* The invariant is `BackInv == FoundInv /\ Proper(settings) /\ Known /\ Written /\ Back`.  `Proper`
  gives the kinds of all members, which every option, statement and test case keeps, so that what
  is printed is of the type the syntax asks for.  `Written`: a file that was written is
  `WrittenFile` of the settings it remembers.  `Back`, while such a file is
  loaded: after `at` statements each member has the value that was printed or a
  statement behind `at` restores it (`Pending`), and the headers are the ones printed so far
  (`HeadersBack`).  A statement carries that on if it restores a member or keeps it
  (`Fine`), or if one behind it restores it; at the end nothing is pending.

**MailProofs.**

* `PrefixesAlwaysFresh`.  The list of the code is never reset, it only grows by
  names, with the prefix they would have had without an entry; its counts start over with each
  head (`ParseHeaders`).  The invariant says that the list is a grown one (`Grown`),
  and `SameFeed` that a header is treated the same by a grown list and a new one;
  `GrowsFurther` closes the circle.
* `NothingEverLost`, for the four readers that take a file by lines.  The inductive invariant
  is `ReaderInv == ReaderShape /\ ReaderPlace /\ Balanced`.  `Balanced` is the equation: the
  messages that are out, the text collected and the line in hand, put together, are what of the
  file has been read.  `ReaderPlace` knows the place of the line in hand in the file, which
  the one step that gives a line back (the `From` line of the next message) needs.  `Forward`
  takes a line, its terminator of one character or two, or what the remaining length allows:
  `ForwardReads` says that it always is the next piece of the file.
* `PartsAlwaysKeepEveryLine`.  `PartsHoldLines` says for any lines and any boundary that
  cutting a body keeps them; the invariant `PartsInv` only carries the types of what is
  visited.  A part is found by its first boundary line, the next one after it, and so on: the
  proof goes by a minimal counterexample over where the rest of the body begins.

**TextProofs.**  For every text, every set of tags and ends of lines, and every setting of the
phrases and of the limit of terms.

* `PhrasesAlwaysExact`.  The inductive invariant `TextInv` says what the state of the
  tokenizers stands for: the list of words holds the last words that passed the filter, as far
  back as a phrase may still reach (`Window`), and what was sent so far are the phrases of all
  words that passed (`Heard`).  `WordReaches` and `WindowAdd` are about one more word: the list
  may forget words and compact itself, but no phrase that a later word ends begins
  before the oldest word it keeps.  The theorem assumes `PhrasesFit`, that the list has
  room for the words of a phrase; see section 4 for what happens otherwise.
* `FirstTermsAlwaysCounted`.  The invariant `TermsInv` says that the terms of a message are
  the first different ones among those delivered, in their order, and that their number is the
  smaller one of the limit and the number of different terms.  That a term beyond the limit is
  refused although it is counted when it is known already is `TermAdded`.
* `ReadsLikeOne`: the reader implements `FlatReader`.  The inductive invariant `ReaderInv` (which
  TLC checked on the run `text` first) says that the cursor is before the
  first character, behind the last, or on the character of the joined text that `CharsRead`
  counts to; that `mark` and `entityMark` are on such a character while a tag or an entity is
  read; and that neither is ever ahead of the cursor.  Without the part
  about marks the reader could come back to a place of the text before.
  `EnsureReady` says that stepping over ends of lines does not move
  the cursor in the joined text, `SkipOne` that a step moves it by one, empty lines, lines
  without terminator and the last line included.
  What the reader walks over is whatever the decoders return, so that their results have to be
  typed down to the character (`DecodedType`).  The decoders are recursive functions, and
  `Recursion` is the lemma that a function computed from its values at places of smaller measure
  exists; it is shown for each of them before its equation is used.

**MessageCountsProofs.**  `TypeCorrect`, then the inductive invariant
`DigestInv == TypeOK /\ OneClass /\ DigestBounded /\ JobAgrees`.  `OneClass`
alone is not inductive: that `ensureSpamMessage` empties the other class before
`addMessage` writes to this one is known only from the stage of the job, and
`JobAgrees` says it.  From it follow `OneClassAlways`, `DigestAlwaysBounded` and
`JobAlwaysAgrees`.

* `CommandAlwaysAchieved` adds `JobCounted`, what a job that has got past a stage knows of its
  digest; it holds in any database, with interrupts and purges before.
* `TotalDriftAlwaysBounded` (for stores whose sweep spares digests) adds that each step moves
  the number of recorded digests and `__COUNT__` together, up to what is pending, and that an
  interrupt turns what is pending into drift.
* `TermDriftAlwaysBounded` (`JunkCounts = {}`: no purges) says the same of each term, with two
  bounds, since they are not the same.  `Surplus`: an interrupted `addMessage` leaves at most one
  message's tokens too many.  `Deficit`: an interrupted `removeMessage` has subtracted the
  tokens of a message as often as it was counted, up to `MaxClassify` times, while its digest
  still says that it is there.
* `NeverAlwaysOverCounted` (no interrupts, digests survive sweeps) uses `Surplus` alone: a
  sweep only takes terms away.
* `LedgerImplemented` (the same assumptions) maps each step to a step of the ledger or to a
  stutter; there the drift bound is zero, which makes the count of the ledger exact.

**TermCacheProofs.**  The inductive invariant is
`CacheInv == TypeOK /\ Lru /\ Coherent /\ CommittedUntilFlushed /\ Pruned`, where
`Lru` is the shape of the index and the list with the bounds, and `Pruned` says
that a store never holds what it drops.  Type correctness, list, bounds, coherence and
commitment follow.  `StoreImplemented` is the refinement of `TermStore`,
`TouchAlwaysStaysShared` is an action property, which needs `ReadIsCached`: the word just read is still in the cache, or bypassed it.
Lemmas about the LRU sequences (what removing, adding in front and cutting keep)
come first.

**FileProofs, the hash file.**  Lemmas about probing: within the file, no slot twice, every
slot reached, and the first stop exists (a nonempty set of naturals has a least
element).  `PutSound`: writing at the first stop keeps every other record at its
first stop, since the slot filled was free or its own, and frees none.
`TypeCorrect` needs to know which files exist at which stage (`Present`).
`RecordsAlwaysFound` assumes `WideEnough`, that a code fits the bytes that store
it; `v_hash_wide` shows what happens otherwise.  `FullOnlyWhenFull` uses that
probing reaches every slot.  `KeptAlwaysUntilSwept`, `SweepAlwaysExact` and
`StoreImplemented` (`WideEnough` as well) add `FoundInv` (every file is sound, and free
slots are blank) and `Stages` (what the three files are to each other while a sweep goes on):
the new file is a copy of what the live one holds and the limits keep, so that the records
seen by the next call change only where a write or the end of a sweep changes them.
`SweepAlwaysExact` adds `Sweeping`: after each slot the new file has the records of the slots
passed that the limits keep, no other, and room for the next, and it is put in place only after
the last.

**FileProofs, the processes that share the file.**  The inductive invariant is
`Inv == ProcessTypeOK /\ Held /\ Exclusive /\ Cached /\ Unwritten /\ Closing /\ Exits`.
`CacheFresh` is not inductive: that no other process flushes meanwhile follows
from the lock, so that a process with cached records holds it (`Held`, `Cached`),
holders are compatible (`Exclusive`), and who has something to write did not
ask for a shared lock (`Unwritten`).  `OneTroubleNeverLoses` adds that the database
is closed only after it was flushed (`Closing`) and that destructors run, and
throw, only after one and after two troubles (`Exits`).

**TermListsProofs.**  The inductive invariant is
`ListInv == TypeOK /\ OneSlotEach /\ Idle /\ Exporting /\ Purging`.  `Exporting` ties
the lines written so far to the slots the cursor has passed; `Purging` says for each
slot that it has its old record or, if it was passed and matches, has been emptied
or will be by the cache or by the write that waits for a flush (`Waiting`).  The
step to watch is a flush in the middle of the iteration: it writes only records
that were visited, and those have their slots, so that no slot before or after the
cursor changes hands.  `OneSlotAlways`, `ExportAlwaysExact` and `PurgeAlwaysExact`
follow.  `ImportAlwaysInOrder` and `ImportAlwaysAdds` are about files of `Plain` lines, whose
counts are not negative and where different names have different codes (a word and its own
code do not both occur).  Their invariant is `Importing`: each record, as the command sees it,
is what the lines read so far have made of it, and in the file it is what some of the lines from
the first on had made of it when it was last written.

Facts about sums, counts and concatenations need induction over their length, which the
provers have no rule for.  The proofs go by a minimal counterexample instead: a nonempty set
of naturals, or of finite sets, has a least element (`WFMin`, `FS_StrictSubsetOrdering`), and
that element is refuted.  The recursive functions of the model are shown to exist in the
same way before their equation is used.  What stays out of reach is a definition that is
declared `RECURSIVE`, which is why only the definitions of `MCTextReading` are.

Some definitions are written the way they are so that they can be reasoned about: `Settings`
has its own `:>` and `@@`, since the prover does not expand those of the module `TLC`;
`EndOfLine` is the least of the places where a line may end; the stores of `DatabaseTypes` are
found by the least index in the table; and recursion is by functions of one argument over a
set that is named (`Position`, `PartlyDecoded`), except for the definitions of `MCTextReading`.

Only model-checked:

* `CommandsEnd` and `LockComesFree`, which are liveness.
* `WordsAreRuns`, whose reference definitions `Stripped` and `Expanded` are `RECURSIVE` and out
  of the prover's reach.  They also describe the texts of the run only: in a text where an entity
  reaches over the `>` of a tag (`&#>;`) the two differ on what the tag is.
* `DecodesWhatWasEncoded`: it relates what was encoded (`original`) to what is decoded, a relation
  that the messages of the run have by the way they are built.
* `DigestKeptByReaders`: it relates what `MailReading` was given to what the box was
  written from, which only the instance of the run knows.

Assumptions worth knowing:

* `SessionAssumption`: the commands that are called are among the thirty that exist.
  `DirsAssumption`: `-d`, the home directory and the files of the first run name directories
  that the model has.
* `TokensAssumption`: a file that is there before the first run has tokens that the tokenizer
  can produce (`readNumber` knows no sign), and names headers of `HeaderOrder`, the ones whose
  place in the sorted map the model knows; none of those names holds a quote.
* `ArgsAssumption`: `-H` is given one of its six forms and a name of `HeaderOrder`, and the
  size in an argument of `-d` is a number.
* `TextAssumption`: a message is a sequence of parts of a known kind whose lines are sequences
  of character codes.
* `PhrasesFit` (TextProofs): unless `min_phrase_chars` is 0, as it is by default, it is at least
  `max_phrase_terms`.  The defaults and each test case by itself satisfy it.
* `TypesAssumption` (DatabaseTypes): what `DBTYPES` and `configure` make of a build.  A suffix
  stands for the one file of its store, the default is not the split store, PBL and
  BerkeleyDB are never built in together, and any other plain store can be told by its file.
* `NothingUncovered` (TermCache): no store that deletes records without counts
  lies over a shared database.  There the deletion of a private record would let
  the shared one show through.
* `HashAssumption` (HashFile): no word has the code 0.  Such a word, one in 2^32,
  would look like a free slot.
* The store calls of `MessageCounts` are atomic; `TermStore` is what makes that
  true while the process lives.

## 6. Not modelled, and the plan

The rows of `PROJECT.json` give a reason for each part.

* Scores are floating point and stay a choice; so does the selection of tokens, which only
  feeds them.  `md5.c` is arithmetic on words without control flow worth a model: a digest
  stands for what is digested.
* BerkeleyDB, CDB and null stores: the configured build has none of them but the interface.
* Image parsers: sizes and pixels become words; the bounds of their buffers are C.
* `Ref`, `Ptr`, `Array`, `Buffer`, `File`, `RegularExpression` and the like are what the
  models express with TLA+ values.
* Maildir is a listing of a directory, whose order is the file system's.

Next, in this order:

1. **Locks, continued**: the shared database, which is read under the lock of
   the private directory only, and the locks of mailboxes.
2. **Dual and split stores**: `firstWord`/`nextWord` through them, migration of
   records, cursors; imports that mix words and codes.
3. **Accounting, continued**: `touchMessage`, `trainOnMessage`, AutoTrain's choice.
4. **Proofs**: `DigestKeptByReaders`, with what was written as an assumption on the
   box.
