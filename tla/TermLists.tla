------------------------------ MODULE TermLists ------------------------------
(***************************************************************************)
(* The commands that go through a whole database: export writes a line for *)
(* each record, import adds the lines of a file to the records there are,  *)
(* purge-terms empties the records whose names match an expression.  The   *)
(* database is a hash file under a cache; it knows a record by the code of *)
(* its name, and gives the code for a name when it is asked for one.       *)
(*                                                                         *)
(* Which slot of the file a record gets is any choice here; HashFile.tla   *)
(* makes it, and shows that a code which fits its bytes is found again.    *)
(* Of the cache only what is to be written matters: what it merely read is *)
(* what the file holds (Coherent in TermCache.tla) as long as no two names *)
(* of one code are used together.                                          *)
(***************************************************************************)
EXTENDS Integers, Sequences, FiniteSets

CONSTANTS
  Name,        \* names of records, in the order of the cache's index
  CountName,   \* __COUNT__
  KeyOf,       \* the record a name stands for, by the name export gives it
  Slots,       \* records a file has room for, beside that of __COUNT__
  Today,       \* the time stamp of records written now
  MaxSize,     \* records to be written that a cache takes
  FlushEvery,  \* import: records between two flushes, less one
  Files,       \* bound: the files imported
  Patterns,    \* bound: expressions, each the set of names it matches
  MaxCount,    \* bound: counts
  None

Key == {KeyOf[m] : m \in Name}
Record == [n : Nat, day : 0..Today]
Line == [name : Name, n : Int, day : (0..Today) \cup {None}]
Index == 0..Slots

ASSUME ListAssumption ==
  /\ Name \subseteq Nat /\ IsFiniteSet(Name)
  /\ CountName \in Name
  /\ KeyOf \in [Name -> Name]
  /\ \A m \in Name : KeyOf[KeyOf[m]] = KeyOf[m]
  /\ \A m \in Name : KeyOf[m] = CountName <=> m = CountName
  /\ {Slots, Today, FlushEvery, MaxCount} \subseteq Nat
  /\ MaxSize \in Nat \ {0}
  /\ \A lines \in Files : lines \in Seq(Line)
  /\ Patterns \subseteq SUBSET Name
  /\ None \notin Record \cup Nat
  /\ None \notin [key : Name, rec : Record] \cup [name : Name, rec : Record]

VARIABLES
  slot,    \* slot[i]: the code and the record in slot i, or None
  dirty,   \* dirty[m]: the record to be written for name m, or None
  op,      \* the command that runs, or "none"
  at,      \* "run"; "flush": in the middle of it; "exit": for the last time
  ok,      \* neither a signal nor an error came
  cursor,  \* m_cursor; for import, the lines read
  input,   \* the lines of the file that is imported
  pattern, \* the names that the expression of purge-terms matches
  held,    \* a write that waits for the cache to be flushed, or None
  out,     \* the lines exported so far
  before   \* history: the records when the command started

vars == <<slot, dirty, op, at, ok, cursor, input, pattern, held, out, before>>

SlotOf(k) == {i \in Index : slot[i] # None /\ slot[i].key = k}
Stored(k) == IF SlotOf(k) = {} THEN None
             ELSE slot[CHOOSE i \in SlotOf(k) : TRUE].rec
Contents == [k \in Key |-> Stored(k)]

NothingDirty == [m \in Name |-> None]
Locked == {m \in Name : dirty[m] # None}

-----------------------------------------------------------------------------
Init == /\ slot = [i \in Index |->
                     IF i = 0 THEN [key |-> CountName,
                                    rec |-> [n |-> 0, day |-> 0]]
                     ELSE None]
        /\ dirty = NothingDirty
        /\ op = "none"
        /\ at = "run"
        /\ ok = TRUE
        /\ cursor = 0
        /\ input = <<>>
        /\ pattern = {}
        /\ held = None
        /\ out = <<>>
        /\ before = [k \in Key |-> None]

\* A command opens the database. Its first firstWord flushes and clears a cache
\* in which there is nothing yet.
Start(command, lines, matches) ==
  /\ op = "none"
  /\ op' = command
  /\ input' = lines
  /\ pattern' = matches
  /\ before' = Contents
  /\ UNCHANGED <<slot, dirty, at, ok, cursor, held, out>>

\* execute is over and main closes the filter.
Finish == /\ at' = "exit"
          /\ UNCHANGED <<slot, dirty, op, ok, cursor, input, pattern, held, out,
                         before>>

-----------------------------------------------------------------------------
(* Words *)

Seen(m) == IF dirty[m] # None THEN dirty[m] ELSE Stored(KeyOf[m])

Put(m, r) == dirty' = IF Seen(m) = r THEN dirty ELSE [dirty EXCEPT ![m] = r]

\* FrequencyDBImpl_cache::writeWord, and where the command goes on after it.
WriteWord(m, r, next) ==
  IF Cardinality(Locked) >= MaxSize
  THEN at' = "flush" /\ held' = [name |-> m, rec |-> r] /\ dirty' = dirty
  ELSE Put(m, r) /\ at' = next /\ held' = None

Clamped(n) == IF n < 0 THEN 0 ELSE n

\* Mutant: a record that is there already gets the date of the file, too.
AddedKeepsFlags(r, line) ==
  [n |-> Clamped((IF r = None THEN 0 ELSE r.n) + line.n),
   day |-> IF line.day # None THEN line.day ELSE Today]

\* FrequencyDB::addWord: only a new record gets the date of the file.
Added(r, line) ==
  [n |-> Clamped((IF r = None THEN 0 ELSE r.n) + line.n),
   day |-> IF r = None /\ line.day # None THEN line.day ELSE Today]

-----------------------------------------------------------------------------
(* Iteration *)

\* Mutant: a record that lost its counts ends the iteration.
ListedUpToEmptied(i) ==
  \/ i = 0
  \/ /\ slot[i] # None
     /\ \A j \in 1..i : slot[j] # None => slot[j].rec.n > 0

\* What firstWord and nextWord give: __COUNT__, and the records that count.
Listed(i) == i = 0 \/ (slot[i] # None /\ slot[i].rec.n > 0)

\* exportWords writes one record, or nextWord passes over a slot.
ExportNext ==
  /\ op = "export" /\ at = "run" /\ cursor \in Index
  /\ out' = IF Listed(cursor)
            THEN Append(out, [name |-> slot[cursor].key,
                              n |-> slot[cursor].rec.n,
                              day |-> slot[cursor].rec.day])
            ELSE out
  /\ cursor' = cursor + 1
  /\ UNCHANGED <<slot, dirty, op, at, ok, input, pattern, held, before>>

ExportEnd == op = "export" /\ at = "run" /\ cursor \notin Index /\ Finish

\* removeWord: the counts that nextWord gave are taken away.
Remove(i) == WriteWord(slot[i].key,
                       Added(Seen(slot[i].key), [name |-> slot[i].key,
                                                 n |-> -slot[i].rec.n,
                                                 day |-> None]), "run")

\* Mutant: the cursor is moved once more when a record was removed.
PurgeNextSkips ==
  /\ op = "purge-terms" /\ at = "run" /\ cursor \in Index
  /\ IF Listed(cursor) /\ slot[cursor].key \in pattern
     THEN Remove(cursor) /\ cursor' = cursor + 2
     ELSE UNCHANGED <<dirty, at, held>> /\ cursor' = cursor + 1
  /\ UNCHANGED <<slot, op, ok, input, pattern, out, before>>

PurgeNext ==
  /\ op = "purge-terms" /\ at = "run" /\ cursor \in Index
  /\ IF Listed(cursor) /\ slot[cursor].key \in pattern
     THEN Remove(cursor)
     ELSE UNCHANGED <<dirty, at, held>>
  /\ cursor' = cursor + 1
  /\ UNCHANGED <<slot, op, ok, input, pattern, out, before>>

PurgeEnd == op = "purge-terms" /\ at = "run" /\ cursor \notin Index /\ Finish

-----------------------------------------------------------------------------
(* Import *)

\* The record_count of processStream is over its limit.
FlushDue(lines) == lines % (FlushEvery + 1) = 0

ImportNext ==
  /\ op = "import" /\ at = "run" /\ cursor < Len(input)
  /\ LET line == input[cursor + 1]
     IN WriteWord(line.name, Added(Seen(line.name), line),
                  IF FlushDue(cursor + 1) THEN "flush" ELSE "run")
  /\ cursor' = cursor + 1
  /\ UNCHANGED <<slot, op, ok, input, pattern, out, before>>

ImportEnd == op = "import" /\ at = "run" /\ cursor = Len(input) /\ Finish

-----------------------------------------------------------------------------
(* Flushes and ends *)

First == CHOOSE m \in Locked : \A other \in Locked : m <= other

\* Where a record may be put: where it is, or else in any free slot.
Room(k) == IF SlotOf(k) # {} THEN SlotOf(k) ELSE {i \in Index : slot[i] = None}

\* The flush writes the next record where it is, or into a free slot.
FlushRecord ==
  /\ op # "none" /\ at \in {"flush", "exit"} /\ Locked # {}
  /\ \E i \in Room(KeyOf[First]) :
       slot' = [slot EXCEPT ![i] = [key |-> KeyOf[First], rec |-> dirty[First]]]
  /\ dirty' = [dirty EXCEPT ![First] = None]
  /\ UNCHANGED <<op, at, ok, cursor, input, pattern, held, out, before>>

\* Mutant: the write that found the cache full is forgotten.
FlushEndForgets ==
  /\ op # "none" /\ at = "flush" /\ Locked = {}
  /\ at' = "run"
  /\ held' = None
  /\ UNCHANGED <<slot, dirty, op, ok, cursor, input, pattern, out, before>>

\* A flush is done, and so is the write that asked for it.
FlushEnd ==
  /\ op # "none" /\ at = "flush" /\ Locked = {}
  /\ IF held = None
     THEN dirty' = dirty /\ at' = "run"
     ELSE /\ Put(held.name, held.rec)
          /\ at' = IF op = "import" /\ FlushDue(cursor) THEN "flush" ELSE "run"
  /\ held' = None
  /\ UNCHANGED <<slot, op, ok, cursor, input, pattern, out, before>>

\* The process is gone, and with it everything but the file.
Ended == /\ op' = "none"
         /\ at' = "run"
         /\ ok' = TRUE
         /\ dirty' = NothingDirty
         /\ cursor' = 0
         /\ input' = <<>>
         /\ pattern' = {}
         /\ held' = None
         /\ out' = <<>>
         /\ before' = [k \in Key |-> None]
         /\ slot' = slot

\* The file is full: the exception ends the command, the destructor flushes once
\* more, and what that throws ends the process.
FileFull ==
  /\ op # "none" /\ at \in {"flush", "exit"} /\ Locked # {}
  /\ Room(KeyOf[First]) = {}
  /\ IF at = "exit" /\ ~ok
     THEN Ended
     ELSE /\ at' = "exit"
          /\ ok' = FALSE
          /\ held' = None
          /\ UNCHANGED <<slot, dirty, op, cursor, input, pattern, out, before>>

\* A signal between two records: the database is flushed and closed.
Interrupt == /\ op # "none" /\ at = "run"
             /\ at' = "exit"
             /\ ok' = FALSE
             /\ UNCHANGED <<slot, dirty, op, cursor, input, pattern, held, out,
                            before>>

Close == op # "none" /\ at = "exit" /\ Locked = {} /\ Ended

Killed == op # "none" /\ Ended

-----------------------------------------------------------------------------
Fits(lines) == \A k \in Key, i \in 1..Len(lines) :
  Stored(k) # None => Stored(k).n + lines[i].n <= MaxCount

Next == \/ Start("export", <<>>, {})
        \/ \E lines \in Files : Fits(lines) /\ Start("import", lines, {})
        \/ \E matches \in Patterns : Start("purge-terms", <<>>, matches)
        \/ ExportNext
        \/ ExportEnd
        \/ PurgeNext
        \/ PurgeEnd
        \/ ImportNext
        \/ ImportEnd
        \/ FlushRecord
        \/ FlushEnd
        \/ FileFull
        \/ Interrupt
        \/ Close
        \/ Killed

Spec == Init /\ [][Next]_vars

-----------------------------------------------------------------------------
(* Properties *)

Optional(S) == S \cup {None}

\* Every variable has its type; the cache has never more to write than it takes,
\* and a write waits for nothing but a flush.
TypeOK == /\ slot \in [Index -> Optional([key : Key, rec : Record])]
          /\ dirty \in [Name -> Optional(Record)]
          /\ Cardinality(Locked) <= MaxSize
          /\ op \in {"none", "export", "import", "purge-terms"}
          /\ at \in {"run", "flush", "exit"}
          /\ ok \in BOOLEAN
          /\ cursor \in Nat
          /\ input \in Seq(Line)
          /\ pattern \subseteq Name
          /\ held \in Optional([name : Name, rec : Record])
          /\ held # None => at = "flush"
          /\ out \in Seq(Line)
          /\ before \in [Key -> Optional(Record)]

\* No two slots hold the same record, and __COUNT__ keeps its place, through any
\* commands, full files, signals and kills.
OneSlotEach == /\ slot[0] # None /\ slot[0].key = CountName
               /\ \A i, j \in Index : slot[i] # None /\ slot[j] # None /\ i # j
                    => slot[i].key # slot[j].key

\* The record of an export's line, or None where no line is for k.
Exported(k) == LET lines == {i \in 1..Len(out) : out[i].name = k}
               IN IF lines = {} THEN None
                  ELSE [n |-> out[CHOOSE i \in lines : TRUE].n,
                        day |-> out[CHOOSE i \in lines : TRUE].day]

\* A completed export has every record that counts, and that of __COUNT__, once
\* and as it was; it leaves out those that were emptied and stops at none.
ExportExact ==
  op = "export" /\ at = "exit" /\ ok =>
    /\ \A i, j \in 1..Len(out) : i # j => out[i].name # out[j].name
    /\ \A k \in Key :
         Exported(k) = IF /\ k # CountName
                          /\ before[k] # None /\ before[k].n = 0
                       THEN None ELSE before[k]

\* The first lines of a file that are for the record of k, and their counts.
OwnLines(k, lines, upto) == {i \in 1..upto : KeyOf[lines[i].name] = k}

CountsOf(k, lines, upto) ==
  LET sum[i \in 0..upto] ==
        IF i = 0 THEN 0
        ELSE sum[i - 1] + IF KeyOf[lines[i].name] = k THEN lines[i].n ELSE 0
  IN sum[upto]

\* The record of k after the first lines of a file: their counts and what there
\* was before, dated by the file if this is all there is, and else today.  So a
\* record that is in the database already does not keep its day: addWord calls
\* adjustDate() (FrequencyDB.cc:204-208), where ChangeLog:792-794 says that it
\* "preserves flags if word already in database".
AfterLines(k, upto) ==
  LET own == OwnLines(k, input, upto)
  IN IF own = {} THEN before[k]
     ELSE [n |-> CountsOf(k, input, upto)
                   + IF before[k] = None THEN 0 ELSE before[k].n,
           day |-> IF \E i \in own : /\ before[k] = None /\ own = {i}
                                     /\ input[i].day # None
                   THEN input[CHOOSE i \in own : TRUE].day ELSE Today]

\* At any point of an import, every record in the file has had some of the first
\* lines added, each of them once: a kill never leaves a line added twice, nor a
\* line added before an earlier one for the same record.
ImportInOrder ==
  op = "import" => \A k \in Key : \E lines \in 0..cursor :
                     Stored(k) = AfterLines(k, lines)

\* An import that is about to close the database, be it after a signal, has
\* added exactly the lines it has read, whatever was flushed on the way.  (The
\* counts add up; of the days see AfterLines.)
ImportAdds ==
  op = "import" /\ at = "exit" /\ Locked = {} =>
    \A k \in Key : Stored(k) = AfterLines(k, cursor)

\* purge-terms empties the records that match and touches no other, although
\* the cache may be flushed into the file while it goes through it.
PurgeTermsExact ==
  op = "purge-terms" /\ at = "exit" /\ ok /\ Locked = {} =>
    \A k \in Key : Stored(k) =
      IF /\ k \in pattern
         /\ k = CountName \/ (before[k] # None /\ before[k].n > 0)
      THEN [n |-> 0, day |-> Today] ELSE before[k]

=============================================================================
