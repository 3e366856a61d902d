------------------------------- MODULE HashFile -------------------------------
(***************************************************************************)
(* FrequencyDBImpl_hash and HashDataFile: records in a mapped file of a    *)
(* fixed number of slots, found by linear probing from the hash code of    *)
(* the word.  A sweep copies the records it keeps into a second file and   *)
(* renames the files; the process may be killed between any two steps.     *)
(*                                                                         *)
(* Words appear only as their hash codes: two words with one code are the  *)
(* same word to this code.  Stores to the mapping survive the process.     *)
(***************************************************************************)
EXTENDS Integers, FiniteSets

CONSTANTS
  Key,        \* the hash codes of the words in use
  KeyRange,   \* 2^(8 * KEY_SIZE): the codes a slot can tell apart
  LongRange,  \* 2^(8 * sizeof(unsigned long)): the type of a code
  Slots,      \* m_divisor
  Count,      \* totals a record can hold
  Day,        \* time stamps
  Today,      \* s_today
  Cleaners,   \* the limits of the CleanupManagers used for sweeps
  None,       \* no record
  NoFile      \* no such file

Record == [n : Count, day : Day]

\* A word whose code is 0 cannot be told from an empty slot; see README.md.
ASSUME HashAssumption ==
  /\ KeyRange \in Nat \ {0}
  /\ LongRange \in Nat
  /\ KeyRange <= LongRange
  /\ Key \subseteq 1..(LongRange - 1)
  /\ Slots \in Nat \ {0}
  /\ 0 \in Count
  /\ Count \subseteq Nat
  /\ 0 \in Day
  /\ Day \subseteq Nat
  /\ Today \in Nat
  /\ Cleaners \subseteq SUBSET [junk : Nat, age : Int]
  /\ None \notin Record

Index == 0..(Slots - 1)
Blank == [n |-> 0, day |-> 0]
EmptySlot == [key |-> 0, rec |-> Blank]
EmptyTable == [i \in Index |-> EmptySlot]

File == [valid : BOOLEAN,   \* the type record is there
         head  : Record,    \* the record of __COUNT__
         slot  : [Index -> [key : 0..(LongRange - 1), rec : Record]]]

ASSUME NoFileAssumption == NoFile \notin File

\* __COUNT__ has a header record of its own; its key is written as 0.
CountKey == 0

VARIABLES
  live,      \* the database file
  rehash,    \* the file a sweep builds
  bak,       \* what the live file is renamed to during a sweep
  pc,        \* "closed", "create", "reading", "open", or a stage of a sweep
  readOnly,  \* "open": the file has been mapped for reading only
  cleaner,   \* sweep: the limits
  cursor,    \* sweep: the next slot to copy
  cut,       \* history: a process ended between the two renames
  last       \* history: the last call

vars == <<live, rehash, bak, pc, readOnly, cleaner, cursor, cut, last>>

NoCall == [op |-> "none"]
Call == [op : {"read", "write"}, key : Key \cup {CountKey}, n : Count]
Full == [op : {"full"}, key : Key]

\* What readKey answers for a slot that k was written to: the low bytes of the
\* code, as an int, widened to a long.
AsRead(k) ==
  LET low == k % KeyRange
  IN IF 2 * low < KeyRange THEN low ELSE low + (LongRange - KeyRange)

\* The slot of the i-th probe.
Probe(k, i) == LET p == (k % Slots) + i IN IF p < Slots THEN p ELSE p - Slots

\* The probes at which HashDataFile::read and write would stop.
Stops(t, k) == {i \in Index : t[Probe(k, i)].key \in {k, 0}}

Place(t, k) ==
  Probe(k, CHOOSE i \in Stops(t, k) : \A j \in Stops(t, k) : i <= j)

HasRoom(t, k) == Stops(t, k) # {}
Holds(t, k) == HasRoom(t, k) /\ t[Place(t, k)].key = k

\* The data HashDataFile::read leaves in its result, found or not: that of the
\* last slot it looked at.
DataRead(t, k) == IF HasRoom(t, k) THEN t[Place(t, k)].rec
                  ELSE t[Probe(k, Slots - 1)].rec

\* Mutant: a record that collides is overwritten.
PutHome(t, k, r) == [t EXCEPT ![Probe(k, 0)] = [key |-> AsRead(k), rec |-> r]]

Put(t, k, r) == [t EXCEPT ![Place(t, k)] = [key |-> AsRead(k), rec |-> r]]

\* CleanupManager::shouldDelete
ShouldDelete(limits, r) ==
  \E l \in limits : r.n <= l.junk /\ Today - r.day > l.age

NewFile == [valid |-> FALSE, head |-> Blank, slot |-> EmptyTable]

-----------------------------------------------------------------------------
Init == /\ live = NoFile
        /\ rehash = NoFile
        /\ bak = NoFile
        /\ pc = "closed"
        /\ readOnly = FALSE
        /\ cleaner = {}
        /\ cursor = 0
        /\ cut = FALSE
        /\ last = NoCall

Answer(op, k, n) == last' = [op |-> op, key |-> k, n |-> n]

\* open(): a file that is there must have the type record.
Open(stage) == /\ pc = "closed"
               /\ live # NoFile
               /\ live.valid
               /\ pc' = stage
               /\ UNCHANGED <<live, rehash, bak, readOnly, cleaner, cursor, cut,
                              last>>

\* Opened for writing, a missing file is created, even if the backup of a sweep
\* that was cut short is still there: no command ever looks for one.
Create == /\ pc = "closed"
          /\ live = NoFile
          /\ live' = NewFile
          /\ bak' = NoFile
          /\ pc' = "create"
          /\ UNCHANGED <<rehash, readOnly, cleaner, cursor, cut, last>>

InitializeHeaderRecords ==
  /\ pc = "create"
  /\ live' = [live EXCEPT !.valid = TRUE]
  /\ pc' = "open"
  /\ UNCHANGED <<rehash, bak, readOnly, cleaner, cursor, cut, last>>

\* A file whose creation was cut short is refused by every later command.
OpenRefused == /\ pc = "closed"
               /\ live # NoFile
               /\ ~live.valid
               /\ last' = NoCall
               /\ UNCHANGED <<live, rehash, bak, pc, readOnly, cleaner, cursor,
                              cut>>

ReadWord(k) ==
  /\ pc \in {"reading", "open"}
  /\ Answer("read", k, IF k = CountKey THEN live.head.n
                       ELSE DataRead(live.slot, k).n)
  /\ UNCHANGED <<live, rehash, bak, pc, readOnly, cleaner, cursor, cut>>

WriteWord(k, r) ==
  /\ pc = "open"
  /\ ~readOnly
  /\ IF k = CountKey
     THEN live' = [live EXCEPT !.head = r]
     ELSE HasRoom(live.slot, k) /\ live' = [live EXCEPT !.slot = Put(@, k, r)]
  /\ Answer("write", k, r.n)
  /\ UNCHANGED <<rehash, bak, pc, readOnly, cleaner, cursor, cut>>

\* No room: the exception ends the command.
WriteFails(k) ==
  /\ pc = "open"
  /\ ~readOnly
  /\ k # CountKey
  /\ ~HasRoom(live.slot, k)
  /\ last' = [op |-> "full", key |-> k]
  /\ pc' = "closed"
  /\ UNCHANGED <<live, rehash, bak, readOnly, cleaner, cursor, cut>>

\* A store to a mapping without write permission: SIGSEGV or SIGBUS.
WriteFaults ==
  /\ pc = "open"
  /\ readOnly
  /\ pc' = "closed"
  /\ readOnly' = FALSE
  /\ last' = NoCall
  /\ UNCHANGED <<live, rehash, bak, cleaner, cursor, cut>>

-----------------------------------------------------------------------------
\* The locals of the call are gone.
SweepOver == cleaner' = {} /\ cursor' = 0

\* sweepOutOldTerms, up to copyToNewDataFile's loop.  A rehash file that an
\* earlier sweep left behind is removed, whatever is in it.
StartSweep(limits) ==
  /\ pc = "open"
  /\ rehash' = [NewFile EXCEPT !.valid = live.valid, !.head = live.head]
  /\ cleaner' = limits
  /\ cursor' = 0
  /\ pc' = "copy"
  /\ last' = NoCall
  /\ UNCHANGED <<live, bak, readOnly, cut>>

\* Mutant: records without counts are kept.
KeepsEmptied(s) == s.key # 0 /\ ~ShouldDelete(cleaner, s.rec)

Keeps(s) == s.key # 0 /\ s.rec.n > 0 /\ ~ShouldDelete(cleaner, s.rec)

\* Mutant: a record is copied to the slot number it had.
CopySlotInPlace ==
  /\ pc = "copy"
  /\ cursor < Slots
  /\ LET s == live.slot[cursor]
     IN rehash' = IF Keeps(s) THEN [rehash EXCEPT !.slot[cursor] = s] ELSE rehash
  /\ cursor' = cursor + 1
  /\ UNCHANGED <<live, bak, pc, readOnly, cleaner, cut, last>>

CopySlot ==
  /\ pc = "copy"
  /\ cursor < Slots
  /\ LET s == live.slot[cursor]
     IN rehash' = IF Keeps(s) /\ HasRoom(rehash.slot, s.key)
                  THEN [rehash EXCEPT !.slot = Put(@, s.key, s.rec)]
                  ELSE rehash
  /\ cursor' = cursor + 1
  /\ UNCHANGED <<live, bak, pc, readOnly, cleaner, cut, last>>

EndCopy == /\ pc = "copy"
           /\ cursor = Slots
           /\ pc' = "rename"
           /\ UNCHANGED <<live, rehash, bak, readOnly, cleaner, cursor, cut, last>>

RenameLive == /\ pc = "rename"
              /\ bak' = live
              /\ live' = NoFile
              /\ pc' = "swap"
              /\ UNCHANGED <<rehash, readOnly, cleaner, cursor, cut, last>>

RenameRehash == /\ pc = "swap"
                /\ live' = rehash
                /\ rehash' = NoFile
                /\ pc' = "reopen"
                /\ last' = NoCall
                /\ UNCHANGED <<bak, readOnly, cleaner, cursor, cut>>

\* Mutant: the old file is not renamed back.
RenameFailsLost == /\ pc = "swap"
                   /\ rehash' = NoFile
                   /\ pc' = "closed"
                   /\ readOnly' = FALSE
                   /\ last' = NoCall
                   /\ SweepOver
                   /\ UNCHANGED <<live, bak, cut>>

\* The second rename fails: the old file gets its name back, the command ends.
RenameFails == /\ pc = "swap"
               /\ live' = bak
               /\ bak' = NoFile
               /\ rehash' = NoFile
               /\ pc' = "closed"
               /\ readOnly' = FALSE
               /\ last' = NoCall
               /\ SweepOver
               /\ UNCHANGED cut

\* HashDataFile::isReadOnly has no return statement, so that the mode of the
\* second mapping is whatever the call leaves.
Reopen == /\ pc = "reopen"
          /\ readOnly' \in BOOLEAN
          /\ pc' = "remove"
          /\ UNCHANGED <<live, rehash, bak, cleaner, cursor, cut, last>>

RemoveBak == /\ pc = "remove"
             /\ bak' = NoFile
             /\ pc' = "open"
             /\ SweepOver
             /\ UNCHANGED <<live, rehash, readOnly, cut, last>>

\* The process closes the database, fails, or is killed.  The files a sweep
\* leaves behind beside a live file are dropped here: the next sweep removes or
\* overwrites them before it reads them.
Exit == /\ pc # "closed"
        /\ pc' = "closed"
        /\ readOnly' = FALSE
        /\ rehash' = NoFile
        /\ bak' = IF live = NoFile THEN bak ELSE NoFile
        /\ cut' = (cut \/ live = NoFile)
        /\ last' = NoCall
        /\ SweepOver
        /\ UNCHANGED live

Next == \/ Open("open")
        \/ Open("reading")
        \/ Create
        \/ InitializeHeaderRecords
        \/ OpenRefused
        \/ \E k \in Key \cup {CountKey} : ReadWord(k)
        \/ \E k \in Key \cup {CountKey}, r \in Record : WriteWord(k, r)
        \/ \E k \in Key : WriteFails(k)
        \/ WriteFaults
        \/ \E limits \in Cleaners : StartSweep(limits)
        \/ CopySlot
        \/ EndCopy
        \/ RenameLive
        \/ RenameRehash
        \/ RenameFails
        \/ Reopen
        \/ RemoveBak
        \/ Exit

Spec == Init /\ [][Next]_vars

-----------------------------------------------------------------------------
(* Properties *)

TypeOK == /\ {live, rehash, bak} \subseteq File \cup {NoFile}
          /\ pc \in {"closed", "create", "reading", "open", "copy", "rename",
                     "swap", "reopen", "remove"}
          /\ readOnly \in BOOLEAN
          /\ cleaner \in Cleaners \cup {{}}
          /\ cursor \in 0..Slots
          /\ cut \in BOOLEAN
          /\ last \in Call \cup Full \cup {NoCall}

\* A table in which every code is found by probing, in the slot that has it.
Sound(t) == \A i \in Index : t[i].key # 0 =>
              HasRoom(t, t[i].key) /\ Place(t, t[i].key) = i

\* No write, sweep or kill leaves a record that probing does not find, or two
\* records of one code.
EveryRecordFound == \A f \in {live, rehash, bak} \ {NoFile} : Sound(f.slot)

\* "no room in hash file" is only said of a file with no free slot left, and
\* never of a word the file already holds.
FullMeansFull ==
  last.op = "full" => \A i \in Index : live.slot[i].key \notin {0, last.key}

\* The database as the next call would see it; during a sweep, as it was.
Current == IF live # NoFile THEN live ELSE bak

Lookup(f, k) ==
  IF f = NoFile THEN None
  ELSE IF k = CountKey THEN IF f.head.n = 0 THEN None ELSE f.head
  ELSE IF Holds(f.slot, k) THEN f.slot[Place(f.slot, k)].rec ELSE None

Own == [k \in Key \cup {CountKey} |-> Lookup(Current, k)]

Store == INSTANCE TermStore WITH
           Word   <- Key \cup {CountKey},
           Shared <- [k \in Key \cup {CountKey} |-> None],
           Drops  <- {CountKey},
           own    <- Own,
           stable <- Own,
           last   <- IF last.op \in {"read", "write"}
                     THEN [op |-> last.op, word |-> last.key, n |-> last.n]
                     ELSE NoCall

HasFreeSlot(f) == f = NoFile \/ \E i \in Index : f.slot[i].key = 0

\* As long as it has a free slot, a hash file is a store: it answers reads with
\* the last count written, whatever collides, and no write disturbs the record
\* of another word.
ImplementsStore ==
  /\ Store!Init
  /\ [][HasFreeSlot(live) => [Store!Next]_(Store!storeVars)]_vars

\* Only a completed sweep takes records out.  Failed renames and kills do not,
\* except for a kill between the two renames.
KeptUntilSwept ==
  [][cut' \/ (pc = "swap" /\ pc' = "reopen") \/
     \A k \in Key : Own[k] # None => Own'[k] # None]_vars

\* A sweep takes out the records without counts and those the limits select, and
\* no other, wherever they sit and whatever they collide with.
SweepExact ==
  [][pc = "swap" /\ pc' = "reopen" =>
       \A k \in Key \cup {CountKey} :
          Own'[k] = IF /\ k # CountKey
                       /\ Own[k] # None
                       /\ Own[k].n = 0 \/ ShouldDelete(cleaner, Own[k])
                    THEN None ELSE Own[k]]_vars

-----------------------------------------------------------------------------
(* What the documentation says, and the code does not do *)

\* README.txt:311-313: the hash format "stores the 32 bit hash code for each
\* term.  You can do just about anything with a hash file that you could with a
\* PBL file": a term that was written can be read.
ReadsWhatWasWritten ==
  [][last.op = "write" /\ last'.op = "read" /\ last'.key = last.key
       => last'.n = last.n]_vars

=============================================================================
