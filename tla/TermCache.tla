------------------------------ MODULE TermCache ------------------------------
(***************************************************************************)
(* FrequencyDBImpl_cache: the write-back cache between FrequencyDB and the *)
(* stored databases, with the LRUCache it is built on.  A written record   *)
(* is "locked" into the cache until a flush hands it to the store; records *)
(* that were only read are "normal" and are evicted in LRU order.          *)
(*                                                                         *)
(* The store below is the private database, alone or over a shared one     *)
(* (FrequencyDBImpl_dual).  A flush of a transactional store (PBL, BDB)    *)
(* becomes durable chunk by chunk; a mapped hash file at every write.      *)
(***************************************************************************)
EXTENDS Integers, Sequences, FiniteSets, Functions

CONSTANTS
  Word,           \* words: terms, digest records, __COUNT__
  Count,          \* totals a record can hold
  Day,            \* time stamps
  None,           \* no record
  Shared,         \* Shared[w]: the record in the shared database, or None
  Cacheable,      \* the words canCacheTerm admits
  MaxSize,        \* LRUCache's m_maxSize, from -C
  ChunkSize,      \* MAX_RECORDS_PER_TRANSACTION
  Transactional,  \* TRUE if the store's writes wait for a commit
  Drops           \* the words whose store deletes a record without counts

Record == [n : Count, day : Day]

ASSUME CacheAssumption ==
  /\ IsFiniteSet(Word)
  /\ 0 \in Count
  /\ Count \subseteq Nat
  /\ None \notin Record
  /\ Shared \in [Word -> Record \cup {None}]
  /\ Cacheable \subseteq Word
  /\ MaxSize \in Nat \ {0}
  /\ ChunkSize \in Nat \ {0}
  /\ Transactional \in BOOLEAN
  /\ Drops \subseteq Word

\* FrequencyDBImpl_pbl and _bdb delete what FrequencyDBImpl_hash keeps.  Over a
\* shared database a deletion would uncover the shared record; see README.md.
ASSUME NothingUncovered == \A w \in Drops : Shared[w] = None

VARIABLES
  entry,       \* entry[w]: the cache's node for w, or NoEntry
  normalList,  \* the unlocked words, most recently used first
  image,       \* image[w]: the private record as the process sees the store
  disk,        \* disk[w]: the private record a killed process leaves
  pc,          \* "idle", "flush", or "resume": a flush has just ended
  after,       \* what the call that started the flush goes on to do
  numWrites,   \* flush: records written since the last commit
  last         \* history: the last completed read or write

vars == <<entry, normalList, image, disk, pc, after, numWrites, last>>

NoEntry == [rec |-> None, shared |-> FALSE, locked |-> FALSE]
Entry == [rec : Record, shared : BOOLEAN, locked : BOOLEAN] \cup {NoEntry}

NoCall == [op |-> "none"]
Call == [op : {"read", "write"}, word : Word, n : Count]

Return == [op |-> "return"]
Clear == [op |-> "clear"]
Purge == [op |-> "purge"]
ResumeWrite == [op : {"write"}, word : Word, rec : Record]

Cached(w) == entry[w] # NoEntry
Locked == {w \in Word : entry[w].locked}
LockedCount == Cardinality(Locked)

Stored(w, r) == IF w \in Drops /\ r.n = 0 THEN None ELSE r

\* FrequencyDBImpl_dual::readWord: the private record hides the shared one.
Lookup(w) == IF image[w] # None THEN image[w] ELSE Shared[w]
CountOf(r) == IF r = None THEN 0 ELSE r.n

Without(s, w) ==
  IF w \in Range(s)
  THEN LET i == CHOOSE i \in DOMAIN s : s[i] = w
       IN SubSeq(s, 1, i - 1) \o SubSeq(s, i + 1, Len(s))
  ELSE s

\* LRUCache::get moves a normal node to the front and leaves a locked one.
Touched(w) == IF entry[w].locked THEN normalList
              ELSE <<w>> \o Without(normalList, w)

\* LRUCache::eliminateOldObjects: make room for one more, if normal nodes can.
Room == IF MaxSize - 1 - LockedCount < 0 THEN 0 ELSE MaxSize - 1 - LockedCount

Kept == IF Len(normalList) <= Room THEN normalList
        ELSE SubSeq(normalList, 1, Room)

\* LRUCache::addNewNode
AddNewNode(w, e) ==
  /\ entry' = [v \in Word |-> IF v = w THEN e
                              ELSE IF v \in Locked \cup Range(Kept)
                                   THEN entry[v] ELSE NoEntry]
  /\ normalList' = IF e.locked THEN Kept ELSE <<w>> \o Kept

Answer(op, w, n) == last' = [op |-> op, word |-> w, n |-> n]

-----------------------------------------------------------------------------
Init == /\ entry = [w \in Word |-> NoEntry]
        /\ normalList = <<>>
        /\ image = [w \in Word |-> None]
        /\ disk = image
        /\ pc = "idle"
        /\ after = Return
        /\ numWrites = 0
        /\ last = NoCall

\* readWord
ReadHit(w) ==
  /\ pc = "idle"
  /\ Cached(w)
  /\ normalList' = Touched(w)
  /\ Answer("read", w, entry[w].rec.n)
  /\ UNCHANGED <<entry, image, disk, pc, after, numWrites>>

\* Mutant: the record is not marked as one of the shared database.
ReadMissUnmarked(w) ==
  /\ pc = "idle"
  /\ ~Cached(w)
  /\ IF Lookup(w) # None /\ w \in Cacheable
     THEN AddNewNode(w, [rec |-> Lookup(w), shared |-> FALSE, locked |-> FALSE])
     ELSE UNCHANGED <<entry, normalList>>
  /\ Answer("read", w, CountOf(Lookup(w)))
  /\ UNCHANGED <<image, disk, pc, after, numWrites>>

ReadMiss(w) ==
  /\ pc = "idle"
  /\ ~Cached(w)
  /\ IF Lookup(w) # None /\ w \in Cacheable
     THEN AddNewNode(w, [rec |-> Lookup(w), shared |-> image[w] = None,
                         locked |-> FALSE])
     ELSE UNCHANGED <<entry, normalList>>
  /\ Answer("read", w, CountOf(Lookup(w)))
  /\ UNCHANGED <<image, disk, pc, after, numWrites>>

\* writeWord, once the cache has room for one more locked node.  Words that are
\* not cached are those that FrequencyDBImpl_split keeps in a mapped hash file.
PutUncacheable(w, r) ==
  /\ w \notin Cacheable
  /\ image' = [image EXCEPT ![w] = Stored(w, r)]
  /\ disk' = [disk EXCEPT ![w] = Stored(w, r)]
  /\ UNCHANGED <<entry, normalList>>

PutNew(w, r) ==
  /\ w \in Cacheable
  /\ ~Cached(w)
  /\ AddNewNode(w, [rec |-> r, shared |-> FALSE, locked |-> TRUE])
  /\ UNCHANGED <<image, disk>>

\* Mutant: any write to a shared entry is dropped, with new counts too.
PutNothingShared(w, r) ==
  /\ w \in Cacheable
  /\ Cached(w)
  /\ entry[w].rec = r \/ entry[w].shared
  /\ normalList' = Touched(w)
  /\ UNCHANGED <<entry, image, disk>>

\* Equal, or shared with a new date only: the entry stays as it is.
PutNothing(w, r) ==
  /\ w \in Cacheable
  /\ Cached(w)
  /\ \/ entry[w].rec = r
     \/ entry[w].shared /\ entry[w].rec.n = r.n
  /\ normalList' = Touched(w)
  /\ UNCHANGED <<entry, image, disk>>

\* Mutant: the updated node stays in the normal list.
PutUpdateInList(w, r) ==
  /\ w \in Cacheable
  /\ Cached(w)
  /\ entry[w].rec # r
  /\ ~(entry[w].shared /\ entry[w].rec.n = r.n)
  /\ entry' = [entry EXCEPT ![w] = [rec |-> r, shared |-> FALSE,
                                    locked |-> TRUE]]
  /\ UNCHANGED <<normalList, image, disk>>

\* Mutant: a new date alone is an update of a shared entry.
PutUpdateDate(w, r) ==
  /\ w \in Cacheable
  /\ Cached(w)
  /\ entry[w].rec # r
  /\ entry' = [entry EXCEPT ![w] = [rec |-> r, shared |-> FALSE,
                                    locked |-> TRUE]]
  /\ normalList' = Without(normalList, w)
  /\ UNCHANGED <<image, disk>>

PutUpdate(w, r) ==
  /\ w \in Cacheable
  /\ Cached(w)
  /\ entry[w].rec # r
  /\ ~(entry[w].shared /\ entry[w].rec.n = r.n)
  /\ entry' = [entry EXCEPT ![w] = [rec |-> r, shared |-> FALSE,
                                    locked |-> TRUE]]
  /\ normalList' = Without(normalList, w)
  /\ UNCHANGED <<image, disk>>

Put(w, r) ==
  /\ \/ PutUncacheable(w, r)
     \/ PutNew(w, r)
     \/ PutNothing(w, r)
     \/ PutUpdate(w, r)
  /\ Answer("write", w, r.n)

WriteWord(w, r) ==
  /\ pc = "idle"
  /\ LockedCount < MaxSize
  /\ Put(w, r)
  /\ UNCHANGED <<pc, after, numWrites>>

-----------------------------------------------------------------------------
BeginFlush(next) == /\ pc' = "flush"
                    /\ after' = next
                    /\ numWrites' = 0
                    /\ UNCHANGED <<entry, normalList, image, disk, last>>

\* flush() is called by writeWord when the cache is full, by FrequencyDB::flush,
\* by SpamFilter::close and firstWord (which then clear the cache), and by
\* sweepOutOldTerms.
StartWrite(w, r) ==
  /\ pc = "idle"
  /\ LockedCount >= MaxSize
  /\ BeginFlush([op |-> "write", word |-> w, rec |-> r])

StartFlush == /\ pc = "idle"
              /\ \E next \in {Return, Clear, Purge} : BeginFlush(next)

\* Mutant: a record is unlocked without being written.
FlushRecordUnwritten(w) ==
  /\ pc = "flush"
  /\ entry[w].locked
  /\ entry' = [entry EXCEPT ![w].locked = FALSE]
  /\ normalList' = <<w>> \o normalList
  /\ UNCHANGED <<image, disk, pc, after, numWrites, last>>

\* One turn of flush's loop, which visits the words in the order of the index.
FlushRecord(w) ==
  /\ pc = "flush"
  /\ entry[w].locked
  /\ LET full == numWrites + 1 >= ChunkSize
     IN /\ image' = [image EXCEPT ![w] = Stored(w, entry[w].rec)]
        /\ disk' = IF full \/ ~Transactional THEN image' ELSE disk
        /\ numWrites' = IF full THEN 0 ELSE numWrites + 1
  /\ entry' = [entry EXCEPT ![w].locked = FALSE]
  /\ normalList' = <<w>> \o normalList
  /\ UNCHANGED <<pc, after, last>>

\* Mutant: the last, incomplete chunk is not committed.
FlushEndUncommitted ==
  /\ pc = "flush"
  /\ Locked = {}
  /\ pc' = IF after = Return THEN "idle" ELSE "resume"
  /\ UNCHANGED <<entry, normalList, image, disk, after, numWrites, last>>

FlushEnd ==
  /\ pc = "flush"
  /\ Locked = {}
  /\ disk' = image
  /\ pc' = IF after = Return THEN "idle" ELSE "resume"
  /\ UNCHANGED <<entry, normalList, image, after, numWrites, last>>

\* A store call throws.  The command dies, and ~SpamFilter, run at exit, flushes
\* what is still locked; the transaction that was open goes on.
FlushFails ==
  /\ pc = "flush"
  /\ Transactional
  /\ BeginFlush(Clear)

AfterWrite == /\ pc = "resume"
              /\ after \in ResumeWrite
              /\ Put(after.word, after.rec)
              /\ pc' = "idle"
              /\ UNCHANGED <<after, numWrites>>

\* The end of close, or of the flush and clear in firstWord.
AfterClear == /\ pc = "resume"
              /\ after = Clear
              /\ entry' = [w \in Word |-> NoEntry]
              /\ normalList' = <<>>
              /\ pc' = "idle"
              /\ last' = NoCall
              /\ UNCHANGED <<image, disk, after, numWrites>>

\* The store's own sweep; what it deletes is CleanupManager's choice.
AfterPurge == /\ pc = "resume"
              /\ after = Purge
              /\ entry' = [w \in Word |-> NoEntry]
              /\ normalList' = <<>>
              /\ \E W \in SUBSET Word :
                   image' = [w \in Word |-> IF w \in W THEN None ELSE image[w]]
              /\ disk' = image'
              /\ pc' = "idle"
              /\ last' = NoCall
              /\ UNCHANGED <<after, numWrites>>

\* The process is killed.
Crash == /\ entry' = [w \in Word |-> NoEntry]
         /\ normalList' = <<>>
         /\ image' = disk
         /\ pc' = "idle"
         /\ last' = NoCall
         /\ UNCHANGED <<disk, after, numWrites>>

Next == \/ \E w \in Word : ReadHit(w)
        \/ \E w \in Word : ReadMiss(w)
        \/ \E w \in Word, r \in Record : WriteWord(w, r)
        \/ \E w \in Word, r \in Record : StartWrite(w, r)
        \/ StartFlush
        \/ \E w \in Word : FlushRecord(w)
        \/ FlushEnd
        \/ FlushFails
        \/ AfterWrite
        \/ AfterClear
        \/ AfterPurge
        \/ Crash

Spec == Init /\ [][Next]_vars

-----------------------------------------------------------------------------
(* Properties *)

TypeOK == /\ entry \in [Word -> Entry]
          /\ normalList \in Seq(Word)
          /\ image \in [Word -> Record \cup {None}]
          /\ disk \in [Word -> Record \cup {None}]
          /\ pc \in {"idle", "flush", "resume"}
          /\ after \in {Return, Clear, Purge} \cup ResumeWrite
          /\ numWrites \in 0..(ChunkSize - 1)
          /\ last \in Call \cup {NoCall}

\* LRUCache's index and its lists hold the same nodes: the normal list has every
\* unlocked node, once.
ListMatchesIndex ==
  /\ Range(normalList) = {w \in Word : Cached(w) /\ ~entry[w].locked}
  /\ \A i, j \in DOMAIN normalList : normalList[i] = normalList[j] => i = j

\* The cache never holds back more writes than it may hold entries.
LockedBound == LockedCount <= MaxSize

\* All entries of a full cache locked, a read still adds one more.
SizeBound == LockedCount + Len(normalList) <= MaxSize + 1

\* An unlocked entry is what the store would answer, and knows where from: an
\* eviction or a missing flush can then lose nothing.
Coherent ==
  \A w \in Word : Cached(w) =>
    /\ w \in Cacheable
    /\ IF entry[w].shared
       THEN ~entry[w].locked /\ image[w] = None /\ Shared[w] = entry[w].rec
       ELSE ~entry[w].locked => image[w] = Stored(w, entry[w].rec)

\* Outside a flush the store has nothing that a crash would undo, and a record
\* that is still locked has not been handed to the open transaction.  (So a crash
\* or a commit in the middle of a flush never mixes two writes of one record.)
CommittedUntilFlushed ==
  /\ \A w \in Word : pc # "flush" \/ entry[w].locked => disk[w] = image[w]
  /\ ~Transactional => disk = image
  /\ pc = "resume" => Locked = {}

\* The user's record, wherever it is.
Own(w) == IF entry[w].locked THEN Stored(w, entry[w].rec) ELSE image[w]

\* Comment at FrequencyDBImpl_cache.cc:126: "we don't want terms migrating from
\* shared to private database if only the timestamp changed".  FrequencyDB reads
\* a word before it writes it back; a flush in between must not lose the entry.
TouchStaysShared ==
  [][\A w \in Cacheable :
       /\ last = [op |-> "read", word |-> w, n |-> CountOf(Shared[w])]
       /\ last' = [last EXCEPT !.op = "write"]
       /\ Own(w) = None
       /\ Shared[w] # None
       => Own(w)' = None]_vars

\* Writes that a flush has made durable stay durable: a record on disk changes
\* only to one the user wrote, or by a sweep.
Store == INSTANCE TermStore WITH
           own    <- [w \in Word |-> Own(w)],
           stable <- disk

\* The cache is invisible: what a read answers and what a crash leaves are what
\* the store alone would give, however entries are evicted and flushed.
ImplementsStore == Store!Spec

=============================================================================
