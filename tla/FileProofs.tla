----------------------------- MODULE FileProofs -----------------------------
(***************************************************************************)
(* The database file.  Probing finds every record and a sweep takes out    *)
(* what it should, for any number of slots and any codes; and the          *)
(* processes that share the file write over no update of each other, for   *)
(* any number of processes and words.                                      *)
(***************************************************************************)
EXTENDS HashFile, Processes, FiniteSetTheorems, WellFoundedInduction, TLAPS

Slot == [key : 0..(LongRange - 1), rec : Record]
Table == [Index -> Slot]

-----------------------------------------------------------------------------
(* Probing *)

\* Every probe is a slot of the file (HashDataFile::read and write).
LEMMA ProbeIndex == ASSUME NEW k \in Nat, NEW i \in Index
                    PROVE  Probe(k, i) \in Index
<1>1. Slots \in Nat \ {0}
  BY HashAssumption
<1>2. k % Slots \in 0..(Slots - 1)
  BY <1>1
<1> QED
  BY <1>1, <1>2 DEF Probe, Index

\* Two probes of one call never look at the same slot.
LEMMA ProbeOnce == ASSUME NEW k \in Nat, NEW i \in Index, NEW j \in Index,
                          Probe(k, i) = Probe(k, j)
                   PROVE  i = j
<1>1. Slots \in Nat \ {0}
  BY HashAssumption
<1>2. k % Slots \in 0..(Slots - 1)
  BY <1>1
<1> QED
  BY <1>1, <1>2 DEF Probe, Index

\* The probes of one call reach every slot.
LEMMA ProbeAll == ASSUME NEW k \in Nat, NEW j \in Index
                  PROVE  \E i \in Index : Probe(k, i) = j
<1>1. Slots \in Nat \ {0}
  BY HashAssumption
<1>2. k % Slots \in 0..(Slots - 1)
  BY <1>1
<1> DEFINE i == IF k % Slots <= j THEN j - (k % Slots)
                ELSE j + Slots - (k % Slots)
<1>3. i \in Index
  BY <1>1, <1>2 DEF Index
<1>4. Probe(k, i) = j
  BY <1>1, <1>2 DEF Probe, Index
<1> QED
  BY <1>3, <1>4

\* A nonempty set of naturals has a smallest element.
LEMMA Smallest == ASSUME NEW S, S \subseteq Nat, S # {}
                  PROVE  \E i \in S : \A j \in S : i <= j
<1>1. PICK x \in S : \A y \in S : ~ (<<y, x>> \in OpToRel(<, Nat))
  BY WFMin, NatLessThanWellFounded, Zenon
<1>2. \A y \in S : ~ (y < x)
  BY <1>1 DEF OpToRel
<1> QED
  BY <1>2

FirstStop(t, k) == CHOOSE i \in Stops(t, k) : \A j \in Stops(t, k) : i <= j

\* With room, the call stops at the first probe that may stop it.
LEMMA FirstStops ==
  ASSUME NEW t, NEW k \in Nat, HasRoom(t, k)
  PROVE  /\ FirstStop(t, k) \in Stops(t, k)
         /\ FirstStop(t, k) \in Index
         /\ \A j \in Stops(t, k) : FirstStop(t, k) <= j
         /\ Place(t, k) = Probe(k, FirstStop(t, k))
         /\ Place(t, k) \in Index
         /\ t[Place(t, k)].key \in {k, 0}
<1>1. Slots \in Nat \ {0}
  BY HashAssumption
<1>2. Stops(t, k) \subseteq Index /\ Index \subseteq Nat
  BY <1>1 DEF Stops, Index
<1>3. Stops(t, k) \subseteq Nat /\ Stops(t, k) # {}
  BY <1>2 DEF HasRoom
<1>4. \E i \in Stops(t, k) : \A j \in Stops(t, k) : i <= j
  BY <1>3, Smallest
<1>5. /\ FirstStop(t, k) \in Stops(t, k)
      /\ \A j \in Stops(t, k) : FirstStop(t, k) <= j
  BY <1>4 DEF FirstStop
<1>6. Place(t, k) = Probe(k, FirstStop(t, k))
  BY DEF Place, FirstStop
<1>7. FirstStop(t, k) \in Index
  BY <1>2, <1>5
<1>8. Place(t, k) \in Index
  BY <1>6, <1>7, ProbeIndex
<1>9. t[Place(t, k)].key \in {k, 0}
  BY <1>5, <1>6 DEF Stops
<1> QED
  BY <1>5, <1>6, <1>7, <1>8, <1>9

\* Where the call stops, from any stop that no other one precedes.
LEMMA PlaceIs ==
  ASSUME NEW t, NEW k \in Nat, NEW i \in Stops(t, k),
         \A j \in Stops(t, k) : i <= j
  PROVE  HasRoom(t, k) /\ Place(t, k) = Probe(k, i)
<1>1. HasRoom(t, k)
  BY DEF HasRoom
<1>2. FirstStop(t, k) = i
  <2>1. FirstStop(t, k) \in Stops(t, k) /\ FirstStop(t, k) <= i /\ i <= FirstStop(t, k)
    BY <1>1, FirstStops
  <2>2. i \in Nat /\ FirstStop(t, k) \in Nat
    BY <2>1, HashAssumption DEF Stops, Index
  <2> QED
    BY <2>1, <2>2
<1> QED
  BY <1>1, <1>2, FirstStops

-----------------------------------------------------------------------------
(* Tables *)

\* Codes as wide as the bytes that store them come back as they were written.
WideEnough == KeyRange = LongRange

LEMMA AsReadSame == ASSUME WideEnough, NEW k \in 0..(LongRange - 1)
                    PROVE  AsRead(k) = k
<1>1. KeyRange \in Nat \ {0} /\ k \in 0..(KeyRange - 1)
  BY HashAssumption DEF WideEnough
<1>2. k % KeyRange = k
  BY <1>1
<1> QED
  BY <1>1, <1>2 DEF AsRead, WideEnough

LEMMA AsReadType == ASSUME NEW k \in 0..(LongRange - 1)
                    PROVE  AsRead(k) \in 0..(LongRange - 1)
<1>1. KeyRange \in Nat \ {0} /\ LongRange \in Nat /\ KeyRange <= LongRange
  BY HashAssumption
<1>2. k % KeyRange \in 0..(KeyRange - 1)
  BY <1>1
<1> QED
  BY <1>1, <1>2 DEF AsRead

\* Writing a record leaves a table.
LEMMA PutType ==
  ASSUME NEW t \in Table, NEW k \in 0..(LongRange - 1), NEW r \in Record,
         HasRoom(t, k)
  PROVE  Put(t, k, r) \in Table
<1>1. k \in Nat
  BY HashAssumption
<1>2. Place(t, k) \in Index
  BY <1>1, FirstStops
<1>3. [key |-> AsRead(k), rec |-> r] \in Slot
  BY AsReadType DEF Slot
<1> QED
  BY <1>2, <1>3 DEF Put, Table

\* Writing a record keeps every record of the table within reach of probing.
LEMMA PutSound ==
  ASSUME WideEnough, NEW t \in Table, Sound(t), NEW k \in 1..(LongRange - 1),
         NEW r \in Record, HasRoom(t, k)
  PROVE  Sound(Put(t, k, r))
<1> DEFINE p == Place(t, k)
           f == FirstStop(t, k)
           u == Put(t, k, r)
<1>1. k \in Nat /\ k # 0 /\ k \in 0..(LongRange - 1)
  BY HashAssumption
<1>2. /\ f \in Stops(t, k) /\ f \in Index /\ p = Probe(k, f) /\ p \in Index
      /\ \A j \in Stops(t, k) : f <= j
  BY <1>1, FirstStops
<1>3. /\ u[p].key = k
      /\ \A i \in Index : i # p => u[i] = t[i]
  BY <1>1, <1>2, AsReadSame DEF Put, Table
<1> HIDE DEF p, f, u
<1>4. SUFFICES ASSUME NEW i \in Index, u[i].key # 0
               PROVE  HasRoom(u, u[i].key) /\ Place(u, u[i].key) = i
  BY DEF Sound, u
<1>5. CASE i = p
  <2>1. f \in Stops(u, k)
    BY <1>2, <1>3 DEF Stops
  <2>2. ASSUME NEW j \in Stops(u, k)
        PROVE  f <= j
    <3>1. j \in Index /\ u[Probe(k, j)].key \in {k, 0}
      BY DEF Stops
    <3>2. CASE j = f
      BY <1>2, <3>2, HashAssumption DEF Index
    <3>3. CASE j # f
      <4>1. Probe(k, j) # p
        BY <1>1, <1>2, <3>1, <3>3, ProbeOnce
      <4>2. Probe(k, j) \in Index
        BY <1>1, <3>1, ProbeIndex
      <4>3. j \in Stops(t, k)
        BY <1>3, <3>1, <4>1, <4>2 DEF Stops
      <4> QED
        BY <1>2, <4>3
    <3> QED
      BY <3>2, <3>3
  <2>3. HasRoom(u, k) /\ Place(u, k) = Probe(k, f)
    BY <1>1, <2>1, <2>2, PlaceIs
  <2> QED
    BY <1>2, <1>3, <1>5, <2>3
<1>6. CASE i # p
  <2> DEFINE m == t[i].key
             g == FirstStop(t, m)
  <2>1. u[i].key = m /\ m # 0
    BY <1>3, <1>4, <1>6
  <2>2. m \in Nat
    BY HashAssumption DEF Table, Slot
  <2>3. HasRoom(t, m) /\ Place(t, m) = i
    BY <2>1 DEF Sound
  <2>4. m # k
    BY <1>6, <2>3 DEF p
  <2>5. /\ g \in Stops(t, m) /\ g \in Index /\ i = Probe(m, g)
        /\ \A j \in Stops(t, m) : g <= j
    BY <2>2, <2>3, FirstStops
  <2> HIDE DEF m, g
  <2>6. g \in Stops(u, m)
    BY <2>1, <2>5 DEF Stops
  <2>7. ASSUME NEW j \in Stops(u, m)
        PROVE  g <= j
    <3>1. j \in Index /\ u[Probe(m, j)].key \in {m, 0}
      BY DEF Stops
    <3>2. Probe(m, j) # p
      BY <1>1, <1>3, <2>4, <3>1
    <3>3. Probe(m, j) \in Index
      BY <2>2, <3>1, ProbeIndex
    <3>4. j \in Stops(t, m)
      BY <1>3, <3>1, <3>2, <3>3 DEF Stops
    <3> QED
      BY <2>5, <3>4
  <2>8. HasRoom(u, m) /\ Place(u, m) = Probe(m, g)
    BY <2>2, <2>6, <2>7, PlaceIs
  <2> QED
    BY <2>1, <2>5, <2>8
<1> QED
  BY <1>5, <1>6

\* An empty table has nothing that could be out of reach.
LEMMA EmptyTableSound == EmptyTable \in Table /\ Sound(EmptyTable)
<1>1. LongRange - 1 \in Nat /\ Blank \in Record
  BY HashAssumption DEF Blank, Record
<1> QED
  BY <1>1 DEF EmptyTable, EmptySlot, Sound, Table, Slot

-----------------------------------------------------------------------------
(* Type correctness *)

LEMMA FileType ==
  /\ \A f \in File : f.valid \in BOOLEAN /\ f.head \in Record /\ f.slot \in Table
  /\ \A f \in File, t \in Table : [f EXCEPT !.slot = t] \in File
  /\ \A f \in File, r \in Record : [f EXCEPT !.head = r] \in File
  /\ \A f \in File, b \in BOOLEAN : [f EXCEPT !.valid = b] \in File
  /\ NewFile \in File /\ NewFile.slot = EmptyTable
  /\ \A f \in File : f # NoFile
<1>1. Blank \in Record
  BY HashAssumption DEF Blank, Record
<1> QED
  BY <1>1, EmptyTableSound, NoFileAssumption DEF File, NewFile, Table, Slot

\* What a read leaves in its result is a record.
LEMMA DataReadType == ASSUME NEW t \in Table, NEW k \in Nat
                      PROVE  DataRead(t, k) \in Record
<1>1. Slots - 1 \in Index
  BY HashAssumption DEF Index
<1>2. Probe(k, Slots - 1) \in Index
  BY <1>1, ProbeIndex
<1>3. HasRoom(t, k) => Place(t, k) \in Index
  BY FirstStops
<1> QED
  BY <1>2, <1>3 DEF DataRead, Table, Slot

\* A code in use can be the key of a slot.
LEMMA KeyType == ASSUME NEW k \in Key
                 PROVE  k \in 1..(LongRange - 1) /\ k \in 0..(LongRange - 1)
                        /\ k \in Nat /\ k # CountKey
BY HashAssumption DEF CountKey

\* The sets that TypeOK names, as the steps below use them.
LEMMA TypeFacts ==
  ASSUME TypeOK
  PROVE  /\ live \in File \cup {NoFile}
         /\ rehash \in File \cup {NoFile}
         /\ bak \in File \cup {NoFile}
BY DEF TypeOK

\* While a call is using the database, and while it copies, the files are there.
Present == /\ pc \in {"create", "reading", "open", "copy", "rename", "reopen",
                      "remove"} => live # NoFile
           /\ pc \in {"copy", "rename", "swap"} => rehash # NoFile

TypeInv == TypeOK /\ Present

LEMMA EmptyLimits == {} \in Cleaners \cup {{}}
OBVIOUS

LEMMA TypeInit == Init => TypeInv
<1> SUFFICES ASSUME Init PROVE TypeInv
  OBVIOUS
<1>1. cleaner \in Cleaners \cup {{}} /\ cursor \in 0..Slots
  BY HashAssumption, EmptyLimits DEF Init
<1> QED
  BY <1>1 DEF Init, TypeInv, TypeOK, Present

LEMMA TypeStep == TypeInv /\ [Next]_vars => TypeInv'
<1> SUFFICES ASSUME TypeOK, Present, [Next]_vars
             PROVE  TypeOK' /\ Present'
  BY DEF TypeInv
<1> USE TypeFacts
<1>0. Slots \in Nat \ {0} /\ 0 \in Count /\ Count \subseteq Nat
  BY HashAssumption
<1>1. CASE \E stage \in {"open", "reading"} : Open(stage)
  BY <1>1 DEF Open, TypeOK, Present
<1>2. CASE Create
  BY <1>2, FileType DEF Create, TypeOK, Present
<1>3. CASE InitializeHeaderRecords
  <2>1. live \in File
    BY <1>3 DEF InitializeHeaderRecords, Present
  <2>2. live' \in File /\ live' # NoFile
    BY <1>3, <2>1, FileType DEF InitializeHeaderRecords
  <2> QED
    BY <1>3, <2>2 DEF InitializeHeaderRecords, TypeOK, Present
<1>4. CASE OpenRefused
  BY <1>4 DEF OpenRefused, TypeOK, Present
<1>5. ASSUME NEW k \in Key \cup {CountKey}, ReadWord(k)
      PROVE  TypeOK' /\ Present'
  <2>1. live \in File
    BY <1>5 DEF ReadWord, Present
  <2>2. k \in Nat
    BY KeyType DEF CountKey
  <2>3. live.head.n \in Count /\ DataRead(live.slot, k).n \in Count
    BY <2>1, <2>2, FileType, DataReadType DEF Record
  <2>4. last' \in Call
    BY <1>5, <2>3 DEF ReadWord, Answer, Call
  <2> QED
    BY <1>5, <2>4 DEF ReadWord, TypeOK, Present
<1>6. ASSUME NEW k \in Key \cup {CountKey}, NEW r \in Record, WriteWord(k, r)
      PROVE  TypeOK' /\ Present'
  <2>1. live \in File
    BY <1>6 DEF WriteWord, Present
  <2>2. live' \in File /\ live' # NoFile
    <3>1. CASE k = CountKey
      BY <1>6, <2>1, <3>1, FileType DEF WriteWord
    <3>2. CASE k # CountKey
      <4>1. k \in 0..(LongRange - 1)
        BY <3>2, KeyType
      <4>2. HasRoom(live.slot, k) /\ live' = [live EXCEPT !.slot = Put(@, k, r)]
        BY <1>6, <3>2 DEF WriteWord
      <4>3. Put(live.slot, k, r) \in Table
        BY <2>1, <4>1, <4>2, FileType, PutType
      <4> QED
        BY <2>1, <4>2, <4>3, FileType
    <3> QED
      BY <3>1, <3>2
  <2>3. last' \in Call
    BY <1>6 DEF WriteWord, Answer, Call, Record
  <2> QED
    BY <1>6, <2>2, <2>3 DEF WriteWord, TypeOK, Present
<1>7. ASSUME NEW k \in Key, WriteFails(k)
      PROVE  TypeOK' /\ Present'
  BY <1>7 DEF WriteFails, TypeOK, Present, Full
<1>8. CASE WriteFaults
  BY <1>8 DEF WriteFaults, TypeOK, Present
<1>9. ASSUME NEW limits \in Cleaners, StartSweep(limits)
      PROVE  TypeOK' /\ Present'
  <2>1. live \in File
    BY <1>9 DEF StartSweep, Present
  <2>2. rehash' \in File /\ rehash' # NoFile
    BY <1>9, <2>1, FileType DEF StartSweep
  <2> QED
    BY <1>0, <1>9, <2>2 DEF StartSweep, TypeOK, Present
<1>10. CASE CopySlot
  <2>1. live \in File /\ rehash \in File
    BY <1>10 DEF CopySlot, Present
  <2>2. rehash' \in File /\ rehash' # NoFile
    <3> DEFINE s == live.slot[cursor]
    <3>1. cursor \in Index
      BY <1>0, <1>10 DEF CopySlot, TypeOK, Index
    <3>2. s.key \in 0..(LongRange - 1) /\ s.rec \in Record
      BY <2>1, <3>1, FileType DEF Table, Slot
    <3>3. CASE Keeps(s) /\ HasRoom(rehash.slot, s.key)
      <4>1. Put(rehash.slot, s.key, s.rec) \in Table
        BY <2>1, <3>2, <3>3, FileType, PutType
      <4>2. rehash' = [rehash EXCEPT !.slot = Put(rehash.slot, s.key, s.rec)]
        BY <1>10, <3>3 DEF CopySlot
      <4> QED
        BY <2>1, <4>1, <4>2, FileType
    <3>4. CASE ~(Keeps(s) /\ HasRoom(rehash.slot, s.key))
      BY <1>10, <2>1, <3>4, FileType DEF CopySlot
    <3> QED
      BY <3>3, <3>4
  <2>3. cursor' \in 0..Slots
    BY <1>0, <1>10 DEF CopySlot, TypeOK
  <2> QED
    BY <1>10, <2>2, <2>3 DEF CopySlot, TypeOK, Present
<1>11. CASE EndCopy
  BY <1>11 DEF EndCopy, TypeOK, Present
<1>12. CASE RenameLive
  BY <1>12 DEF RenameLive, TypeOK, Present
<1>13. CASE RenameRehash
  BY <1>13 DEF RenameRehash, TypeOK, Present
<1>14. CASE RenameFails
  <2>1. cleaner' \in Cleaners \cup {{}} /\ cursor' \in 0..Slots
    BY <1>0, <1>14, EmptyLimits DEF RenameFails, SweepOver
  <2> QED
    BY <1>14, <2>1 DEF RenameFails, TypeOK, Present
<1>15. CASE Reopen
  BY <1>15 DEF Reopen, TypeOK, Present
<1>16. CASE RemoveBak
  <2>1. cleaner' \in Cleaners \cup {{}} /\ cursor' \in 0..Slots
    BY <1>0, <1>16, EmptyLimits DEF RemoveBak, SweepOver
  <2> QED
    BY <1>16, <2>1 DEF RemoveBak, TypeOK, Present
<1>17. CASE Exit
  <2>1. cut' \in BOOLEAN
    BY <1>17 DEF Exit, TypeOK
  <2>2. cleaner' \in Cleaners \cup {{}} /\ cursor' \in 0..Slots
    BY <1>0, <1>17, EmptyLimits DEF Exit, SweepOver
  <2>3. {live', rehash', bak'} \subseteq File \cup {NoFile}
    BY <1>17 DEF Exit
  <2> QED
    BY <1>17, <2>1, <2>2, <2>3 DEF Exit, TypeOK, Present
<1>18. CASE UNCHANGED vars
  BY <1>18 DEF vars, TypeOK, Present
<1> QED
  BY <1>1, <1>2, <1>3, <1>4, <1>5, <1>6, <1>7, <1>8, <1>9, <1>10, <1>11,
     <1>12, <1>13, <1>14, <1>15, <1>16, <1>17, <1>18 DEF Next

\* The state of the file keeps its shape, whatever the hash codes are.
THEOREM TypeCorrect == Spec => []TypeOK
<1>1. Init => TypeInv
  BY TypeInit
<1>2. TypeInv => TypeOK
  BY DEF TypeInv
<1> QED
  BY <1>1, <1>2, TypeStep, PTL DEF Spec

-----------------------------------------------------------------------------
(* Every record is found *)

SoundFile(f) == f # NoFile => Sound(f.slot)

LEMMA EveryRecordFoundMeans ==
  EveryRecordFound <=> SoundFile(live) /\ SoundFile(rehash) /\ SoundFile(bak)
BY DEF EveryRecordFound, SoundFile

\* Only a write and the copying loop put records into a file.
LEMMA FoundStep ==
  ASSUME WideEnough, TypeInv, EveryRecordFound, [Next]_vars
  PROVE  SoundFile(live)' /\ SoundFile(rehash)' /\ SoundFile(bak)'
<1> USE EveryRecordFoundMeans
<1>0. TypeOK /\ Present
  BY DEF TypeInv
<1>1. CASE \E stage \in {"open", "reading"} : Open(stage)
  BY <1>1 DEF Open, SoundFile
<1>2. CASE Create
  BY <1>2, FileType, EmptyTableSound DEF Create, SoundFile
<1>3. CASE InitializeHeaderRecords
  <2>1. live \in File /\ live # NoFile
    BY <1>0, <1>3, TypeFacts DEF InitializeHeaderRecords, Present
  <2>2. live'.slot = live.slot
    BY <1>3, <2>1 DEF InitializeHeaderRecords, File
  <2> QED
    BY <1>3, <2>1, <2>2 DEF InitializeHeaderRecords, SoundFile
<1>4. CASE OpenRefused
  BY <1>4 DEF OpenRefused, SoundFile
<1>5. CASE \E k \in Key \cup {CountKey} : ReadWord(k)
  BY <1>5 DEF ReadWord, SoundFile
<1>6. ASSUME NEW k \in Key \cup {CountKey}, NEW r \in Record, WriteWord(k, r)
      PROVE  SoundFile(live)' /\ SoundFile(rehash)' /\ SoundFile(bak)'
  <2>1. live \in File /\ live # NoFile
    BY <1>0, <1>6, TypeFacts DEF WriteWord, Present
  <2>2. Sound(live'.slot)
    <3>1. CASE k = CountKey
      <4>1. live'.slot = live.slot
        BY <1>6, <2>1, <3>1 DEF WriteWord, File
      <4> QED
        BY <2>1, <4>1 DEF SoundFile
    <3>2. CASE k # CountKey
      <4>1. k \in 1..(LongRange - 1)
        BY <3>2, KeyType
      <4>2. HasRoom(live.slot, k) /\ live' = [live EXCEPT !.slot = Put(@, k, r)]
        BY <1>6, <3>2 DEF WriteWord
      <4>3. live.slot \in Table /\ Sound(live.slot)
        BY <2>1, FileType DEF SoundFile
      <4>4. Sound(Put(live.slot, k, r))
        BY <4>1, <4>2, <4>3, PutSound
      <4>5. live'.slot = Put(live.slot, k, r)
        BY <2>1, <4>2 DEF File
      <4> QED
        BY <4>4, <4>5
    <3> QED
      BY <3>1, <3>2
  <2> QED
    BY <1>6, <2>2 DEF WriteWord, SoundFile
<1>7. CASE \E k \in Key : WriteFails(k)
  BY <1>7 DEF WriteFails, SoundFile
<1>8. CASE WriteFaults
  BY <1>8 DEF WriteFaults, SoundFile
<1>9. ASSUME NEW limits \in Cleaners, StartSweep(limits)
      PROVE  SoundFile(live)' /\ SoundFile(rehash)' /\ SoundFile(bak)'
  <2>1. rehash'.slot = EmptyTable
    BY <1>9, FileType DEF StartSweep, NewFile
  <2> QED
    BY <1>9, <2>1, EmptyTableSound DEF StartSweep, SoundFile
<1>10. CASE CopySlot
  <2>1. live \in File /\ rehash \in File /\ rehash # NoFile
    BY <1>0, <1>10, TypeFacts DEF CopySlot, Present
  <2> DEFINE s == live.slot[cursor]
  <2>2. cursor \in Index
    BY <1>0, <1>10, HashAssumption DEF CopySlot, TypeOK, Index
  <2>3. s.key \in 0..(LongRange - 1) /\ s.rec \in Record
    BY <2>1, <2>2, FileType DEF Table, Slot
  <2>4. rehash.slot \in Table /\ Sound(rehash.slot)
    BY <2>1, FileType DEF SoundFile
  <2>5. Sound(rehash'.slot)
    <3>1. CASE Keeps(s) /\ HasRoom(rehash.slot, s.key)
      <4>1. s.key \in 1..(LongRange - 1)
        BY <2>3, <3>1, HashAssumption DEF Keeps
      <4>2. Sound(Put(rehash.slot, s.key, s.rec))
        BY <2>3, <2>4, <3>1, <4>1, PutSound
      <4>3. rehash' = [rehash EXCEPT !.slot = Put(rehash.slot, s.key, s.rec)]
        BY <1>10, <3>1 DEF CopySlot
      <4>4. rehash'.slot = Put(rehash.slot, s.key, s.rec)
        BY <2>1, <4>3 DEF File
      <4> QED
        BY <4>2, <4>4
    <3>2. CASE ~(Keeps(s) /\ HasRoom(rehash.slot, s.key))
      BY <1>10, <2>4, <3>2 DEF CopySlot
    <3> QED
      BY <3>1, <3>2
  <2> QED
    BY <1>10, <2>5 DEF CopySlot, SoundFile
<1>11. CASE EndCopy
  BY <1>11 DEF EndCopy, SoundFile
<1>12. CASE RenameLive
  BY <1>12 DEF RenameLive, SoundFile
<1>13. CASE RenameRehash
  BY <1>13 DEF RenameRehash, SoundFile
<1>14. CASE RenameFails
  BY <1>14 DEF RenameFails, SoundFile
<1>15. CASE Reopen
  BY <1>15 DEF Reopen, SoundFile
<1>16. CASE RemoveBak
  BY <1>16 DEF RemoveBak, SoundFile
<1>17. CASE Exit
  <2>1. bak' \in {bak, NoFile}
    BY <1>17 DEF Exit
  <2> QED
    BY <1>17, <2>1 DEF Exit, SoundFile
<1>18. CASE UNCHANGED vars
  BY <1>18 DEF vars, SoundFile
<1> QED
  BY <1>1, <1>2, <1>3, <1>4, <1>5, <1>6, <1>7, <1>8, <1>9, <1>10, <1>11,
     <1>12, <1>13, <1>14, <1>15, <1>16, <1>17, <1>18 DEF Next

\* Where a hash code fits the bytes it is stored in, probing finds every record
\* of every file, whatever was written, swept, failed or killed before.
THEOREM RecordsAlwaysFound == ASSUME WideEnough
                              PROVE  Spec => []EveryRecordFound
<1>1. Init => TypeInv
  BY TypeInit
<1>2. Init => EveryRecordFound
  BY DEF Init, EveryRecordFound
<1>3. TypeInv /\ EveryRecordFound /\ [Next]_vars => EveryRecordFound'
  <2> SUFFICES ASSUME TypeInv, EveryRecordFound, [Next]_vars
               PROVE  EveryRecordFound'
    OBVIOUS
  <2>1. SoundFile(live)' /\ SoundFile(rehash)' /\ SoundFile(bak)'
    BY FoundStep
  <2> QED
    BY <2>1 DEF EveryRecordFound, SoundFile
<1> QED
  BY <1>1, <1>2, <1>3, TypeStep, PTL DEF Spec

-----------------------------------------------------------------------------
(* No room means no room *)

\* The last call failed for want of room, and the file has not changed since.
FullInv == last.op = "full" =>
             /\ live # NoFile
             /\ pc \in {"closed", "reading", "open"}
             /\ last.key \in Key
             /\ ~HasRoom(live.slot, last.key)

LEMMA FullStep == ASSUME TypeInv, FullInv, [Next]_vars
                  PROVE  FullInv'
<1> USE DEF FullInv, NoCall
<1>1. CASE \E stage \in {"open", "reading"} : Open(stage)
  BY <1>1 DEF Open
<1>2. CASE Create
  BY <1>2 DEF Create
<1>3. CASE InitializeHeaderRecords
  BY <1>3 DEF InitializeHeaderRecords
<1>4. CASE OpenRefused
  BY <1>4 DEF OpenRefused
<1>5. CASE \E k \in Key \cup {CountKey} : ReadWord(k)
  BY <1>5 DEF ReadWord, Answer
<1>6. CASE \E k \in Key \cup {CountKey}, r \in Record : WriteWord(k, r)
  BY <1>6 DEF WriteWord, Answer
<1>7. ASSUME NEW k \in Key, WriteFails(k)
      PROVE  FullInv'
  BY <1>7 DEF WriteFails, TypeInv, Present
<1>8. CASE WriteFaults
  BY <1>8 DEF WriteFaults
<1>9. CASE \E limits \in Cleaners : StartSweep(limits)
  BY <1>9 DEF StartSweep
<1>10. CASE CopySlot \/ EndCopy \/ RenameLive \/ Reopen \/ RemoveBak
  BY <1>10 DEF CopySlot, EndCopy, RenameLive, Reopen, RemoveBak
<1>11. CASE RenameRehash \/ RenameFails \/ Exit
  BY <1>11 DEF RenameRehash, RenameFails, Exit
<1>12. CASE UNCHANGED vars
  BY <1>12 DEF vars
<1> QED
  BY <1>1, <1>2, <1>3, <1>4, <1>5, <1>6, <1>7, <1>8, <1>9, <1>10, <1>11,
     <1>12 DEF Next

\* A write is refused only by a file that is full and does not hold the word:
\* probing gives up no slot of the file.
THEOREM FullOnlyWhenFull == Spec => []FullMeansFull
<1>1. Init => TypeInv /\ FullInv
  BY TypeInit DEF Init, FullInv, NoCall
<1>2. TypeInv /\ FullInv /\ [Next]_vars => FullInv'
  BY FullStep
<1>3. FullInv => FullMeansFull
  <2> SUFFICES ASSUME FullInv, last.op = "full", NEW i \in Index
               PROVE  live.slot[i].key \notin {0, last.key}
    BY DEF FullMeansFull
  <2>1. last.key \in Nat /\ Stops(live.slot, last.key) = {}
    BY KeyType DEF FullInv, HasRoom
  <2>2. PICK j \in Index : Probe(last.key, j) = i
    BY <2>1, ProbeAll
  <2> QED
    BY <2>1, <2>2 DEF Stops
<1> QED
  BY <1>1, <1>2, <1>3, TypeStep, PTL DEF Spec

-----------------------------------------------------------------------------
(* What a table answers *)

\* Probing for a word finds its record if the table has one.
LEMMA HoldsMeans ==
  ASSUME NEW t \in Table, Sound(t), NEW k \in Nat, k # 0
  PROVE  /\ Holds(t, k) <=> \E i \in Index : t[i].key = k
         /\ \A i \in Index : t[i].key = k => Place(t, k) = i
<1>1. ASSUME NEW i \in Index, t[i].key = k
      PROVE  Holds(t, k) /\ Place(t, k) = i
  BY <1>1 DEF Sound, Holds
<1>2. ASSUME Holds(t, k)
      PROVE  \E i \in Index : t[i].key = k
  <2>1. HasRoom(t, k) /\ t[Place(t, k)].key = k
    BY <1>2 DEF Holds
  <2>2. Place(t, k) \in Index
    BY <2>1, FirstStops
  <2> QED
    BY <2>1, <2>2
<1> QED
  BY <1>1, <1>2

\* A free slot is room for every word.
LEMMA FreeRoom == ASSUME NEW t, NEW i \in Index, t[i].key = 0, NEW k \in Nat
                  PROVE  HasRoom(t, k)
<1>1. PICK j \in Index : Probe(k, j) = i
  BY ProbeAll
<1>2. j \in Stops(t, k)
  BY <1>1 DEF Stops
<1> QED
  BY <1>2 DEF HasRoom

\* A write changes the answer for its word and for no other.
LEMMA PutHolds ==
  ASSUME WideEnough, NEW t \in Table, Sound(t), NEW k \in 1..(LongRange - 1),
         NEW r \in Record, HasRoom(t, k)
  PROVE  /\ Holds(Put(t, k, r), k)
         /\ Put(t, k, r)[Place(Put(t, k, r), k)].rec = r
         /\ \A m \in Nat : m # 0 /\ m # k =>
              /\ Holds(Put(t, k, r), m) <=> Holds(t, m)
              /\ Holds(t, m) =>
                   Put(t, k, r)[Place(Put(t, k, r), m)].rec = t[Place(t, m)].rec
<1> DEFINE p == Place(t, k)
           u == Put(t, k, r)
<1>1. k \in Nat /\ k # 0 /\ k \in 0..(LongRange - 1)
  BY HashAssumption
<1>2. p \in Index /\ t[p].key \in {k, 0}
  BY <1>1, FirstStops
<1>3. /\ u[p].key = k /\ u[p].rec = r
      /\ \A i \in Index : i # p => u[i] = t[i]
  BY <1>1, <1>2, AsReadSame DEF Put, Table
<1>4. u \in Table /\ Sound(u)
  BY <1>1, PutType, PutSound
<1> HIDE DEF p, u
<1>5. Holds(u, k) /\ Place(u, k) = p
  BY <1>1, <1>2, <1>3, <1>4, HoldsMeans
<1>6. ASSUME NEW m \in Nat, m # 0, m # k
      PROVE  /\ Holds(u, m) <=> Holds(t, m)
             /\ Holds(t, m) => u[Place(u, m)].rec = t[Place(t, m)].rec
  <2>1. \A i \in Index : u[i].key = m <=> t[i].key = m
    BY <1>2, <1>3, <1>6
  <2>2. Holds(u, m) <=> Holds(t, m)
    BY <1>4, <1>6, <2>1, HoldsMeans
  <2>3. ASSUME Holds(t, m)
        PROVE  u[Place(u, m)].rec = t[Place(t, m)].rec
    <3>1. PICK i \in Index : t[i].key = m
      BY <1>6, <2>3, HoldsMeans
    <3>2. Place(t, m) = i /\ Place(u, m) = i
      BY <1>4, <1>6, <2>1, <3>1, HoldsMeans
    <3>3. i # p
      BY <1>2, <1>6, <3>1
    <3> QED
      BY <1>3, <3>2, <3>3
  <2> QED
    BY <2>2, <2>3
<1> QED
  BY <1>3, <1>5, <1>6 DEF u

-----------------------------------------------------------------------------
(* What the files hold during a sweep *)

\* A free slot has no counts left from anything.
BlankFile(f) == f # NoFile =>
  \A i \in Index : f.slot[i].key = 0 => f.slot[i].rec = Blank

\* The file a sweep builds has nothing that the swept file f has not.
CopyOf(f) ==
  /\ rehash.head = f.head
  /\ \A i \in Index : rehash.slot[i].key # 0 =>
       \E j \in Index : f.slot[j] = rehash.slot[i]

Blanks == BlankFile(live) /\ BlankFile(rehash) /\ BlankFile(bak)

Stages == /\ live = NoFile \/ pc \in {"copy", "rename"} => last = NoCall
          /\ live = NoFile /\ pc # "swap" => cut \/ bak = NoFile
          /\ pc = "swap" => live = NoFile /\ bak # NoFile
          /\ pc \in {"copy", "rename"} => CopyOf(live)
          /\ pc = "swap" => CopyOf(bak)

FoundInv == TypeInv /\ EveryRecordFound /\ Blanks

LEMMA PutBlank ==
  ASSUME WideEnough, NEW f \in File, BlankFile(f), NEW k \in 1..(LongRange - 1),
         NEW r \in Record, HasRoom(f.slot, k)
  PROVE  BlankFile([f EXCEPT !.slot = Put(f.slot, k, r)])
<1> DEFINE t == f.slot
           u == Put(t, k, r)
<1>1. k \in Nat /\ k # 0 /\ k \in 0..(LongRange - 1) /\ t \in Table
  BY FileType, HashAssumption
<1>2. Place(t, k) \in Index
  BY <1>1, FirstStops
<1>3. u[Place(t, k)].key = k /\ \A i \in Index : i # Place(t, k) => u[i] = t[i]
  BY <1>1, <1>2, AsReadSame DEF Put, Table
<1>4. [f EXCEPT !.slot = u].slot = u
  BY DEF File
<1> HIDE DEF u
<1>5. \A i \in Index : u[i].key = 0 => u[i].rec = Blank
  BY <1>1, <1>3, FileType DEF BlankFile
<1> QED
  BY <1>4, <1>5 DEF BlankFile, u

LEMMA BlanksStep ==
  ASSUME WideEnough, FoundInv, [Next]_vars
  PROVE  BlankFile(live)' /\ BlankFile(rehash)' /\ BlankFile(bak)'
<1> USE DEF Blanks
<1>0. TypeOK /\ Present /\ Blanks
  BY DEF FoundInv, TypeInv
<1>1. CASE \E stage \in {"open", "reading"} : Open(stage)
  BY <1>0, <1>1 DEF Open, BlankFile
<1>e. \A f : f.slot = EmptyTable => BlankFile(f)
  BY DEF BlankFile, EmptyTable, EmptySlot
<1>2. CASE Create
  BY <1>0, <1>2, <1>e, FileType DEF Create, BlankFile
<1>3. CASE InitializeHeaderRecords
  <2>1. live \in File /\ live # NoFile
    BY <1>0, <1>3, TypeFacts DEF InitializeHeaderRecords, Present
  <2>2. live'.slot = live.slot
    BY <1>3, <2>1 DEF InitializeHeaderRecords, File
  <2> QED
    BY <1>0, <1>3, <2>1, <2>2 DEF InitializeHeaderRecords, BlankFile
<1>4. CASE OpenRefused
  BY <1>0, <1>4 DEF OpenRefused, BlankFile
<1>5. CASE \E k \in Key \cup {CountKey} : ReadWord(k)
  BY <1>0, <1>5 DEF ReadWord, BlankFile
<1>6. ASSUME NEW k \in Key \cup {CountKey}, NEW r \in Record, WriteWord(k, r)
      PROVE  BlankFile(live)' /\ BlankFile(rehash)' /\ BlankFile(bak)'
  <2>1. live \in File /\ live # NoFile
    BY <1>0, <1>6, TypeFacts DEF WriteWord, Present
  <2>2. BlankFile(live')
    <3>1. CASE k = CountKey
      <4>1. live'.slot = live.slot
        BY <1>6, <2>1, <3>1 DEF WriteWord, File
      <4> QED
        BY <1>0, <2>1, <4>1 DEF BlankFile
    <3>2. CASE k # CountKey
      <4>1. k \in 1..(LongRange - 1)
        BY <3>2, KeyType
      <4>2. /\ HasRoom(live.slot, k)
            /\ live' = [live EXCEPT !.slot = Put(live.slot, k, r)]
        BY <1>6, <3>2 DEF WriteWord
      <4> QED
        BY <1>0, <2>1, <4>1, <4>2, PutBlank
    <3> QED
      BY <3>1, <3>2
  <2> QED
    BY <1>0, <1>6, <2>2 DEF WriteWord, BlankFile
<1>7. CASE \E k \in Key : WriteFails(k)
  BY <1>0, <1>7 DEF WriteFails, BlankFile
<1>8. CASE WriteFaults
  BY <1>0, <1>8 DEF WriteFaults, BlankFile
<1>9. ASSUME NEW limits \in Cleaners, StartSweep(limits)
      PROVE  BlankFile(live)' /\ BlankFile(rehash)' /\ BlankFile(bak)'
  <2>1. rehash'.slot = EmptyTable
    BY <1>9, FileType DEF StartSweep, NewFile
  <2> QED
    BY <1>0, <1>9, <1>e, <2>1 DEF StartSweep, BlankFile
<1>10. CASE CopySlot
  <2>1. live \in File /\ rehash \in File /\ rehash # NoFile
    BY <1>0, <1>10, TypeFacts DEF CopySlot, Present
  <2> DEFINE s == live.slot[cursor]
  <2>2. cursor \in Index
    BY <1>0, <1>10, HashAssumption DEF CopySlot, TypeOK, Index
  <2>3. s.key \in 0..(LongRange - 1) /\ s.rec \in Record
    BY <2>1, <2>2, FileType DEF Table, Slot
  <2>4. BlankFile(rehash')
    <3>1. CASE Keeps(s) /\ HasRoom(rehash.slot, s.key)
      <4>1. s.key \in 1..(LongRange - 1)
        BY <2>3, <3>1, HashAssumption DEF Keeps
      <4>2. rehash' = [rehash EXCEPT !.slot = Put(rehash.slot, s.key, s.rec)]
        BY <1>10, <3>1 DEF CopySlot
      <4> QED
        BY <1>0, <2>1, <2>3, <3>1, <4>1, <4>2, PutBlank
    <3>2. CASE ~(Keeps(s) /\ HasRoom(rehash.slot, s.key))
      BY <1>0, <1>10, <3>2 DEF CopySlot
    <3> QED
      BY <3>1, <3>2
  <2> QED
    BY <1>0, <1>10, <2>4 DEF CopySlot, BlankFile
<1>11. CASE EndCopy \/ Reopen
  BY <1>0, <1>11 DEF EndCopy, Reopen, BlankFile
<1>12. CASE RenameLive \/ RenameRehash \/ RenameFails \/ RemoveBak
  BY <1>0, <1>12 DEF RenameLive, RenameRehash, RenameFails, RemoveBak, BlankFile
<1>13. CASE Exit
  <2>1. bak' \in {bak, NoFile}
    BY <1>13 DEF Exit
  <2> QED
    BY <1>0, <1>13, <2>1 DEF Exit, BlankFile
<1>14. CASE UNCHANGED vars
  BY <1>0, <1>14 DEF vars, BlankFile
<1> QED
  BY <1>1, <1>2, <1>3, <1>4, <1>5, <1>6, <1>7, <1>8, <1>9, <1>10, <1>11,
     <1>12, <1>13, <1>14 DEF Next

\* A slot that is copied is a slot of the file it is copied from.
LEMMA CopySlotCopies ==
  ASSUME WideEnough, TypeInv, CopyOf(live), CopySlot
  PROVE  CopyOf(live)'
<1>1. live \in File /\ rehash \in File /\ rehash # NoFile
  BY TypeFacts DEF CopySlot, Present, TypeInv
<1> DEFINE s == live.slot[cursor]
           t == rehash.slot
<1>2. cursor \in Index
  BY HashAssumption DEF CopySlot, TypeInv, TypeOK, Index
<1>3. s.key \in 0..(LongRange - 1) /\ s.rec \in Record /\ t \in Table
      /\ s = [key |-> s.key, rec |-> s.rec]
  BY <1>1, <1>2, FileType DEF Table, Slot
<1>4. live' = live
  BY DEF CopySlot
<1>5. CASE Keeps(s) /\ HasRoom(t, s.key)
  <2> DEFINE u == Put(t, s.key, s.rec)
  <2>1. s.key \in Nat
    BY <1>3, HashAssumption
  <2>2. Place(t, s.key) \in Index
    BY <1>5, <2>1, FirstStops
  <2>3. /\ u[Place(t, s.key)] = s
        /\ \A i \in Index : i # Place(t, s.key) => u[i] = t[i]
    BY <1>3, <2>2, AsReadSame DEF Put, Table
  <2>4. rehash' = [rehash EXCEPT !.slot = u]
    BY <1>5 DEF CopySlot
  <2>5. rehash'.slot = u /\ rehash'.head = rehash.head
    BY <1>1, <2>4 DEF File
  <2> HIDE DEF u, s
  <2>6. \A i \in Index : u[i].key # 0 => \E j \in Index : live.slot[j] = u[i]
    BY <1>2, <2>3 DEF CopyOf, s
  <2> QED
    BY <1>4, <2>5, <2>6 DEF CopyOf
<1>6. CASE ~(Keeps(s) /\ HasRoom(t, s.key))
  BY <1>4, <1>6 DEF CopySlot, CopyOf
<1> QED
  BY <1>5, <1>6

LEMMA StagesStep ==
  ASSUME WideEnough, TypeInv, Stages, [Next]_vars
  PROVE  Stages'
<1>0. TypeOK /\ Present
  BY DEF TypeInv
<1>1. CASE \E stage \in {"open", "reading"} : Open(stage)
  BY <1>1 DEF Open, Stages
<1>2. CASE Create
  BY <1>2, FileType DEF Create, Stages
<1>3. CASE InitializeHeaderRecords
  <2>1. live' # NoFile
    BY <1>0, <1>3, FileType, TypeFacts DEF InitializeHeaderRecords, Present
  <2> QED
    BY <1>3, <2>1 DEF InitializeHeaderRecords, Stages
<1>4. CASE OpenRefused
  BY <1>4 DEF OpenRefused, Stages
<1>5. CASE \E k \in Key \cup {CountKey} : ReadWord(k)
  BY <1>0, <1>5 DEF ReadWord, Stages, Present
<1>6. ASSUME NEW k \in Key \cup {CountKey}, NEW r \in Record, WriteWord(k, r)
      PROVE  Stages'
  <2>1. TypeInv'
    BY <1>6, TypeStep DEF Next
  <2>2. live' # NoFile
    BY <1>6, <2>1 DEF WriteWord, TypeInv, Present
  <2> QED
    BY <1>6, <2>2 DEF WriteWord, Stages
<1>7. CASE \E k \in Key : WriteFails(k)
  BY <1>0, <1>7 DEF WriteFails, Stages, Present
<1>8. CASE WriteFaults
  BY <1>0, <1>8 DEF WriteFaults, Stages, Present
<1>9. ASSUME NEW limits \in Cleaners, StartSweep(limits)
      PROVE  Stages'
  <2>1. live \in File /\ live # NoFile
    BY <1>0, <1>9, TypeFacts DEF StartSweep, Present
  <2>2. rehash'.slot = EmptyTable /\ rehash'.head = live.head
    BY <1>9, FileType DEF StartSweep, NewFile
  <2>3. CopyOf(live)'
    BY <1>9, <2>2 DEF StartSweep, CopyOf, EmptyTable, EmptySlot
  <2> QED
    BY <1>9, <2>1, <2>3 DEF StartSweep, Stages
<1>10. CASE CopySlot
  <2>1. CopyOf(live)'
    BY <1>10, CopySlotCopies DEF CopySlot, Stages
  <2> QED
    BY <1>0, <1>10, <2>1 DEF CopySlot, Stages, Present
<1>11. CASE EndCopy
  BY <1>0, <1>11 DEF EndCopy, Stages, Present, CopyOf
<1>12. CASE RenameLive
  <2>1. live # NoFile /\ CopyOf(live)
    BY <1>0, <1>12 DEF RenameLive, Stages, Present
  <2>2. CopyOf(bak)'
    BY <1>12, <2>1 DEF RenameLive, CopyOf
  <2>3. last' = NoCall
    BY <1>12 DEF RenameLive, Stages
  <2> QED
    BY <1>12, <2>1, <2>2, <2>3 DEF RenameLive, Stages
<1>13. CASE RenameRehash
  BY <1>0, <1>13 DEF RenameRehash, Stages, Present
<1>14. CASE RenameFails
  BY <1>14 DEF RenameFails, Stages
<1>15. CASE Reopen
  BY <1>0, <1>15 DEF Reopen, Stages, Present
<1>16. CASE RemoveBak
  BY <1>0, <1>16 DEF RemoveBak, Stages, Present
<1>17. CASE Exit
  BY <1>17 DEF Exit, Stages
<1>18. CASE UNCHANGED vars
  BY <1>18 DEF vars, Stages, CopyOf
<1> QED
  BY <1>1, <1>2, <1>3, <1>4, <1>5, <1>6, <1>7, <1>8, <1>9, <1>10, <1>11,
     <1>12, <1>13, <1>14, <1>15, <1>16, <1>17, <1>18 DEF Next

-----------------------------------------------------------------------------
(* What a step does to the records *)

Words == Key \cup {CountKey}

LEMMA OwnIs == /\ Own = [k \in Words |-> Lookup(Current, k)]
               /\ Own' = [k \in Words |-> Lookup(Current', k)]
BY DEF Own, Words

\* Files with the same records answer alike.
LEMMA LookupSame ==
  ASSUME NEW f \in File, NEW g \in File, f.head = g.head, f.slot = g.slot, NEW k
  PROVE  Lookup(f, k) = Lookup(g, k)
<1>1. f # NoFile /\ g # NoFile
  BY FileType
<1> QED
  BY <1>1 DEF Lookup

\* A write changes the record of its word, which is dropped if it is __COUNT__
\* and has no counts.
LEMMA WriteOwn ==
  ASSUME WideEnough, FoundInv, NEW k \in Words, NEW r \in Record, WriteWord(k, r)
  PROVE  Own' = [Own EXCEPT ![k] = Store!Stored(k, r)]
<1>1. live \in File /\ live # NoFile /\ Current = live
  BY TypeFacts DEF FoundInv, TypeInv, WriteWord, Present, Current
<1>2. TypeInv'
  BY TypeStep DEF FoundInv, Next, Words
<1>3. live' \in File /\ live' # NoFile /\ Current' = live'
  <2>1. live' \in File \cup {NoFile}
    BY <1>2 DEF TypeInv, TypeOK
  <2> QED
    BY <1>2, <2>1 DEF TypeInv, WriteWord, Present, Current
<1>4. CASE k = CountKey
  <2>1. live'.head = r /\ live'.slot = live.slot
    BY <1>1, <1>4 DEF WriteWord, File
  <2>2. Lookup(live', k) = Store!Stored(k, r)
    BY <1>3, <1>4, <2>1 DEF Lookup, Store!Stored
  <2>3. \A m \in Words : m # k => Lookup(live', m) = Lookup(live, m)
    BY <1>1, <1>3, <1>4, <2>1 DEF Lookup
  <2> QED
    BY <1>1, <1>3, <2>2, <2>3, OwnIs
<1>5. CASE k # CountKey
  <2>1. k \in Key /\ k \in 1..(LongRange - 1)
    BY <1>5, KeyType DEF Words
  <2>2. /\ HasRoom(live.slot, k)
        /\ live' = [live EXCEPT !.slot = Put(live.slot, k, r)]
    BY <1>5 DEF WriteWord
  <2>3. live'.head = live.head /\ live'.slot = Put(live.slot, k, r)
    BY <1>1, <2>2 DEF File
  <2>4. live.slot \in Table /\ Sound(live.slot)
    BY <1>1, FileType, EveryRecordFoundMeans DEF FoundInv, SoundFile
  <2>5. Lookup(live', k) = r
    BY <1>3, <1>5, <2>1, <2>2, <2>3, <2>4, PutHolds DEF Lookup
  <2>6. ASSUME NEW m \in Words, m # k
        PROVE  Lookup(live', m) = Lookup(live, m)
    <3>1. CASE m = CountKey
      BY <1>1, <1>3, <2>3, <3>1 DEF Lookup
    <3>2. CASE m # CountKey
      <4>1. m \in Nat /\ m # 0
        BY <3>2, KeyType DEF Words, CountKey
      <4>2. /\ Holds(live'.slot, m) <=> Holds(live.slot, m)
            /\ Holds(live.slot, m) =>
                 live'.slot[Place(live'.slot, m)].rec
                   = live.slot[Place(live.slot, m)].rec
        BY <2>1, <2>2, <2>3, <2>4, <2>6, <4>1, PutHolds
      <4> QED
        BY <1>1, <1>3, <3>2, <4>2 DEF Lookup
    <3> QED
      BY <3>1, <3>2
  <2>7. Store!Stored(k, r) = r
    BY <1>5 DEF Store!Stored
  <2> QED
    BY <1>1, <1>3, <2>5, <2>6, <2>7, OwnIs
<1> QED
  BY <1>4, <1>5

\* The file that takes the place of the live one has no record the old one had
\* not.
LEMMA SweptOwn ==
  ASSUME WideEnough, FoundInv, Stages, RenameRehash
  PROVE  \A k \in Words : Own'[k] \in {None, Own[k]}
<1>1. live = NoFile /\ bak \in File /\ bak # NoFile /\ Current = bak
  BY TypeFacts DEF FoundInv, TypeInv, RenameRehash, Stages, Current
<1>2. rehash \in File /\ rehash # NoFile /\ Current' = rehash
  BY TypeFacts DEF FoundInv, TypeInv, RenameRehash, Present, Current
<1>3. CopyOf(bak)
  BY DEF RenameRehash, Stages
<1>4. /\ bak.slot \in Table /\ Sound(bak.slot)
      /\ rehash.slot \in Table /\ Sound(rehash.slot)
  BY <1>1, <1>2, FileType, EveryRecordFoundMeans DEF FoundInv, SoundFile
<1>5. ASSUME NEW k \in Words, Lookup(rehash, k) # None
      PROVE  Lookup(rehash, k) = Lookup(bak, k)
  <2>1. CASE k = CountKey
    BY <1>1, <1>2, <1>3, <2>1 DEF Lookup, CopyOf
  <2>2. CASE k # CountKey
    <3>1. k \in Nat /\ k # 0
      BY <2>2, KeyType DEF Words, CountKey
    <3>2. Holds(rehash.slot, k)
      BY <1>2, <1>5, <2>2 DEF Lookup
    <3>3. PICK i \in Index : rehash.slot[i].key = k
      BY <1>4, <3>1, <3>2, HoldsMeans
    <3>4. Place(rehash.slot, k) = i
      BY <1>4, <3>1, <3>3, HoldsMeans
    <3>5. PICK j \in Index : bak.slot[j] = rehash.slot[i]
      BY <1>3, <3>1, <3>3 DEF CopyOf
    <3>6. Holds(bak.slot, k) /\ Place(bak.slot, k) = j
      BY <1>4, <3>1, <3>3, <3>5, HoldsMeans
    <3> QED
      BY <1>1, <1>2, <2>2, <3>2, <3>4, <3>5, <3>6 DEF Lookup
  <2> QED
    BY <2>1, <2>2
<1> QED
  BY <1>1, <1>2, <1>5, OwnIs

\* Every other step but the creation of a file leaves the records alone.
LEMMA OwnKept ==
  ASSUME FoundInv, Stages, [Next]_vars, ~Create, ~RenameRehash,
         ~\E k \in Words, r \in Record : WriteWord(k, r)
  PROVE  Own' = Own
<1>0. TypeOK /\ Present
  BY DEF FoundInv, TypeInv
<1>1. CASE InitializeHeaderRecords
  <2>1. live \in File /\ live # NoFile /\ Current = live
    BY <1>0, <1>1, TypeFacts DEF InitializeHeaderRecords, Present, Current
  <2>2. live' \in File /\ live'.head = live.head /\ live'.slot = live.slot
    BY <1>1, <2>1, FileType DEF InitializeHeaderRecords, File
  <2>3. Current' = live'
    BY <2>2, FileType DEF Current
  <2>4. \A k \in Words : Lookup(live', k) = Lookup(live, k)
    BY <2>1, <2>2, LookupSame
  <2> QED
    BY <2>1, <2>3, <2>4, OwnIs
<1>2. CASE \/ \E stage \in {"open", "reading"} : Open(stage)
           \/ OpenRefused
           \/ \E k \in Key \cup {CountKey} : ReadWord(k)
           \/ \E k \in Key : WriteFails(k)
           \/ WriteFaults
           \/ \E limits \in Cleaners : StartSweep(limits)
           \/ CopySlot
           \/ EndCopy
           \/ Reopen
           \/ UNCHANGED vars
  <2>1. live' = live /\ bak' = bak
    BY <1>2 DEF Open, OpenRefused, ReadWord, WriteFails, WriteFaults, StartSweep,
                CopySlot, EndCopy, Reopen, vars
  <2> QED
    BY <2>1, OwnIs DEF Current
<1>3. CASE RenameLive
  <2>1. Current' = Current
    BY <1>0, <1>3 DEF RenameLive, Current, Present
  <2> QED
    BY <2>1, OwnIs
<1>4. CASE RenameFails
  <2>1. Current' = Current
    BY <1>4 DEF RenameFails, Current, Stages
  <2> QED
    BY <2>1, OwnIs
<1>5. CASE RemoveBak \/ Exit
  <2>1. Current' = Current
    BY <1>0, <1>5 DEF RemoveBak, Exit, Current, Present
  <2> QED
    BY <2>1, OwnIs
<1> QED
  BY <1>1, <1>2, <1>3, <1>4, <1>5 DEF Next, Words

-----------------------------------------------------------------------------
(* What is kept, and what the file implements *)

LEMMA FoundAlways == ASSUME WideEnough
                     PROVE  Spec => [](FoundInv /\ Stages)
<1>1. Init => FoundInv /\ Stages
  <2> SUFFICES ASSUME Init PROVE FoundInv /\ Stages
    OBVIOUS
  <2>1. live = NoFile /\ rehash = NoFile /\ bak = NoFile /\ pc = "closed"
        /\ last = NoCall
    BY DEF Init
  <2> QED
    BY <2>1, TypeInit DEF FoundInv, Stages, Blanks, BlankFile, EveryRecordFound
<1>2. FoundInv /\ Stages /\ [Next]_vars => (FoundInv /\ Stages)'
  <2> SUFFICES ASSUME FoundInv, Stages, [Next]_vars
               PROVE  FoundInv' /\ Stages'
    OBVIOUS
  <2>1. TypeInv /\ EveryRecordFound
    BY DEF FoundInv
  <2>2. TypeInv' /\ Stages'
    BY <2>1, TypeStep, StagesStep
  <2>3. SoundFile(live)' /\ SoundFile(rehash)' /\ SoundFile(bak)'
    BY <2>1, FoundStep
  <2>4. EveryRecordFound'
    BY <2>3 DEF EveryRecordFound, SoundFile
  <2>5. Blanks'
    BY BlanksStep DEF Blanks
  <2> QED
    BY <2>2, <2>4, <2>5 DEF FoundInv
<1> QED
  BY <1>1, <1>2, PTL DEF Spec

\* A file is created only where there is none to answer from, or after a kill
\* between the two renames.
LEMMA CreateOwn ==
  ASSUME FoundInv, Stages, Create
  PROVE  /\ Own' = [k \in Words |-> None]
         /\ ~cut => Own = [k \in Words |-> None]
<1>1. live' = NewFile /\ NewFile \in File /\ live' # NoFile /\ Current' = live'
  BY FileType DEF Create, Current
<1>2. NewFile.head.n = 0 /\ NewFile.slot = EmptyTable
  BY FileType DEF NewFile, Blank
<1>3. \A k \in Words : ~Holds(EmptyTable, k) \/ k = CountKey
  <2> SUFFICES ASSUME NEW k \in Key PROVE ~Holds(EmptyTable, k)
    BY DEF Words
  <2>1. k \in Nat /\ k # 0
    BY KeyType
  <2> QED
    BY <2>1, EmptyTableSound, HoldsMeans DEF EmptyTable, EmptySlot
<1>4. \A k \in Words : Lookup(live', k) = None
  BY <1>1, <1>2, <1>3 DEF Lookup
<1>5. ~cut => Current = NoFile
  BY DEF Create, Stages, Current
<1>6. ~cut => \A k \in Words : Lookup(Current, k) = None
  BY <1>5 DEF Lookup
<1> QED
  BY <1>1, <1>4, <1>6, OwnIs

\* Records leave a database only by a sweep that ends: not by a rename that
\* fails, not by a full file, and not by a kill except between two renames.
THEOREM KeptAlwaysUntilSwept == ASSUME WideEnough
                                PROVE  Spec => KeptUntilSwept
<1>1. ASSUME FoundInv, Stages, [Next]_vars,
             ~cut', ~(pc = "swap" /\ pc' = "reopen"),
             NEW k \in Key, Own[k] # None
      PROVE  Own'[k] # None
  <2>0. k \in Words
    BY DEF Words
  <2>1. CASE Create
    <3>1. ~cut
      BY <1>1, <2>1 DEF Create
    <3> QED
      BY <1>1, <2>0, <2>1, <3>1, CreateOwn
  <2>2. ASSUME NEW m \in Words, NEW r \in Record, WriteWord(m, r)
        PROVE  Own'[k] # None
    <3>1. Own' = [Own EXCEPT ![m] = Store!Stored(m, r)]
      BY <1>1, <2>2, WriteOwn
    <3>2. k # CountKey /\ r # None
      BY KeyType, HashAssumption
    <3> QED
      BY <1>1, <2>0, <3>1, <3>2, OwnIs DEF Store!Stored
  <2>3. CASE RenameRehash
    BY <1>1, <2>3 DEF RenameRehash
  <2>4. CASE ~Create /\ ~RenameRehash
             /\ ~\E m \in Words, r \in Record : WriteWord(m, r)
    BY <1>1, <2>4, OwnKept
  <2> QED
    BY <2>1, <2>2, <2>3, <2>4
<1>2. FoundInv /\ Stages /\ [Next]_vars
        => [cut' \/ (pc = "swap" /\ pc' = "reopen") \/
            \A k \in Key : Own[k] # None => Own'[k] # None]_vars
  BY <1>1
<1> QED
  BY <1>2, FoundAlways, PTL DEF Spec, KeptUntilSwept

StoreLast == IF last.op \in {"read", "write"}
             THEN [op |-> last.op, word |-> last.key, n |-> last.n]
             ELSE NoCall

LEMMA StoreVars == Store!storeVars = <<Own, Own, StoreLast>>
BY DEF Store!storeVars, StoreLast

\* With a free slot to stop at, a read answers what the word's record says.
LEMMA ReadAnswers ==
  ASSUME FoundInv, HasFreeSlot(live), NEW k \in Words, ReadWord(k)
  PROVE  last' = [op |-> "read", key |-> k,
                  n |-> Store!CountOf(Store!Lookup(k))]
<1>1. live \in File /\ live # NoFile /\ Current = live
  BY TypeFacts DEF FoundInv, TypeInv, ReadWord, Present, Current
<1>2. Store!Lookup(k) = Lookup(live, k)
  <2>1. Store!Lookup(k) = Own[k]
    BY DEF Store!Lookup, Words
  <2> QED
    BY <1>1, <2>1, OwnIs
<1>3. CASE k = CountKey
  <2>1. live.head \in Record /\ live.head # None
    BY <1>1, FileType, HashAssumption
  <2>2. Store!CountOf(Lookup(live, k)) = live.head.n
    BY <1>1, <1>3, <2>1 DEF Lookup, Store!CountOf
  <2> QED
    BY <1>2, <1>3, <2>2 DEF ReadWord, Answer
<1>4. CASE k # CountKey
  <2> DEFINE t == live.slot
  <2>1. k \in Nat /\ k # 0
    BY <1>4, KeyType DEF Words, CountKey
  <2>2. HasRoom(t, k)
    BY <1>1, <2>1, FreeRoom DEF HasFreeSlot
  <2>3. /\ Place(t, k) \in Index
        /\ t[Place(t, k)].key \in {k, 0}
        /\ DataRead(t, k) = t[Place(t, k)].rec
    BY <2>1, <2>2, FirstStops DEF DataRead
  <2>4. t[Place(t, k)].rec # None
    BY <1>1, <2>3, FileType, HashAssumption DEF Table, Slot
  <2>5. ~Holds(t, k) => DataRead(t, k).n = 0
    BY <1>1, <2>2, <2>3 DEF Holds, FoundInv, Blanks, BlankFile, Blank
  <2>6. Store!CountOf(Lookup(live, k)) = DataRead(t, k).n
    BY <1>1, <1>4, <2>3, <2>4, <2>5 DEF Lookup, Store!CountOf
  <2> QED
    BY <1>2, <1>4, <2>6 DEF ReadWord, Answer
<1> QED
  BY <1>3, <1>4

LEMMA StoreInit == Init => Store!Init
<1> SUFFICES ASSUME Init PROVE Store!Init
  OBVIOUS
<1>1. Current = NoFile /\ last = NoCall
  BY DEF Init, Current
<1>2. Own = [k \in Words |-> None]
  BY <1>1, OwnIs DEF Lookup
<1> QED
  BY <1>1, <1>2 DEF Store!Init, Words, NoCall, Store!NoCall

LEMMA StoreStep ==
  ASSUME WideEnough, FoundInv, Stages, [Next]_vars, HasFreeSlot(live)
  PROVE  [Store!Next]_(Store!storeVars)
<1>0. \A k \in Words, r \in Record : Store!Write(k, r) => Store!Next
  BY DEF Store!Next, Words, Record, Store!Record
<1>1. CASE \E k \in Words : ReadWord(k)
  <2>1. PICK k \in Words : ReadWord(k)
    BY <1>1
  <2>2. Own' = Own
    <3>1. live' = live /\ bak' = bak
      BY <2>1 DEF ReadWord
    <3> QED
      BY <3>1, OwnIs DEF Current
  <2>3. StoreLast' = [op |-> "read", word |-> k,
                      n |-> Store!CountOf(Store!Lookup(k))]
    BY <2>1, ReadAnswers DEF StoreLast
  <2>4. Store!Read(k)
    BY <2>2, <2>3 DEF Store!Read, Store!Answer, StoreLast
  <2> QED
    BY <2>4 DEF Store!Next, Words
<1>2. CASE \E k \in Words, r \in Record : WriteWord(k, r)
  <2>1. PICK k \in Words, r \in Record : WriteWord(k, r)
    BY <1>2
  <2>2. Own' = [Own EXCEPT ![k] = Store!Stored(k, r)]
    BY <2>1, WriteOwn
  <2>3. StoreLast' = [op |-> "write", word |-> k, n |-> r.n]
    BY <2>1 DEF WriteWord, Answer, StoreLast
  <2>4. Own' = [w \in Words |-> IF w \in Words THEN Own'[w] ELSE Own[w]]
    BY OwnIs
  <2>5. Store!Persist
    BY <2>4 DEF Store!Persist, Words
  <2>6. Store!Write(k, r)
    BY <2>2, <2>3, <2>5 DEF Store!Write, Store!Answer, StoreLast
  <2> QED
    BY <1>0, <2>6
<1>3. CASE Create \/ RenameRehash
  <2> DEFINE W == {k \in Words : Own'[k] = None}
  <2>1. \A k \in Words : Own'[k] \in {None, Own[k]}
    BY <1>3, CreateOwn, SweptOwn
  <2>2. Own' = [k \in Words |-> IF k \in W THEN None ELSE Own[k]]
    BY <2>1, OwnIs
  <2>3. last' = NoCall
    BY <1>3 DEF Create, RenameRehash, Stages
  <2>4. Own' = [w \in Words |-> IF w \in Words THEN Own'[w] ELSE Own[w]]
    BY OwnIs
  <2>5. Store!Persist
    BY <2>4 DEF Store!Persist, Words
  <2>6. Store!Sweep(W)
    BY <2>2, <2>3, <2>5 DEF Store!Sweep, Words, NoCall, Store!NoCall
  <2>7. W \in SUBSET Words
    OBVIOUS
  <2> QED
    BY <2>6, <2>7 DEF Store!Next, Words
<1>4. CASE ~Create /\ ~RenameRehash
           /\ ~(\E k \in Words : ReadWord(k))
           /\ ~(\E k \in Words, r \in Record : WriteWord(k, r))
  <2>1. Own' = Own
    BY <1>4, OwnKept
  <2>2. StoreLast' = StoreLast \/ StoreLast' = NoCall
    <3>1. last' = last \/ last' = NoCall \/ last'.op = "full"
      BY <1>4 DEF Next, Words, vars, Open, InitializeHeaderRecords, OpenRefused,
         WriteFails, WriteFaults, StartSweep, CopySlot, EndCopy, RenameLive,
         RenameFails, Reopen, RemoveBak, Exit
    <3> QED
      BY <3>1 DEF StoreLast, NoCall
  <2>3. CASE StoreLast' = NoCall
    <3>1. Store!Reopen
      BY <2>1, <2>3 DEF Store!Reopen, StoreLast, NoCall, Store!NoCall
    <3> QED
      BY <3>1 DEF Store!Next
  <2>4. CASE StoreLast' = StoreLast
    BY <2>1, <2>4, StoreVars DEF Store!storeVars, StoreLast
  <2> QED
    BY <2>2, <2>3, <2>4
<1> QED
  BY <1>1, <1>2, <1>3, <1>4

\* As long as a slot is free, a hash file is a store: collisions, wrapping
\* around, sweeps and kills show in no answer and disturb no other record.
THEOREM StoreImplemented == ASSUME WideEnough
                            PROVE  Spec => ImplementsStore
<1>1. FoundInv /\ Stages /\ [Next]_vars
        => [HasFreeSlot(live) => [Store!Next]_(Store!storeVars)]_vars
  BY StoreStep
<1> QED
  BY <1>1, StoreInit, FoundAlways, PTL DEF Spec, ImplementsStore

-----------------------------------------------------------------------------
(* What a sweep takes out *)

\* The file a sweep builds has the records it keeps of the first slots of f,
\* and no others.
CopyExact(f, upto) ==
  /\ rehash.head = f.head
  /\ \A i \in Index : rehash.slot[i].key # 0 =>
       \E j \in Index : /\ j < upto /\ Keeps(f.slot[j])
                        /\ f.slot[j] = rehash.slot[i]
  /\ \A j \in Index : j < upto /\ Keeps(f.slot[j]) =>
       \E i \in Index : rehash.slot[i] = f.slot[j]

Sweeping == /\ pc = "copy" => CopyExact(live, cursor)
            /\ pc = "rename" => CopyExact(live, Slots)
            /\ pc = "swap" => CopyExact(bak, Slots)

\* A table all of whose records were copied from the first n slots of another
\* one has a free slot, unless n is all there are.
LEMMA RoomForOneMore ==
  ASSUME NEW n \in Nat, n < Slots, NEW t, NEW u,
         \A i \in Index : t[i].key # 0 => \E j \in Index : j < n /\ u[j] = t[i],
         Sound(t)
  PROVE  \E i \in Index : t[i].key = 0
<1> SUFFICES ASSUME \A i \in Index : t[i].key # 0 PROVE FALSE
  OBVIOUS
<1>1. Slots \in Nat \ {0}
  BY HashAssumption
<1> DEFINE f == [j \in 0..(n - 1) |->
                   IF \E i \in Index : t[i] = u[j]
                   THEN CHOOSE i \in Index : t[i] = u[j] ELSE 0]
<1>2. ASSUME NEW i \in Index, NEW l \in Index, t[i] = t[l] PROVE i = l
  BY <1>2 DEF Sound
<1>3. ASSUME NEW i \in Index PROVE \E j \in 0..(n - 1) : f[j] = i
  <2>1. PICK j \in Index : j < n /\ u[j] = t[i]
    OBVIOUS
  <2>2. j \in 0..(n - 1)
    BY <1>1, <2>1 DEF Index
  <2>3. f[j] = CHOOSE l \in Index : t[l] = u[j]
    BY <2>1, <2>2
  <2>4. (CHOOSE l \in Index : t[l] = u[j]) = i
    BY <1>2, <2>1
  <2> QED
    BY <2>2, <2>3, <2>4
<1>4. f \in Surjection(0..(n - 1), Index)
  <2>1. \A j \in 0..(n - 1) : f[j] \in Index
    BY <1>1 DEF Index
  <2> HIDE DEF f
  <2>2. f \in [0..(n - 1) -> Index]
    BY <2>1 DEF f
  <2> QED
    BY <1>3, <2>2 DEF Surjection
<1>5. IsFiniteSet(0..(n - 1)) /\ Cardinality(0..(n - 1)) = n
  BY FS_Interval
<1>6. Cardinality(Index) = Slots
  BY <1>1, FS_Interval DEF Index
<1>7. Cardinality(Index) <= n
  BY <1>4, <1>5, FS_Surjection
<1> QED
  BY <1>1, <1>6, <1>7

\* The loop copies a record that is kept to a slot of its own.
LEMMA CopySlotExact ==
  ASSUME WideEnough, FoundInv, CopyExact(live, cursor), CopySlot
  PROVE  CopyExact(live, cursor)'
<1>1. live \in File /\ live # NoFile /\ rehash \in File /\ rehash # NoFile
  BY TypeFacts DEF CopySlot, Present, FoundInv, TypeInv
<1> DEFINE s == live.slot[cursor]
           t == rehash.slot
<1>2. cursor \in Index /\ cursor \in Nat /\ cursor < Slots
  BY HashAssumption DEF CopySlot, FoundInv, TypeInv, TypeOK, Index
<1>3. s.key \in 0..(LongRange - 1) /\ s.rec \in Record /\ t \in Table
      /\ s = [key |-> s.key, rec |-> s.rec]
  BY <1>1, <1>2, FileType DEF Table, Slot
<1>4. live' = live /\ cursor' = cursor + 1 /\ cleaner' = cleaner
  BY DEF CopySlot
<1>5. Sound(t) /\ Sound(live.slot)
  BY <1>1, EveryRecordFoundMeans DEF FoundInv, SoundFile
<1>6. \A r : Keeps(r)' = Keeps(r)
  BY <1>4 DEF Keeps
<1>7. \A j \in Index : j < cursor + 1 <=> j < cursor \/ j = cursor
  BY <1>2, HashAssumption DEF Index
<1>8. CASE Keeps(s)
  <2> DEFINE p == Place(t, s.key)
             u == Put(t, s.key, s.rec)
  <2>1. s.key \in Nat /\ s.key # 0
    BY <1>3, <1>8, HashAssumption DEF Keeps
  <2>2. HasRoom(t, s.key)
    <3>1. \A i \in Index : t[i].key # 0 =>
            \E j \in Index : j < cursor /\ live.slot[j] = t[i]
      BY DEF CopyExact
    <3>2. \E i \in Index : t[i].key = 0
      <4> HIDE DEF t
      <4> QED
        BY <1>2, <1>5, <3>1, RoomForOneMore
    <3> QED
      BY <2>1, <3>2, FreeRoom
  <2>3. p \in Index /\ t[p].key \in {s.key, 0}
    BY <2>1, <2>2, FirstStops
  <2>4. /\ u[p] = s
        /\ \A i \in Index : i # p => u[i] = t[i]
    BY <1>3, <2>3, AsReadSame DEF Put, Table
  <2>5. rehash'.slot = u /\ rehash'.head = rehash.head
    <3>1. rehash' = [rehash EXCEPT !.slot = u]
      BY <1>8, <2>2 DEF CopySlot
    <3> QED
      BY <1>1, <3>1 DEF File
  <2> HIDE DEF u, p, s, t
  <2>6. ASSUME NEW i \in Index, u[i].key # 0
        PROVE  \E j \in Index : /\ j < cursor + 1 /\ Keeps(live.slot[j])
                                /\ live.slot[j] = u[i]
    <3>1. CASE i = p
      BY <1>2, <1>7, <1>8, <2>4, <3>1 DEF s
    <3>2. CASE i # p
      <4>1. u[i] = t[i]
        BY <2>4, <3>2
      <4>2. PICK j \in Index : /\ j < cursor /\ Keeps(live.slot[j])
                               /\ live.slot[j] = t[i]
        BY <2>6, <4>1 DEF CopyExact, t
      <4> QED
        BY <1>7, <4>1, <4>2
    <3> QED
      BY <3>1, <3>2
  <2>7. ASSUME NEW j \in Index, j < cursor + 1, Keeps(live.slot[j])
        PROVE  \E i \in Index : u[i] = live.slot[j]
    <3>1. CASE j = cursor
      BY <2>3, <2>4, <3>1 DEF s
    <3>2. CASE j # cursor
      <4>1. PICK i \in Index : t[i] = live.slot[j]
        BY <1>7, <2>7, <3>2 DEF CopyExact, t
      <4>2. live.slot[j].key # 0 /\ live.slot[j].key # s.key
        BY <1>2, <1>5, <2>1, <2>7, <3>2 DEF Keeps, Sound, s
      <4>3. i # p
        BY <2>3, <4>1, <4>2
      <4> QED
        BY <2>4, <4>1, <4>3
    <3> QED
      BY <3>1, <3>2
  <2> QED
    BY <1>4, <1>6, <2>5, <2>6, <2>7 DEF CopyExact
<1>9. CASE ~Keeps(s)
  <2>1. rehash' = rehash
    BY <1>9 DEF CopySlot
  <2> QED
    BY <1>4, <1>6, <1>7, <1>9, <2>1 DEF CopyExact
<1> QED
  BY <1>8, <1>9

LEMMA SweepingStep ==
  ASSUME WideEnough, FoundInv, Stages, Sweeping, [Next]_vars
  PROVE  Sweeping'
<1>0. TypeOK /\ Present
  BY DEF FoundInv, TypeInv
<1>1. CASE \E stage \in {"open", "reading"} : Open(stage)
  BY <1>1 DEF Open, Sweeping
<1>2. CASE \/ Create \/ InitializeHeaderRecords \/ \E k \in Key : WriteFails(k)
           \/ WriteFaults \/ RenameRehash \/ RenameFails \/ Reopen \/ RemoveBak
           \/ Exit
  BY <1>2 DEF Create, InitializeHeaderRecords, WriteFails, WriteFaults,
              RenameRehash, RenameFails, Reopen, RemoveBak, Exit, Sweeping
<1>3. CASE OpenRefused \/ \E k \in Key \cup {CountKey} : ReadWord(k)
  BY <1>3 DEF OpenRefused, ReadWord, Sweeping
<1>4. CASE \E k \in Key \cup {CountKey}, r \in Record : WriteWord(k, r)
  BY <1>4 DEF WriteWord, Sweeping
<1>5. ASSUME NEW limits \in Cleaners, StartSweep(limits)
      PROVE  Sweeping'
  <2>1. rehash'.slot = EmptyTable /\ rehash'.head = live.head /\ live' = live
        /\ cursor' = 0 /\ pc' = "copy"
    BY <1>5, FileType DEF StartSweep, NewFile
  <2>2. \A i \in Index : ~(i < 0)
    BY HashAssumption DEF Index
  <2>3. CopyExact(live, cursor)'
    BY <2>1, <2>2 DEF CopyExact, EmptyTable, EmptySlot
  <2> QED
    BY <2>1, <2>3 DEF Sweeping
<1>6. CASE CopySlot
  <2>1. CopyExact(live, cursor)' /\ pc' = "copy"
    BY <1>6, CopySlotExact DEF CopySlot, Sweeping
  <2> QED
    BY <2>1 DEF Sweeping
<1>7. CASE EndCopy
  <2>1. UNCHANGED <<live, rehash, cleaner>> /\ pc = "copy" /\ pc' = "rename"
        /\ cursor = Slots
    BY <1>7 DEF EndCopy
  <2>2. \A r : Keeps(r)' = Keeps(r)
    BY <2>1 DEF Keeps
  <2> QED
    BY <2>1, <2>2 DEF Sweeping, CopyExact
<1>8. CASE RenameLive
  <2>1. UNCHANGED <<rehash, cleaner>> /\ bak' = live /\ pc = "rename"
        /\ pc' = "swap"
    BY <1>8 DEF RenameLive
  <2>2. \A r : Keeps(r)' = Keeps(r)
    BY <2>1 DEF Keeps
  <2> QED
    BY <2>1, <2>2 DEF Sweeping, CopyExact
<1>9. CASE UNCHANGED vars
  <2>1. \A r : Keeps(r)' = Keeps(r)
    BY <1>9 DEF Keeps, vars
  <2> QED
    BY <1>9, <2>1 DEF vars, Sweeping, CopyExact
<1> QED
  BY <1>1, <1>2, <1>3, <1>4, <1>5, <1>6, <1>7, <1>8, <1>9 DEF Next

\* A sweep takes out what it should and nothing else, wherever records collide.
LEMMA SweptExactly ==
  ASSUME WideEnough, FoundInv, Stages, Sweeping, RenameRehash, NEW k \in Words
  PROVE  Own'[k] = IF /\ k # CountKey
                      /\ Own[k] # None
                      /\ Own[k].n = 0 \/ ShouldDelete(cleaner, Own[k])
                   THEN None ELSE Own[k]
<1>1. live = NoFile /\ bak \in File /\ bak # NoFile /\ Current = bak
  BY TypeFacts DEF FoundInv, TypeInv, RenameRehash, Stages, Current
<1>2. rehash \in File /\ rehash # NoFile /\ Current' = rehash
  BY TypeFacts DEF FoundInv, TypeInv, RenameRehash, Present, Current
<1>3. CopyExact(bak, Slots)
  BY DEF RenameRehash, Sweeping
<1>4. /\ bak.slot \in Table /\ Sound(bak.slot)
      /\ rehash.slot \in Table /\ Sound(rehash.slot)
  BY <1>1, <1>2, FileType, EveryRecordFoundMeans DEF FoundInv, SoundFile
<1>5. Own[k] = Lookup(bak, k) /\ Own'[k] = Lookup(rehash, k)
  BY <1>1, <1>2, OwnIs
<1>6. CASE k = CountKey
  BY <1>1, <1>2, <1>3, <1>5, <1>6 DEF Lookup, CopyExact
<1>7. CASE k # CountKey
  <2>1. k \in Nat /\ k # 0
    BY <1>7, KeyType DEF Words, CountKey
  <2>2. \A j \in Index : j < Slots
    BY HashAssumption DEF Index
  <2>3. CASE \E j \in Index : bak.slot[j].key = k
    <3>1. PICK j \in Index : bak.slot[j].key = k
      BY <2>3
    <3> DEFINE r == bak.slot[j].rec
    <3>2. r \in Record /\ r # None /\ r.n \in Nat
      <4>1. bak.slot[j] \in Slot
        BY <1>4 DEF Table
      <4>2. r \in Record
        BY <4>1 DEF Slot
      <4>3. r.n \in Count
        BY <4>2 DEF Record
      <4> HIDE DEF r
      <4> QED
        BY <4>2, <4>3, HashAssumption
    <3>3. Own[k] = r
      BY <1>1, <1>4, <1>5, <1>7, <2>1, <3>1, HoldsMeans DEF Lookup
    <3>4. CASE Keeps(bak.slot[j])
      <4>1. PICK i \in Index : rehash.slot[i] = bak.slot[j]
        BY <1>3, <2>2, <3>4 DEF CopyExact
      <4>2. Own'[k] = r
        BY <1>2, <1>4, <1>5, <1>7, <2>1, <3>1, <4>1, HoldsMeans DEF Lookup
      <4>3. ~(r.n = 0 \/ ShouldDelete(cleaner, r))
        BY <3>4 DEF Keeps
      <4> QED
        BY <3>3, <4>2, <4>3
    <3>5. CASE ~Keeps(bak.slot[j])
      <4>1. r.n = 0 \/ ShouldDelete(cleaner, r)
        BY <2>1, <3>1, <3>2, <3>5 DEF Keeps
      <4>2. ASSUME NEW i \in Index, rehash.slot[i].key = k PROVE FALSE
        <5>1. PICK l \in Index : Keeps(bak.slot[l]) /\ bak.slot[l] = rehash.slot[i]
          BY <1>3, <2>1, <4>2 DEF CopyExact
        <5>2. l = j
          BY <1>4, <2>1, <3>1, <4>2, <5>1 DEF Sound
        <5> QED
          BY <3>5, <5>1, <5>2
      <4>3. Own'[k] = None
        BY <1>2, <1>4, <1>5, <1>7, <2>1, <4>2, HoldsMeans DEF Lookup
      <4> HIDE DEF r
      <4> QED
        BY <1>7, <3>2, <3>3, <4>1, <4>3
    <3> QED
      BY <3>4, <3>5
  <2>4. CASE ~\E j \in Index : bak.slot[j].key = k
    <3>1. Own[k] = None
      BY <1>1, <1>4, <1>5, <1>7, <2>1, <2>4, HoldsMeans DEF Lookup
    <3>2. ~\E i \in Index : rehash.slot[i].key = k
      BY <1>3, <2>1, <2>4 DEF CopyExact
    <3>3. Own'[k] = None
      BY <1>2, <1>4, <1>5, <1>7, <2>1, <3>2, HoldsMeans DEF Lookup
    <3> QED
      BY <3>1, <3>3
  <2> QED
    BY <2>3, <2>4
<1> QED
  BY <1>6, <1>7

\* A sweep takes out the records without counts and those its limits select, and
\* no other, for any number of slots and any collisions.
THEOREM SweepAlwaysExact == ASSUME WideEnough
                            PROVE  Spec => SweepExact
<1>1. Init => Sweeping
  BY DEF Init, Sweeping
<1>2. FoundInv /\ Stages /\ Sweeping /\ [Next]_vars => Sweeping'
  BY SweepingStep
<1>3. FoundInv /\ Stages /\ Sweeping /\ [Next]_vars
        => [pc = "swap" /\ pc' = "reopen" =>
              \A k \in Key \cup {CountKey} :
                 Own'[k] = IF /\ k # CountKey
                              /\ Own[k] # None
                              /\ Own[k].n = 0 \/ ShouldDelete(cleaner, Own[k])
                           THEN None ELSE Own[k]]_vars
  <2> SUFFICES ASSUME FoundInv, Stages, Sweeping, [Next]_vars,
                      pc = "swap", pc' = "reopen", NEW k \in Words
               PROVE  Own'[k] = IF /\ k # CountKey
                                   /\ Own[k] # None
                                   /\ \/ Own[k].n = 0
                                      \/ ShouldDelete(cleaner, Own[k])
                                THEN None ELSE Own[k]
    BY DEF Words
  <2>1. RenameRehash
    BY DEF Next, Open, Create, InitializeHeaderRecords, OpenRefused, ReadWord,
           WriteWord, WriteFails, WriteFaults, StartSweep, CopySlot, EndCopy,
           RenameLive, RenameFails, Reopen, RemoveBak, Exit, vars
  <2> QED
    BY <2>1, SweptExactly
<1> QED
  BY <1>1, <1>2, <1>3, FoundAlways, PTL DEF Spec, SweepExact

-----------------------------------------------------------------------------
(* The processes that share the file: no flush writes over another process's *)
(* updates, and one signal or error loses none.                              *)

\* Who uses the database holds the lock, and who is not there does not.
Held == \A p \in Proc :
          /\ at[p] \in {"open", "run", "child", "call"} => p \in holders
          /\ p \in holders => at[p] \notin {"idle", "lock"}

\* A lock that is not shared has one holder.
Exclusive == \A p, q \in holders : p # q => Compatible(p, q)

\* Records are cached under the lock, and as fresh as CacheFresh says.
Cached == \A p \in Proc, w \in Word : cache[p][w] # Absent =>
            p \in holders /\ cache[p][w] = disk[w] + pending[p][w]

\* What is to be written is cached, by a process that may write.
Unwritten == \A p \in Proc, w \in Word :
               pending[p][w] > 0 => cache[p][w] # Absent /\ ~sharedLock[p]

\* The database is closed after it was flushed.
Closing == \A p \in Proc : at[p] \in {"close", "release"} =>
             \A w \in Word : pending[p][w] = 0

\* The destructors close the database only after a signal or an error, and throw
\* only after two.
Exits == \A p \in Proc :
           /\ exiting[p] \/ interrupted[p] => trouble[p] >= 1
           /\ exiting[p] /\ interrupted[p] => trouble[p] >= 2
           /\ at[p] = "idle" => ~exiting[p] /\ ~interrupted[p]

Inv == ProcessTypeOK /\ Held /\ Exclusive /\ Cached /\ Unwritten /\ Closing /\ Exits

-----------------------------------------------------------------------------
(* Pieces of actions *)

\* What a store call may do to the memory of its process.
LEMMA CallEffect ==
  ASSUME ProcessTypeOK, NEW p \in Proc, NEW w \in Word, Read(p, w) \/ Update(p, w)
  PROVE  /\ cache' \in [Proc -> [Word -> 0..MaxCount \cup {Absent}]]
         /\ pending' \in [Proc -> [Word -> Nat]]
         /\ \A q \in Proc, v \in Word : q # p \/ v # w =>
              cache'[q][v] = cache[q][v] /\ pending'[q][v] = pending[q][v]
         /\ cache'[p][w] \in 0..MaxCount
         /\ cache'[p][w] = Seen(p, w) + (pending'[p][w] - pending[p][w])
         /\ pending'[p][w] # pending[p][w] => ~sharedLock[p]
<1>1. /\ cache \in [Proc -> [Word -> 0..MaxCount \cup {Absent}]]
      /\ pending \in [Proc -> [Word -> Nat]]
      /\ disk \in [Word -> 0..MaxCount]
      /\ MaxCount \in Nat
  BY ProcessAssumption DEF ProcessTypeOK
<1>2. Seen(p, w) \in 0..MaxCount
  BY <1>1 DEF Seen
<1> DEFINE s == Seen(p, w)
<1> HIDE DEF s
<1>3. CASE Read(p, w)
  <2>1. cache' = [cache EXCEPT ![p][w] = s] /\ pending' = pending
    BY <1>3 DEF Read, s
  <2>2. s \in 0..MaxCount
    BY <1>2 DEF s
  <2> QED
    BY <1>1, <2>1, <2>2 DEF s
<1>4. CASE Update(p, w)
  <2>1. /\ cache' = [cache EXCEPT ![p][w] = s + 1]
        /\ pending' = [pending EXCEPT ![p][w] = pending[p][w] + 1]
        /\ s < MaxCount
        /\ ~sharedLock[p]
    BY <1>4 DEF Update, s
  <2>2. s + 1 \in 0..MaxCount /\ pending[p][w] + 1 \in Nat
    BY <1>1, <1>2, <2>1 DEF s
  <2> QED
    BY <1>1, <2>1, <2>2 DEF s
<1> QED
  BY <1>3, <1>4

\* The end of a process.
LEMMA GoneEffect ==
  ASSUME ProcessTypeOK, NEW p \in Proc, Gone(p), trouble' \in [Proc -> 0..MaxTrouble]
  PROVE  /\ ProcessTypeOK'
         /\ at'[p] = "idle" /\ ~exiting'[p] /\ ~interrupted'[p]
         /\ \A w \in Word : cache'[p][w] = Absent /\ pending'[p][w] = 0
         /\ \A q \in Proc : q # p =>
              /\ at'[q] = at[q] /\ exiting'[q] = exiting[q]
              /\ interrupted'[q] = interrupted[q]
              /\ cache'[q] = cache[q] /\ pending'[q] = pending[q]
         /\ holders' = holders \ {p} /\ disk' = disk /\ sharedLock' = sharedLock
<1>1. Nothing \in [Word -> 0..MaxCount \cup {Absent}] /\ NoUpdates \in [Word -> Nat]
  BY DEF Nothing, NoUpdates
<1>2. child' \in [Proc -> Proc \cup {Absent}]
  BY DEF Gone, ProcessTypeOK
<1>3. \A w \in Word : Nothing[w] = Absent /\ NoUpdates[w] = 0
  BY DEF Nothing, NoUpdates
<1>4. ProcessTypeOK'
  BY <1>1, <1>2 DEF Gone, ProcessTypeOK, Stage
<1> QED
  BY <1>3, <1>4 DEF Gone, ProcessTypeOK

LEMMA InvGone ==
  ASSUME Inv, NEW p \in Proc, Gone(p), trouble' \in [Proc -> 0..MaxTrouble],
         \A q \in Proc : q # p => trouble'[q] = trouble[q]
  PROVE  Inv'
<1>1. /\ ProcessTypeOK'
      /\ at'[p] = "idle" /\ ~exiting'[p] /\ ~interrupted'[p]
      /\ \A w \in Word : cache'[p][w] = Absent /\ pending'[p][w] = 0
      /\ \A q \in Proc : q # p =>
           /\ at'[q] = at[q] /\ exiting'[q] = exiting[q]
           /\ interrupted'[q] = interrupted[q]
           /\ cache'[q] = cache[q] /\ pending'[q] = pending[q]
      /\ holders' = holders \ {p} /\ disk' = disk /\ sharedLock' = sharedLock
  BY GoneEffect DEF Inv
<1>2. Held' /\ Exclusive'
  BY <1>1 DEF Inv, Held, Exclusive, Compatible
<1>3. Cached' /\ Unwritten'
  BY <1>1 DEF Inv, Cached, Unwritten
<1>4. Closing' /\ Exits'
  BY <1>1 DEF Inv, Closing, Exits
<1> QED
  BY <1>1, <1>2, <1>3, <1>4 DEF Inv

\* A call that is over, and the process goes on to the stage given; or it never
\* was a call and its memory stays as it is.
LEMMA InvMoves ==
  ASSUME Inv, NEW p \in Proc,
         NEW stage \in {"open", "run", "child", "call", "flush", "close", "release"},
         at' = [at EXCEPT ![p] = stage],
         stage \in {"open", "run", "child", "call"} => p \in holders,
         stage \in {"close", "release"} => \A w \in Word : pending[p][w] = 0,
         at[p] # "lock" \/ p \notin holders,
         at[p] # "idle",
         disk' = disk, sharedLock' = sharedLock, holders' = holders,
         child' = child, left' \in [Proc -> 0..MaxCalls],
         exiting' \in [Proc -> BOOLEAN], interrupted' \in [Proc -> BOOLEAN],
         trouble' \in [Proc -> 0..MaxTrouble],
         exiting'[p] \/ interrupted'[p] => trouble'[p] >= 1,
         exiting'[p] /\ interrupted'[p] => trouble'[p] >= 2,
         \A q \in Proc : q # p => /\ exiting'[q] = exiting[q]
                                  /\ interrupted'[q] = interrupted[q]
                                  /\ trouble'[q] = trouble[q],
         \/ cache' = cache /\ pending' = pending
         \/ /\ at[p] = "call"
            /\ stage \notin {"close", "release"}
            /\ \E w \in Word : Read(p, w) \/ Update(p, w)
  PROVE  Inv'
<1>1. at' \in [Proc -> Stage] /\ at'[p] = stage
      /\ \A q \in Proc : q # p => at'[q] = at[q]
  BY DEF Inv, ProcessTypeOK, Stage
<1>2. Held' /\ Exclusive' /\ Exits'
  BY <1>1 DEF Inv, Held, Exclusive, Exits, Compatible, ProcessTypeOK
<1>3. CASE cache' = cache /\ pending' = pending
  <2>1. ProcessTypeOK'
    BY <1>1, <1>3 DEF Inv, ProcessTypeOK
  <2>2. Cached' /\ Unwritten' /\ Closing'
    BY <1>1, <1>3 DEF Inv, Cached, Unwritten, Closing, ProcessTypeOK
  <2> QED
    BY <1>2, <2>1, <2>2 DEF Inv
<1>4. ASSUME NEW w \in Word, Read(p, w) \/ Update(p, w), at[p] = "call",
             stage \notin {"close", "release"}
      PROVE  Inv'
  <2>0. ProcessTypeOK /\ p \in holders
    BY <1>4 DEF Inv, Held
  <2>1. /\ cache' \in [Proc -> [Word -> 0..MaxCount \cup {Absent}]]
        /\ pending' \in [Proc -> [Word -> Nat]]
        /\ \A q \in Proc, v \in Word : q # p \/ v # w =>
             cache'[q][v] = cache[q][v] /\ pending'[q][v] = pending[q][v]
        /\ cache'[p][w] \in 0..MaxCount
        /\ cache'[p][w] = Seen(p, w) + (pending'[p][w] - pending[p][w])
        /\ pending'[p][w] # pending[p][w] => ~sharedLock[p]
    BY <1>4, <2>0, CallEffect
  <2>2. ProcessTypeOK'
    BY <1>1, <2>1 DEF Inv, ProcessTypeOK
  <2>3. pending[p][w] \in Nat /\ pending'[p][w] \in Nat /\ disk[w] \in Nat
        /\ (cache[p][w] # Absent => cache[p][w] \in Nat)
        /\ cache'[p][w] # Absent
    BY <2>0, <2>1, ProcessAssumption DEF ProcessTypeOK
  <2>4. cache'[p][w] = disk[w] + pending'[p][w]
    <3>1. CASE cache[p][w] = Absent
      <4>1. ~(pending[p][w] > 0)
        BY <3>1 DEF Inv, Unwritten
      <4> QED
        BY <2>1, <2>3, <3>1, <4>1 DEF Seen
    <3>2. CASE cache[p][w] # Absent
      <4>1. cache[p][w] = disk[w] + pending[p][w]
        BY <3>2 DEF Inv, Cached
      <4> QED
        BY <2>1, <2>3, <3>2, <4>1 DEF Seen
    <3> QED
      BY <3>1, <3>2
  <2>5. Cached'
    <3> SUFFICES ASSUME NEW q \in Proc, NEW v \in Word, cache'[q][v] # Absent
                 PROVE  q \in holders' /\ cache'[q][v] = disk'[v] + pending'[q][v]
      BY DEF Cached
    <3>1. CASE q = p /\ v = w
      BY <2>0, <2>4, <3>1
    <3>2. CASE q # p \/ v # w
      BY <2>1, <3>2 DEF Inv, Cached
    <3> QED
      BY <3>1, <3>2
  <2>6. Unwritten'
    <3> SUFFICES ASSUME NEW q \in Proc, NEW v \in Word, pending'[q][v] > 0
                 PROVE  cache'[q][v] # Absent /\ ~sharedLock[q]
      BY DEF Unwritten
    <3>1. CASE q = p /\ v = w
      <4>1. pending[p][w] > 0 => ~sharedLock[p]
        BY DEF Inv, Unwritten
      <4> QED
        BY <2>1, <2>3, <3>1, <4>1
    <3>2. CASE q # p \/ v # w
      BY <2>1, <3>2 DEF Inv, Unwritten
    <3> QED
      BY <3>1, <3>2
  <2>7. Closing'
    <3>1. \A q \in Proc, v \in Word : q # p => pending'[q][v] = pending[q][v]
      BY <2>1
    <3> QED
      BY <1>1, <1>4, <3>1 DEF Inv, Closing
  <2> QED
    BY <1>2, <2>2, <2>5, <2>6, <2>7 DEF Inv
<1> QED
  BY <1>3, <1>4

-----------------------------------------------------------------------------
(* The invariant *)

LEMMA InvInit == ProcessInit => Inv
<1> SUFFICES ASSUME ProcessInit PROVE Inv
  OBVIOUS
<1>1. ProcessTypeOK
  BY ProcessAssumption DEF ProcessInit, ProcessTypeOK, Nothing, NoUpdates, Stage
<1>2. \A p \in Proc, w \in Word : cache[p][w] = Absent /\ pending[p][w] = 0
  BY DEF ProcessInit, Nothing, NoUpdates
<1> QED
  BY <1>1, <1>2 DEF ProcessInit, Inv, Held, Exclusive, Cached, Unwritten, Closing, Exits

\* A new process has nothing and holds nothing.
LEMMA InvBegins ==
  ASSUME Inv, NEW p \in Proc, NEW c \in Proc, NEW ro \in BOOLEAN,
         at[c] = "idle", Begin(p, IF p = c THEN "lock" ELSE "child", c, ro),
         p # c => at[p] = "run",
         child' \in [Proc -> Proc \cup {Absent}],
         UNCHANGED <<disk, exiting, holders, interrupted, cache, pending>>
  PROVE  Inv'
<1>1. /\ at' \in [Proc -> Stage]
      /\ at'[c] = "lock"
      /\ \A q \in Proc : q # c => at'[q] = at[q] \/ (at[q] = "run" /\ at'[q] = "child")
  BY DEF Inv, ProcessTypeOK, Begin, Stage
<1>2. /\ sharedLock' \in [Proc -> BOOLEAN]
      /\ trouble' \in [Proc -> 0..MaxTrouble]
      /\ left' \in [Proc -> 0..MaxCalls]
      /\ \A q \in Proc : q # c => sharedLock'[q] = sharedLock[q] /\ trouble'[q] = trouble[q]
  BY ProcessAssumption DEF Inv, ProcessTypeOK, Begin
<1>3. ProcessTypeOK'
  BY <1>1, <1>2 DEF Inv, ProcessTypeOK
<1>4. c \notin holders /\ ~exiting[c] /\ ~interrupted[c]
  BY DEF Inv, Held, Exits
<1>5. \A w \in Word : cache[c][w] = Absent /\ ~(pending[c][w] > 0)
  BY <1>4 DEF Inv, Cached, Unwritten
<1>6. Held' /\ Exclusive' /\ Exits'
  BY <1>1, <1>2, <1>4 DEF Inv, Held, Exclusive, Exits, Compatible, ProcessTypeOK
<1>7. Cached' /\ Unwritten' /\ Closing'
  BY <1>1, <1>2, <1>5 DEF Inv, Cached, Unwritten, Closing
<1> QED
  BY <1>3, <1>6, <1>7 DEF Inv

LEMMA InvAcquire == ASSUME Inv, NEW p \in Proc, Acquire(p)
                    PROVE  Inv'
<1>1. /\ at' \in [Proc -> Stage] /\ at'[p] = "open"
      /\ \A q \in Proc : q # p => at'[q] = at[q]
      /\ holders' = holders \cup {p}
      /\ \A q \in holders : sharedLock[p] /\ sharedLock[q]
  BY DEF Inv, ProcessTypeOK, Acquire, GoTo, Stage, Compatible
<1>2. UNCHANGED <<disk, exiting, sharedLock, interrupted, cache, pending, child,
                  left, trouble>>
  BY DEF Acquire
<1>3. ProcessTypeOK'
  BY <1>1, <1>2 DEF Inv, ProcessTypeOK
<1>4. Held' /\ Exclusive' /\ Exits'
  BY <1>1, <1>2 DEF Inv, Held, Exclusive, Exits, Compatible
<1>5. Cached' /\ Unwritten' /\ Closing'
  BY <1>1, <1>2 DEF Inv, Cached, Unwritten, Closing
<1> QED
  BY <1>3, <1>4, <1>5 DEF Inv

\* The heart of it: no other process has a copy of the record that is written.
LEMMA InvFlushWord ==
  ASSUME Inv, NEW p \in Proc, NEW w \in Word, FlushWord(p, w)
  PROVE  Inv'
<1>1. /\ pending[p][w] > 0
      /\ disk' = [disk EXCEPT ![w] = cache[p][w]]
      /\ pending' = [pending EXCEPT ![p][w] = 0]
      /\ at[p] \in {"call", "flush"}
      /\ UNCHANGED <<at, exiting, sharedLock, holders, interrupted, cache, child,
                     left, trouble>>
  BY DEF FlushWord
<1>2. cache[p][w] # Absent /\ ~sharedLock[p] /\ p \in holders
  BY <1>1 DEF Inv, Unwritten, Cached
<1>3. cache[p][w] \in 0..MaxCount
  BY <1>2 DEF Inv, ProcessTypeOK
<1>4. /\ disk' \in [Word -> 0..MaxCount]
      /\ disk'[w] = cache[p][w]
      /\ \A v \in Word : v # w => disk'[v] = disk[v]
  BY <1>1, <1>3 DEF Inv, ProcessTypeOK
<1>5. /\ pending' \in [Proc -> [Word -> Nat]]
      /\ pending'[p][w] = 0
      /\ \A q \in Proc, v \in Word : q # p \/ v # w => pending'[q][v] = pending[q][v]
  BY <1>1 DEF Inv, ProcessTypeOK
<1>6. ProcessTypeOK'
  BY <1>1, <1>4, <1>5 DEF Inv, ProcessTypeOK
<1>7. Held' /\ Exclusive' /\ Exits'
  BY <1>1 DEF Inv, Held, Exclusive, Exits, Compatible
<1>8. Cached'
  <2> SUFFICES ASSUME NEW q \in Proc, NEW v \in Word, cache[q][v] # Absent
               PROVE  q \in holders /\ cache[q][v] = disk'[v] + pending'[q][v]
    BY <1>1 DEF Cached
  <2>1. q \in holders /\ cache[q][v] = disk[v] + pending[q][v]
    BY DEF Inv, Cached
  <2>2. CASE q = p /\ v = w
    BY <1>3, <1>4, <1>5, <2>1, <2>2, ProcessAssumption
  <2>3. CASE q = p /\ v # w
    BY <1>4, <1>5, <2>1, <2>3
  <2>4. CASE q # p
    BY <1>2, <2>1, <2>4 DEF Inv, Exclusive, Compatible
  <2> QED
    BY <2>2, <2>3, <2>4
<1>9. Unwritten' /\ Closing'
  BY <1>1, <1>5 DEF Inv, Unwritten, Closing
<1> QED
  BY <1>6, <1>7, <1>8, <1>9 DEF Inv

LEMMA InvClose == ASSUME Inv, NEW p \in Proc, CloseDatabase(p)
                  PROVE  Inv'
<1>1. /\ at[p] = "close"
      /\ cache' = [cache EXCEPT ![p] = Nothing]
      /\ UNCHANGED <<disk, pending, trouble, sharedLock, holders, child, left>>
      /\ interrupted' = [interrupted EXCEPT ![p] = FALSE]
      /\ \/ /\ interrupted[p]
            /\ at' = [at EXCEPT ![p] = "flush"]
            /\ exiting' = [exiting EXCEPT ![p] = TRUE]
         \/ /\ at' = [at EXCEPT ![p] = "release"]
            /\ UNCHANGED exiting
  BY DEF CloseDatabase, BeginExit, GoTo
<1>2. Nothing \in [Word -> 0..MaxCount \cup {Absent}] /\ \A w \in Word : Nothing[w] = Absent
  BY DEF Nothing
<1>3. ProcessTypeOK'
  BY <1>1, <1>2 DEF Inv, ProcessTypeOK, Stage
<1>4. \A w \in Word : cache'[p][w] = Absent /\ pending'[p][w] = 0
  BY <1>1, <1>2 DEF Inv, ProcessTypeOK, Closing
<1>5. \A q \in Proc : q # p => cache'[q] = cache[q] /\ at'[q] = at[q]
  BY <1>1 DEF Inv, ProcessTypeOK
<1>6. at'[p] \in {"flush", "release"}
  BY <1>1 DEF Inv, ProcessTypeOK
<1>7. Held' /\ Exclusive'
  BY <1>1, <1>5, <1>6 DEF Inv, Held, Exclusive, Compatible
<1>8. Exits'
  BY <1>1, <1>5, <1>6 DEF Inv, Exits, ProcessTypeOK
<1>9. Cached' /\ Unwritten' /\ Closing'
  BY <1>1, <1>4, <1>5 DEF Inv, Cached, Unwritten, Closing
<1> QED
  BY <1>3, <1>7, <1>8, <1>9 DEF Inv

LEMMA TroubleEffect ==
  ASSUME ProcessTypeOK, NEW p \in Proc, Trouble(p)
  PROVE  /\ trouble' \in [Proc -> 0..MaxTrouble]
         /\ trouble'[p] = trouble[p] + 1
         /\ trouble[p] \in Nat
         /\ \A q \in Proc : q # p => trouble'[q] = trouble[q]
BY ProcessAssumption DEF ProcessTypeOK, Trouble

LEMMA InvStep == Inv /\ [ProcessNext]_processVars => Inv'
<1> SUFFICES ASSUME Inv, [ProcessNext]_processVars PROVE Inv'
  OBVIOUS
<1>0. ProcessTypeOK
  BY DEF Inv
<1>1. ASSUME NEW p \in Proc, NEW ro \in BOOLEAN, Start(p, ro)
      PROVE  Inv'
  BY <1>0, <1>1, InvBegins DEF Start, ProcessTypeOK
<1>2. ASSUME NEW p \in Proc, NEW c \in Proc, NEW ro \in BOOLEAN, Exec(p, c, ro)
      PROVE  Inv'
  <2>1. p # c
    BY <1>2 DEF Exec
  <2>2. child' \in [Proc -> Proc \cup {Absent}]
    BY <1>0, <1>2 DEF Exec, ProcessTypeOK
  <2> QED
    BY <1>2, <2>1, <2>2, InvBegins DEF Exec
<1>3. ASSUME NEW p \in Proc, Acquire(p) PROVE Inv'
  BY <1>3, InvAcquire
<1>4. ASSUME NEW p \in Proc, OpenDatabase(p) \/ ChildEnded(p) \/ StartCall(p)
                             \/ Finish(p)
      PROVE  Inv'
  <2>1. at[p] \in {"open", "run", "child"} /\ p \in holders
    BY <1>4 DEF OpenDatabase, ChildEnded, StartCall, Finish, Inv, Held
  <2>2. PICK stage \in {"run", "call", "flush"} : at' = [at EXCEPT ![p] = stage]
    BY <1>4 DEF OpenDatabase, ChildEnded, StartCall, Finish, GoTo
  <2>3. left' \in [Proc -> 0..MaxCalls]
    <3>1. CASE StartCall(p)
      <4>1. left[p] \in 0..MaxCalls /\ left[p] - 1 \in 0..MaxCalls
        BY <1>0, <3>1, ProcessAssumption DEF ProcessTypeOK, StartCall
      <4> QED
        BY <1>0, <3>1, <4>1 DEF ProcessTypeOK, StartCall
    <3>2. CASE ~StartCall(p)
      BY <1>0, <1>4, <3>2 DEF ProcessTypeOK, OpenDatabase, ChildEnded, Finish
    <3> QED
      BY <3>1, <3>2
  <2>4. UNCHANGED <<disk, exiting, sharedLock, holders, interrupted, cache,
                    pending, child, trouble>>
    BY <1>4 DEF OpenDatabase, ChildEnded, StartCall, Finish
  <2> QED
    BY <1>0, <2>1, <2>2, <2>3, <2>4, InvMoves DEF Inv, Exits, ProcessTypeOK
<1>5. ASSUME NEW p \in Proc, EndCall(p) PROVE Inv'
  <2>1. /\ at[p] = "call" /\ p \in holders
        /\ \E w \in Word : Read(p, w) \/ Update(p, w)
        /\ interrupted' = [interrupted EXCEPT ![p] = FALSE]
        /\ UNCHANGED <<disk, trouble, sharedLock, holders, child, left>>
        /\ \/ /\ interrupted[p]
              /\ at' = [at EXCEPT ![p] = "flush"]
              /\ exiting' = [exiting EXCEPT ![p] = TRUE]
           \/ /\ at' = [at EXCEPT ![p] = "run"]
              /\ UNCHANGED exiting
    BY <1>5 DEF EndCall, BeginExit, GoTo, Inv, Held
  <2>2. PICK stage \in {"flush", "run"} : at' = [at EXCEPT ![p] = stage]
    BY <2>1
  <2>3. /\ exiting' \in [Proc -> BOOLEAN] /\ interrupted' \in [Proc -> BOOLEAN]
        /\ ~interrupted'[p]
        /\ exiting'[p] => trouble'[p] >= 1
        /\ \A q \in Proc : q # p => /\ exiting'[q] = exiting[q]
                                    /\ interrupted'[q] = interrupted[q]
    BY <1>0, <2>1 DEF ProcessTypeOK, Inv, Exits
  <2> QED
    BY <1>0, <2>1, <2>2, <2>3, InvMoves DEF ProcessTypeOK
<1>6. ASSUME NEW p \in Proc, NEW w \in Word, FlushWord(p, w) PROVE Inv'
  BY <1>6, InvFlushWord
<1>7. ASSUME NEW p \in Proc, FlushEnd(p) PROVE Inv'
  <2>1. /\ at[p] = "flush" /\ trouble' = trouble
        /\ \A w \in Word : pending[p][w] = 0
    BY <1>7 DEF FlushEnd, NoUpdates
  <2>2. CASE ~interrupted[p]
    <3>1. at' = [at EXCEPT ![p] = "close"]
          /\ UNCHANGED <<disk, exiting, sharedLock, holders, interrupted, cache,
                         pending, child, left>>
      BY <1>7, <2>2 DEF FlushEnd, GoTo
    <3> QED
      BY <1>0, <2>1, <3>1, InvMoves DEF ProcessTypeOK, Inv, Exits
  <2>3. CASE interrupted[p] /\ ~exiting[p]
    <3>1. /\ at' = [at EXCEPT ![p] = "flush"]
          /\ exiting' = [exiting EXCEPT ![p] = TRUE]
          /\ interrupted' = [interrupted EXCEPT ![p] = FALSE]
          /\ UNCHANGED <<disk, sharedLock, holders, cache, pending, child, left>>
      BY <1>7, <2>3 DEF FlushEnd, BeginExit
    <3>2. trouble[p] >= 1
      BY <2>3 DEF Inv, Exits
    <3> QED
      BY <1>0, <2>1, <3>1, <3>2, InvMoves DEF ProcessTypeOK
  <2>4. CASE interrupted[p] /\ exiting[p]
    BY <1>0, <1>7, <2>1, <2>4, InvGone DEF FlushEnd, ProcessTypeOK
  <2> QED
    BY <2>2, <2>3, <2>4
<1>8. ASSUME NEW p \in Proc, CloseDatabase(p) PROVE Inv'
  BY <1>8, InvClose
<1>9. ASSUME NEW p \in Proc, Release(p) PROVE Inv'
  BY <1>0, <1>9, InvGone DEF Release, ProcessTypeOK
<1>10. ASSUME NEW p \in Proc, ScheduleInterrupt(p) PROVE Inv'
  <2>1. /\ at[p] \in {"call", "flush", "close"} /\ ~exiting[p]
        /\ interrupted' = [interrupted EXCEPT ![p] = TRUE]
        /\ at' = [at EXCEPT ![p] = at[p]]
        /\ UNCHANGED <<disk, at, exiting, sharedLock, holders, cache, pending,
                       child, left>>
    BY <1>0, <1>10 DEF ScheduleInterrupt, Busy, ProcessTypeOK
  <2>2. /\ trouble' \in [Proc -> 0..MaxTrouble]
        /\ trouble'[p] >= 1
        /\ \A q \in Proc : q # p => trouble'[q] = trouble[q]
    BY <1>0, <1>10, TroubleEffect DEF ScheduleInterrupt
  <2>3. at[p] = "call" => p \in holders
    BY DEF Inv, Held
  <2>4. at[p] = "close" => \A w \in Word : pending[p][w] = 0
    BY DEF Inv, Closing
  <2> QED
    BY <1>0, <2>1, <2>2, <2>3, <2>4, InvMoves DEF ProcessTypeOK
<1>11. ASSUME NEW p \in Proc, SignalExits(p) PROVE Inv'
  <2>1. /\ trouble' \in [Proc -> 0..MaxTrouble]
        /\ trouble'[p] = trouble[p] + 1 /\ trouble[p] \in Nat
        /\ \A q \in Proc : q # p => trouble'[q] = trouble[q]
    BY <1>0, <1>11, TroubleEffect DEF SignalExits
  <2>2. CASE Gone(p)
    BY <2>1, <2>2, InvGone
  <2>3. CASE BeginExit(p) /\ ~Gone(p)
    <3>1. /\ at[p] # "idle"
          /\ at' = [at EXCEPT ![p] = "flush"]
          /\ exiting' = [exiting EXCEPT ![p] = TRUE]
          /\ UNCHANGED <<sharedLock, holders, child, left, disk, interrupted>>
          /\ \/ UNCHANGED <<cache, pending>>
             \/ at[p] = "call" /\ \E w \in Word : Read(p, w) \/ Update(p, w)
      BY <1>11, <2>3 DEF SignalExits, BeginExit
    <3>2. interrupted[p] => trouble[p] >= 1
      BY DEF Inv, Exits
    <3>3. at[p] # "lock" \/ p \notin holders
      BY DEF Inv, Held
    <3>4. /\ exiting' \in [Proc -> BOOLEAN] /\ interrupted' \in [Proc -> BOOLEAN]
          /\ left' \in [Proc -> 0..MaxCalls]
          /\ trouble'[p] >= 1
          /\ exiting'[p] /\ interrupted'[p] => trouble'[p] >= 2
          /\ \A q \in Proc : q # p => /\ exiting'[q] = exiting[q]
                                      /\ interrupted'[q] = interrupted[q]
      BY <1>0, <2>1, <3>1, <3>2 DEF ProcessTypeOK
    <3> QED
      BY <2>1, <3>1, <3>3, <3>4, InvMoves
  <2> QED
    BY <1>11, <2>2, <2>3 DEF SignalExits
<1>12. ASSUME NEW p \in Proc, SignalDuringExit(p) PROVE Inv'
  BY <1>0, <1>12, TroubleEffect, InvGone DEF SignalDuringExit
<1>13. ASSUME NEW p \in Proc, Throws(p) PROVE Inv'
  <2>1. /\ trouble' \in [Proc -> 0..MaxTrouble]
        /\ trouble'[p] = trouble[p] + 1 /\ trouble[p] \in Nat
        /\ \A q \in Proc : q # p => trouble'[q] = trouble[q]
    BY <1>0, <1>13, TroubleEffect DEF Throws
  <2>2. CASE exiting[p] \/ interrupted[p]
    BY <1>13, <2>1, <2>2, InvGone DEF Throws
  <2>3. CASE ~exiting[p] /\ ~interrupted[p]
    <3>1. /\ at[p] # "idle"
          /\ at' = [at EXCEPT ![p] = "flush"]
          /\ exiting' = [exiting EXCEPT ![p] = TRUE]
          /\ UNCHANGED <<sharedLock, holders, child, left, disk, interrupted, cache,
                         pending>>
      BY <1>13, <2>3 DEF Throws, BeginExit
    <3>2. at[p] # "lock" \/ p \notin holders
      BY DEF Inv, Held
    <3>3. /\ exiting' \in [Proc -> BOOLEAN] /\ interrupted' \in [Proc -> BOOLEAN]
          /\ left' \in [Proc -> 0..MaxCalls]
          /\ trouble'[p] >= 1 /\ ~interrupted'[p]
          /\ \A q \in Proc : q # p => /\ exiting'[q] = exiting[q]
                                      /\ interrupted'[q] = interrupted[q]
      BY <1>0, <2>1, <2>3, <3>1 DEF ProcessTypeOK
    <3> QED
      BY <2>1, <3>1, <3>2, <3>3, InvMoves
  <2> QED
    BY <2>2, <2>3
<1>14. ASSUME NEW p \in Proc, Killed(p) PROVE Inv'
  BY <1>0, <1>14, ProcessAssumption, InvGone DEF Killed, ProcessTypeOK
<1>15. CASE UNCHANGED processVars
  BY <1>15 DEF processVars, Inv, ProcessTypeOK, Held, Exclusive, Compatible, Cached, Unwritten,
     Closing, Exits
<1> QED
  BY <1>1, <1>2, <1>3, <1>4, <1>5, <1>6, <1>7, <1>8, <1>9, <1>10, <1>11, <1>12,
     <1>13, <1>14, <1>15 DEF ProcessNext, Advance

\* The state keeps its shape, for any processes and words.
THEOREM ProcessTypeCorrect == ProcessSpec => []ProcessTypeOK
<1>1. Inv => ProcessTypeOK
  BY DEF Inv
<1> QED
  BY <1>1, InvInit, InvStep, PTL DEF ProcessSpec

\* A process never works on a record that another process has changed, so that no
\* flush undoes an update (SpamFilter::open locks first, close unlocks last).
THEOREM CacheAlwaysFresh == ProcessSpec => []CacheFresh
<1>1. Inv => CacheFresh
  BY DEF Inv, Cached, CacheFresh
<1> QED
  BY <1>1, InvInit, InvStep, PTL DEF ProcessSpec

\* One signal or one error, at any point of a command, loses no update.
THEOREM OneTroubleNeverLoses == ProcessSpec => OneTroubleLosesNothing
<1>1. ASSUME Inv, [ProcessNext]_processVars, NEW p \in Proc, at[p] # "idle", at'[p] = "idle",
             trouble'[p] <= 1
      PROVE  pending[p] = NoUpdates
  <2>0. ProcessTypeOK
    BY <1>1 DEF Inv
  <2>1. CASE \E q \in Proc : Release(q) /\ q = p
    <3>1. at[p] = "release"
      BY <2>1 DEF Release
    <3>2. \A w \in Word : pending[p][w] = 0
      BY <1>1, <3>1 DEF Inv, Closing
    <3>3. pending[p] = [w \in Word |-> pending[p][w]]
      BY <2>0 DEF ProcessTypeOK
    <3> QED
      BY <3>2, <3>3 DEF NoUpdates
  <2>2. CASE FlushEnd(p)
    BY <2>2 DEF FlushEnd
  <2>3. CASE SignalExits(p) \/ SignalDuringExit(p) \/ Throws(p)
    <3>1. trouble'[p] = trouble[p] + 1 /\ trouble[p] \in Nat
      BY <2>0, <2>3, TroubleEffect DEF SignalExits, SignalDuringExit, Throws
    <3>2. exiting[p] \/ interrupted[p]
      <4>1. CASE SignalExits(p)
        <5>1. ~BeginExit(p)
          BY <1>1, <2>0 DEF BeginExit, ProcessTypeOK
        <5> QED
          BY <4>1, <5>1 DEF SignalExits, Busy
      <4>2. CASE SignalDuringExit(p)
        BY <4>2 DEF SignalDuringExit
      <4>3. CASE Throws(p)
        <5>1. ~BeginExit(p)
          BY <1>1, <2>0 DEF BeginExit, ProcessTypeOK
        <5> QED
          BY <4>3, <5>1 DEF Throws
      <4> QED
        BY <2>3, <4>1, <4>2, <4>3
    <3>3. trouble[p] >= 1
      BY <1>1, <3>2 DEF Inv, Exits
    <3> QED
      BY <1>1, <3>1, <3>3
  <2>4. CASE Killed(p)
    <3>1. trouble'[p] = MaxTrouble
      BY <2>0, <2>4 DEF Killed, ProcessTypeOK
    <3> QED
      BY <1>1, <3>1, ProcessAssumption
  <2>5. ASSUME NEW q \in Proc, q # p, Gone(q) PROVE FALSE
    BY <1>1, <2>0, <2>5 DEF Gone, ProcessTypeOK
  <2>6. ASSUME NEW q \in Proc, NEW stage, stage # "idle",
               at' = [at EXCEPT ![q] = stage]
        PROVE  FALSE
    BY <1>1, <2>0, <2>6 DEF ProcessTypeOK
  <2>7. ASSUME NEW q \in Proc, NEW c \in Proc, NEW stage, NEW ro,
               stage # "idle", Begin(q, stage, c, ro)
        PROVE  FALSE
    BY <1>1, <2>0, <2>7 DEF Begin, ProcessTypeOK
  <2>8. at' # at
    BY <1>1
  <2> QED
    <3>1. ASSUME NEW q \in Proc, FlushEnd(q), q # p PROVE FALSE
      BY <2>5, <2>6, <3>1 DEF FlushEnd, GoTo, BeginExit
    <3>2. ASSUME NEW q \in Proc, Release(q) \/ SignalDuringExit(q) \/ Killed(q), q # p
          PROVE  FALSE
      BY <2>5, <3>2 DEF Release, SignalDuringExit, Killed
    <3>3. ASSUME NEW q \in Proc, SignalExits(q) \/ Throws(q), q # p PROVE FALSE
      BY <2>5, <2>6, <3>3 DEF SignalExits, Throws, BeginExit
    <3>4. ASSUME NEW q \in Proc,
                 \/ Acquire(q) \/ OpenDatabase(q) \/ ChildEnded(q)
                 \/ StartCall(q) \/ EndCall(q) \/ Finish(q) \/ CloseDatabase(q)
          PROVE  FALSE
      BY <2>6, <3>4 DEF Acquire, OpenDatabase, ChildEnded, StartCall, EndCall,
         Finish, CloseDatabase, GoTo, BeginExit
    <3>5. ASSUME NEW q \in Proc, NEW ro \in BOOLEAN,
                 Start(q, ro) \/ \E c \in Proc : Exec(q, c, ro)
          PROVE  FALSE
      BY <2>7, <3>5 DEF Start, Exec
    <3>6. ASSUME NEW q \in Proc,
                 ScheduleInterrupt(q) \/ \E w \in Word : FlushWord(q, w)
          PROVE  FALSE
      BY <2>8, <3>6 DEF ScheduleInterrupt, FlushWord
    <3>7. ~UNCHANGED processVars
      BY <2>8 DEF processVars
    <3> QED
      BY <1>1, <2>1, <2>2, <2>3, <2>4, <3>1, <3>2, <3>3, <3>4, <3>5, <3>6, <3>7
         DEF ProcessNext, Advance
<1>2. Inv /\ [ProcessNext]_processVars
        => [\A p \in Proc : at[p] # "idle" /\ at'[p] = "idle" /\ trouble'[p] <= 1
              => pending[p] = NoUpdates]_processVars
  BY <1>1
<1> QED
  BY <1>2, InvInit, InvStep, PTL DEF ProcessSpec, OneTroubleLosesNothing

=============================================================================
