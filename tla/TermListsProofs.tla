--------------------------- MODULE TermListsProofs ---------------------------
(***************************************************************************)
(* Exports, imports and purges of terms are exact, for files, caches and   *)
(* databases of any size.                                                  *)
(***************************************************************************)
EXTENDS TermLists, FiniteSetTheorems, WellFoundedInduction, TLAPS

LEMMA Constants ==
  /\ IsFiniteSet(Name) /\ Key \subseteq Name /\ CountName \in Key
  /\ \A m \in Name : KeyOf[m] \in Key
  /\ \A k \in Key : KeyOf[k] = k
  /\ Slots \in Nat /\ Today \in Nat /\ MaxSize \in Nat /\ MaxSize >= 1
  /\ \A r : r \in Record \/ r \in Nat \/ r \in [key : Key, rec : Record]
            \/ r \in [name : Name, rec : Record] => r # None
  /\ \A lines \in Files : lines \in Seq(Line)
<1>1. \A k \in Key : KeyOf[k] = k /\ k \in Name
  BY ListAssumption DEF Key
<1>2. CountName \in Key
  BY ListAssumption DEF Key
<1> QED
  BY <1>1, <1>2, ListAssumption DEF Key

LEMMA EmptiedType == [n |-> 0, day |-> Today] \in Record
  BY Constants DEF Record

-----------------------------------------------------------------------------
(* Pieces of actions *)

LEMMA StoredType ==
  ASSUME TypeOK, NEW k \in Key
  PROVE  /\ Stored(k) \in Optional(Record)
         /\ SlotOf(k) # {} => Stored(k) \in Record
         /\ SlotOf(k) = {} => Stored(k) = None
<1>1. CASE SlotOf(k) = {}
  BY <1>1 DEF Stored, Optional
<1>2. CASE SlotOf(k) # {}
  <2> DEFINE i == CHOOSE j \in SlotOf(k) : TRUE
  <2>1. i \in SlotOf(k)
    BY <1>2
  <2>2. i \in Index /\ slot[i] # None
    BY <2>1 DEF SlotOf
  <2>3. slot[i] \in [key : Key, rec : Record]
    BY <2>2 DEF TypeOK, Optional
  <2>4. Stored(k) = slot[i].rec
    BY <1>2 DEF Stored
  <2> QED
    BY <1>2, <2>3, <2>4 DEF Optional
<1> QED
  BY <1>1, <1>2

LEMMA SeenType ==
  ASSUME TypeOK, NEW m \in Name
  PROVE  Seen(m) \in Optional(Record)
<1>1. KeyOf[m] \in Key
  BY Constants
<1> QED
  BY <1>1, StoredType DEF Seen, TypeOK, Optional

LEMMA AddedType ==
  ASSUME NEW r \in Optional(Record), NEW line \in Line
  PROVE  Added(r, line) \in Record
<1>1. (IF r = None THEN 0 ELSE r.n) \in Int
  BY DEF Optional, Record
<1>2. line.n \in Int /\ line.day \in (0..Today) \cup {None}
  BY DEF Line
<1> DEFINE sum == (IF r = None THEN 0 ELSE r.n) + line.n
<1>3. sum \in Int
  BY <1>1, <1>2
<1> HIDE DEF sum
<1>4. Clamped(sum) \in Nat
  BY <1>3 DEF Clamped
<1>5. (IF r = None /\ line.day # None THEN line.day ELSE Today) \in 0..Today
  BY <1>2, Constants
<1> QED
  BY <1>4, <1>5 DEF Added, Record, sum

\* A cache with room takes one more record.
LEMMA PutEffect ==
  ASSUME TypeOK, NEW m \in Name, NEW r \in Record, Put(m, r),
         Cardinality(Locked) < MaxSize
  PROVE  /\ dirty' \in [Name -> Optional(Record)]
         /\ Cardinality(Locked') <= MaxSize
         /\ \A other \in Name : other # m => dirty'[other] = dirty[other]
         /\ dirty'[m] = r \/ (dirty'[m] = dirty[m] /\ Seen(m) = r)
<1>1. dirty \in [Name -> Optional(Record)]
  BY DEF TypeOK
<1>2. IsFiniteSet(Locked) /\ Cardinality(Locked) \in Nat
  BY Constants, FS_Subset, FS_CardinalityType DEF Locked
<1>3. CASE Seen(m) = r
  <2>1. dirty' = dirty
    BY <1>3 DEF Put
  <2>2. Locked' = Locked
    BY <2>1 DEF Locked
  <2> QED
    BY <1>1, <1>2, <1>3, <2>1, <2>2, Constants
<1>4. CASE Seen(m) # r
  <2>1. dirty' = [dirty EXCEPT ![m] = r]
    BY <1>4 DEF Put
  <2>2. dirty' \in [Name -> Optional(Record)]
    BY <1>1, <2>1 DEF Optional
  <2>3. Locked' = Locked \cup {m}
    BY <1>1, <2>1, Constants DEF Locked
  <2>4. Cardinality(Locked \cup {m}) <= Cardinality(Locked) + 1
    <3>1. CASE m \in Locked
      <4>1. Locked \cup {m} = Locked
        BY <3>1
      <4>2. Cardinality(Locked \cup {m}) = Cardinality(Locked)
        BY <4>1, Zenon
      <4> QED
        BY <1>2, <4>2
    <3>2. CASE m \notin Locked
      <4>1. Cardinality(Locked \cup {m}) = Cardinality(Locked) + 1
        BY <1>2, <3>2, FS_AddElement
      <4> QED
        BY <1>2, <4>1
    <3> QED
      BY <3>1, <3>2
  <2>5. Cardinality(Locked') \in Nat
    BY <1>2, <2>3, FS_AddElement, FS_CardinalityType
  <2>6. Cardinality(Locked') <= MaxSize
    BY <1>2, <2>3, <2>4, <2>5, Constants
  <2> QED
    BY <1>1, <2>1, <2>2, <2>6
<1> QED
  BY <1>3, <1>4

LEMMA WriteWordEffect ==
  ASSUME TypeOK, at = "run", NEW m \in Name, NEW r \in Record,
         NEW next \in {"run", "flush"}, WriteWord(m, r, next)
  PROVE  /\ dirty' \in [Name -> Optional(Record)]
         /\ Cardinality(Locked') <= MaxSize
         /\ at' \in {"run", "flush"}
         /\ held' \in Optional([name : Name, rec : Record])
         /\ held' # None => at' = "flush"
         /\ \A other \in Name : other # m => dirty'[other] = dirty[other]
         /\ \/ held' = [name |-> m, rec |-> r] /\ dirty' = dirty
            \/ held' = None /\ dirty'[m] = r
            \/ held' = None /\ dirty'[m] = dirty[m] /\ Seen(m) = r
<1>1. dirty \in [Name -> Optional(Record)] /\ Cardinality(Locked) <= MaxSize
  BY DEF TypeOK
<1>2. Cardinality(Locked) \in Nat
  BY Constants, FS_Subset, FS_CardinalityType DEF Locked
<1>3. CASE Cardinality(Locked) >= MaxSize
  <2>1. at' = "flush" /\ held' = [name |-> m, rec |-> r] /\ dirty' = dirty
    BY <1>3 DEF WriteWord
  <2>2. Locked' = Locked
    BY <2>1 DEF Locked
  <2> QED
    BY <1>1, <2>1, <2>2 DEF Optional
<1>4. CASE ~(Cardinality(Locked) >= MaxSize)
  <2>1. Put(m, r) /\ at' = next /\ held' = None
    BY <1>4 DEF WriteWord
  <2>2. Cardinality(Locked) < MaxSize
    BY <1>2, <1>4, Constants
  <2> QED
    BY <2>1, <2>2, PutEffect DEF Optional
<1> QED
  BY <1>3, <1>4

\* The end of a process has an initial state but for the file.
LEMMA EndedEffect ==
  ASSUME TypeOK, Ended
  PROVE  TypeOK'
<1>1. Locked' = {}
  BY DEF Ended, NothingDirty, Locked
<1>2. Cardinality(Locked') <= MaxSize
  BY <1>1, FS_EmptySet, Constants
<1>3. dirty' \in [Name -> Optional(Record)] /\ before' \in [Key -> Optional(Record)]
  BY DEF Ended, NothingDirty, Optional
<1> QED
  BY <1>2, <1>3 DEF Ended, TypeOK, Optional

LEMMA FinishEffect ==
  ASSUME TypeOK, at = "run", Finish
  PROVE  TypeOK'
<1>1. Locked' = Locked
  BY DEF Finish, Locked
<1> QED
  BY <1>1 DEF Finish, TypeOK

LEMMA StartEffect ==
  ASSUME TypeOK, NEW command \in {"export", "import", "purge-terms"},
         NEW lines \in Seq(Line), NEW matches \in SUBSET Name,
         Start(command, lines, matches)
  PROVE  TypeOK'
<1>1. Locked' = Locked
  BY DEF Start, Locked
<1>2. before' \in [Key -> Optional(Record)]
  BY StoredType DEF Start, Contents
<1> QED
  BY <1>1, <1>2 DEF Start, TypeOK

\* A nonempty set of naturals has a smallest element.
LEMMA Smallest == ASSUME NEW S, S \subseteq Nat, S # {}
                  PROVE  \E i \in S : \A j \in S : i <= j
<1>1. PICK x \in S : \A y \in S : ~ (<<y, x>> \in OpToRel(<, Nat))
  BY WFMin, NatLessThanWellFounded, Zenon
<1>2. \A y \in S : ~ (y < x)
  BY <1>1 DEF OpToRel
<1> QED
  BY <1>2

LEMMA FirstLocked ==
  ASSUME TypeOK, Locked # {}
  PROVE  /\ First \in Locked /\ First \in Name
         /\ dirty[First] \in Record /\ KeyOf[First] \in Key
<1>1. Locked \subseteq Nat /\ Locked \subseteq Name
  BY ListAssumption DEF Locked
<1>2. \E m \in Locked : \A other \in Locked : m <= other
  BY <1>1, Smallest
<1>3. First \in Locked
  BY <1>2 DEF First
<1> QED
  BY <1>1, <1>3, Constants DEF Locked, TypeOK, Optional
LEMMA FlushRecordEffect ==
  ASSUME TypeOK, FlushRecord
  PROVE  /\ First \in Locked /\ First \in Name /\ dirty[First] \in Record
         /\ \E i \in Index :
              /\ i \in Room(KeyOf[First])
              /\ slot' = [slot EXCEPT ![i] =
                           [key |-> KeyOf[First], rec |-> dirty[First]]]
         /\ slot' \in [Index -> Optional([key : Key, rec : Record])]
         /\ dirty' \in [Name -> Optional(Record)]
         /\ dirty' = [dirty EXCEPT ![First] = None]
         /\ Cardinality(Locked') <= MaxSize
<1>1. Locked # {} /\ dirty' = [dirty EXCEPT ![First] = None]
  BY DEF FlushRecord
<1>2. First \in Locked /\ First \in Name /\ dirty[First] \in Record
      /\ KeyOf[First] \in Key
  BY <1>1, FirstLocked
<1>3. dirty \in [Name -> Optional(Record)] /\ Cardinality(Locked) <= MaxSize
      /\ slot \in [Index -> Optional([key : Key, rec : Record])]
  BY DEF TypeOK
<1> DEFINE m == First
<1> HIDE DEF m
<1>4. dirty' = [dirty EXCEPT ![m] = None] /\ m \in Name /\ m \in Locked
  BY <1>1, <1>2 DEF m
<1>5. dirty' \in [Name -> Optional(Record)]
  BY <1>3, <1>4 DEF Optional
<1>6. Locked' \subseteq Locked
  BY <1>3, <1>4 DEF Locked
<1>7. Cardinality(Locked') <= MaxSize
  <2>1. IsFiniteSet(Locked)
    BY Constants, FS_Subset DEF Locked
  <2>2. /\ Cardinality(Locked') <= Cardinality(Locked)
        /\ Cardinality(Locked') \in Nat /\ Cardinality(Locked) \in Nat
    BY <1>6, <2>1, FS_Subset, FS_CardinalityType
  <2> QED
    BY <1>3, <2>2, Constants
<1>8. PICK i \in Room(KeyOf[First]) :
        slot' = [slot EXCEPT ![i] = [key |-> KeyOf[First],
                                     rec |-> dirty[First]]]
  BY DEF FlushRecord
<1>9. i \in Index
  BY <1>8 DEF Room, SlotOf
<1>10. slot' \in [Index -> Optional([key : Key, rec : Record])]
  BY <1>2, <1>3, <1>8, <1>9 DEF Optional
<1> QED
  BY <1>1, <1>2, <1>5, <1>7, <1>8, <1>9, <1>10 DEF m

-----------------------------------------------------------------------------
(* Types *)

LEMMA TypeInit == Init => TypeOK
<1> SUFFICES ASSUME Init PROVE TypeOK
  OBVIOUS
<1>1. Locked = {}
  BY DEF Init, NothingDirty, Locked
<1>2. Cardinality(Locked) <= MaxSize
  BY <1>1, FS_EmptySet, Constants
<1>3. dirty \in [Name -> Optional(Record)] /\ before \in [Key -> Optional(Record)]
  BY DEF Init, NothingDirty, Optional
<1>4. [key |-> CountName, rec |-> [n |-> 0, day |-> 0]] \in [key : Key, rec : Record]
  BY Constants DEF Record
<1>5. slot \in [Index -> Optional([key : Key, rec : Record])]
  BY <1>4 DEF Init, Optional
<1> QED
  BY <1>2, <1>3, <1>5 DEF Init, TypeOK, Optional

LEMMA SlotRecord ==
  ASSUME TypeOK, NEW i \in Index, slot[i] # None
  PROVE  /\ slot[i].key \in Key /\ slot[i].key \in Name
         /\ slot[i].rec \in Record
         /\ slot[i].rec.n \in Nat /\ slot[i].rec.day \in 0..Today
         /\ i \in SlotOf(slot[i].key)
         /\ SlotOf(slot[i].key) # {}
  BY Constants DEF TypeOK, Optional, Record, SlotOf

LEMMA TypeStep == TypeOK /\ OneSlotEach /\ [Next]_vars => TypeOK'
<1> SUFFICES ASSUME TypeOK, OneSlotEach, [Next]_vars
             PROVE  TypeOK'
  OBVIOUS
<1>1. CASE Start("export", <<>>, {})
  <2>1. <<>> \in Seq(Line) /\ {} \in SUBSET Name
    OBVIOUS
  <2> QED
    BY <1>1, <2>1, StartEffect
<1>2. ASSUME NEW lines \in Files, Start("import", lines, {})
      PROVE  TypeOK'
  BY <1>2, StartEffect, Constants
<1>3. ASSUME NEW matches \in Patterns, Start("purge-terms", <<>>, matches)
      PROVE  TypeOK'
  <2>1. matches \in SUBSET Name
    BY ListAssumption
  <2>2. <<>> \in Seq(Line)
    OBVIOUS
  <2> QED
    BY <1>3, <2>1, <2>2, StartEffect
<1>4. CASE ExportNext
  <2>1. Locked' = Locked
    BY <1>4 DEF ExportNext, Locked
  <2>2. cursor \in Index /\ (Listed(cursor) => slot[cursor] # None)
    BY <1>4 DEF ExportNext, Listed, OneSlotEach
  <2>3. out' \in Seq(Line)
    <3>1. CASE Listed(cursor)
      <4>1. [name |-> slot[cursor].key, n |-> slot[cursor].rec.n,
             day |-> slot[cursor].rec.day] \in Line
        BY <2>2, <3>1, SlotRecord DEF Line
      <4> QED
        BY <1>4, <3>1, <4>1 DEF ExportNext, TypeOK
    <3>2. CASE ~Listed(cursor)
      BY <1>4, <3>2 DEF ExportNext, TypeOK
    <3> QED
      BY <3>1, <3>2
  <2>4. /\ cursor' \in Nat
        /\ UNCHANGED <<slot, dirty, op, at, ok, input, pattern, held, before>>
    BY <1>4 DEF ExportNext, TypeOK
  <2> QED
    BY <2>1, <2>3, <2>4 DEF TypeOK
<1>5. CASE ExportEnd
  BY <1>5, FinishEffect DEF ExportEnd
<1>6. CASE PurgeNext
  <2>0. /\ cursor' \in Nat
        /\ UNCHANGED <<slot, op, ok, input, pattern, out, before>>
    BY <1>6 DEF PurgeNext, TypeOK
  <2>1. CASE Listed(cursor) /\ slot[cursor].key \in pattern
    <3>1. cursor \in Index /\ slot[cursor] # None
      BY <1>6, <2>1 DEF PurgeNext, Listed, OneSlotEach
    <3>2. Seen(slot[cursor].key) \in Optional(Record)
      BY <3>1, SlotRecord, SeenType
    <3>3. [name |-> slot[cursor].key, n |-> -slot[cursor].rec.n,
           day |-> None] \in Line
      BY <3>1, SlotRecord DEF Line
    <3> DEFINE r == Added(Seen(slot[cursor].key),
                          [name |-> slot[cursor].key,
                           n |-> -slot[cursor].rec.n, day |-> None])
    <3>4. r \in Record
      BY <3>2, <3>3, AddedType
    <3>5. WriteWord(slot[cursor].key, r, "run") /\ at = "run"
      BY <1>6, <2>1 DEF PurgeNext, Remove
    <3>6. slot[cursor].key \in Name
      BY <3>1, SlotRecord
    <3> HIDE DEF r
    <3>7. /\ dirty' \in [Name -> Optional(Record)]
          /\ Cardinality(Locked') <= MaxSize
          /\ at' \in {"run", "flush"}
          /\ held' \in Optional([name : Name, rec : Record])
          /\ held' # None => at' = "flush"
      BY <3>4, <3>5, <3>6, WriteWordEffect
    <3> QED
      BY <2>0, <3>7 DEF TypeOK
  <2>2. CASE ~(Listed(cursor) /\ slot[cursor].key \in pattern)
    <3>1. UNCHANGED <<dirty, at, held>>
      BY <1>6, <2>2 DEF PurgeNext
    <3>2. Locked' = Locked
      BY <3>1 DEF Locked
    <3> QED
      BY <2>0, <3>1, <3>2 DEF TypeOK
  <2> QED
    BY <2>1, <2>2
<1>7. CASE PurgeEnd
  BY <1>7, FinishEffect DEF PurgeEnd
<1>8. CASE ImportNext
  <2> DEFINE line == input[cursor + 1]
             r == Added(Seen(line.name), line)
             next == IF FlushDue(cursor + 1) THEN "flush" ELSE "run"
  <2>1. line \in Line
    BY <1>8 DEF ImportNext, TypeOK
  <2>2. line.name \in Name
    BY <2>1 DEF Line
  <2>3. r \in Record
    BY <2>1, <2>2, SeenType, AddedType
  <2>4. WriteWord(line.name, r, next) /\ at = "run"
    BY <1>8 DEF ImportNext
  <2> HIDE DEF r, line
  <2>5. /\ dirty' \in [Name -> Optional(Record)]
        /\ Cardinality(Locked') <= MaxSize
        /\ at' \in {"run", "flush"}
        /\ held' \in Optional([name : Name, rec : Record])
        /\ held' # None => at' = "flush"
    BY <2>2, <2>3, <2>4, WriteWordEffect
  <2>6. /\ cursor' \in Nat
        /\ UNCHANGED <<slot, op, ok, input, pattern, out, before>>
    BY <1>8 DEF ImportNext, TypeOK
  <2> QED
    BY <2>5, <2>6 DEF TypeOK
<1>9. CASE ImportEnd
  BY <1>9, FinishEffect DEF ImportEnd
<1>10. CASE FlushRecord
  BY <1>10, FlushRecordEffect DEF FlushRecord, TypeOK
<1>11. CASE FlushEnd
  <2>1. Cardinality(Locked) < MaxSize
    BY <1>11, FS_EmptySet, Constants DEF FlushEnd
  <2>2. CASE held = None
    <3>1. dirty' = dirty /\ Locked' = Locked
      BY <1>11, <2>2 DEF FlushEnd, Locked
    <3> QED
      BY <1>11, <2>2, <3>1 DEF FlushEnd, TypeOK
  <2>3. CASE held # None
    <3>1. held.name \in Name /\ held.rec \in Record
      BY <2>3 DEF TypeOK, Optional
    <3>2. Put(held.name, held.rec)
      BY <1>11, <2>3 DEF FlushEnd
    <3>3. /\ dirty' \in [Name -> Optional(Record)]
          /\ Cardinality(Locked') <= MaxSize
      BY <2>1, <3>1, <3>2, PutEffect
    <3> QED
      BY <1>11, <3>3 DEF FlushEnd, TypeOK, Optional
  <2> QED
    BY <2>2, <2>3
<1>12. CASE FileFull
  <2>1. CASE Ended
    BY <2>1, EndedEffect
  <2>2. CASE ~Ended
    <3>1. /\ at' = "exit" /\ ok' = FALSE /\ held' = None
          /\ UNCHANGED <<slot, dirty, op, cursor, input, pattern, out, before>>
      BY <1>12, <2>2 DEF FileFull
    <3>2. Locked' = Locked
      BY <3>1 DEF Locked
    <3> QED
      BY <3>1, <3>2 DEF TypeOK, Optional
  <2> QED
    BY <2>1, <2>2
<1>13. CASE Interrupt
  <2>1. Locked' = Locked
    BY <1>13 DEF Interrupt, Locked
  <2> QED
    BY <1>13, <2>1 DEF Interrupt, TypeOK
<1>14. CASE Close
  BY <1>14, EndedEffect DEF Close
<1>15. CASE Killed
  BY <1>15, EndedEffect DEF Killed
<1>16. CASE UNCHANGED vars
  <2>1. Locked' = Locked
    BY <1>16 DEF vars, Locked
  <2> QED
    BY <1>16, <2>1 DEF vars, TypeOK
<1> QED
  BY <1>1, <1>2, <1>3, <1>4, <1>5, <1>6, <1>7, <1>8, <1>9, <1>10, <1>11, <1>12,
     <1>13, <1>14, <1>15, <1>16 DEF Next

-----------------------------------------------------------------------------
(* Slots *)

\* A flush writes over the record's own slot, or takes a free one for a record
\* that had none.
LEMMA OneSlotStep == TypeOK /\ OneSlotEach /\ [Next]_vars => OneSlotEach'
<1> SUFFICES ASSUME TypeOK, OneSlotEach, [Next]_vars
             PROVE  OneSlotEach'
  OBVIOUS
<1>1. CASE slot' = slot
  BY <1>1 DEF OneSlotEach
<1>2. CASE FlushRecord
  <2> DEFINE k == KeyOf[First]
             r == dirty[First]
  <2>1. PICK i \in Index :
          /\ i \in Room(k)
          /\ slot' = [slot EXCEPT ![i] = [key |-> k, rec |-> r]]
    BY <1>2, FlushRecordEffect
  <2> HIDE DEF k, r
  <2>2. slot \in [Index -> Optional([key : Key, rec : Record])]
    BY DEF TypeOK
  <2>3. /\ slot'[i].key = k
        /\ \A j \in Index : j # i => slot'[j] = slot[j]
    BY <2>1, <2>2
  <2>4. \A j \in Index : slot[j] # None /\ slot[j].key = k => i = j
    BY <2>1 DEF Room, SlotOf, OneSlotEach
  <2>5. slot'[0] # None /\ slot'[0].key = CountName
    <3>1. 0 \in Index /\ slot[0] # None
      BY Constants DEF Index, OneSlotEach
    <3>2. CASE i = 0
      <4>1. slot[0].key = k
        BY <2>1, <3>1, <3>2 DEF Room, SlotOf
      <4>2. slot'[0] = [key |-> k, rec |-> r]
        BY <2>1, <2>2, <3>1, <3>2
      <4>3. [key |-> k, rec |-> r] \in [key : Key, rec : Record]
        BY <1>2, FlushRecordEffect, Constants DEF k, r
      <4>4. [key |-> k, rec |-> r] # None
        BY <4>3, Constants
      <4> QED
        BY <4>1, <4>2, <4>4 DEF OneSlotEach
    <3>3. CASE i # 0
      BY <2>3, <3>1, <3>3 DEF OneSlotEach
    <3> QED
      BY <3>2, <3>3
  <2>6. \A j, l \in Index : slot'[j] # None /\ slot'[l] # None /\ j # l
          => slot'[j].key # slot'[l].key
    BY <2>3, <2>4 DEF OneSlotEach
  <2> QED
    BY <2>5, <2>6 DEF OneSlotEach
<1>3. slot' = slot \/ FlushRecord
  BY DEF Next, Start, ExportNext, ExportEnd, PurgeNext, PurgeEnd, ImportNext,
         ImportEnd, Finish, FlushEnd, FileFull, Ended, Interrupt, Close, Killed,
         vars
<1> QED
  BY <1>1, <1>2, <1>3

LEMMA OneSlotInit == Init => OneSlotEach
<1>1. [key |-> CountName, rec |-> [n |-> 0, day |-> 0]] # None
  <2>1. [key |-> CountName, rec |-> [n |-> 0, day |-> 0]]
          \in [key : Key, rec : Record]
    BY Constants DEF Record
  <2> QED
    BY <2>1, Constants
<1>2. 0 \in Index
  BY Constants DEF Index
<1> QED
  BY <1>1, <1>2 DEF Init, OneSlotEach

LEMMA StoredIn ==
  ASSUME TypeOK, OneSlotEach, NEW i \in Index, slot[i] # None
  PROVE  Stored(slot[i].key) = slot[i].rec
<1> DEFINE k == slot[i].key
<1>1. i \in SlotOf(k)
  BY DEF SlotOf
<1>2. \A j \in SlotOf(k) : j = i
  BY DEF SlotOf, OneSlotEach
<1>3. (CHOOSE j \in SlotOf(k) : TRUE) = i
  BY <1>1, <1>2
<1> QED
  BY <1>1, <1>3 DEF Stored

-----------------------------------------------------------------------------
(* What holds while commands run *)

\* Between commands there is nothing but the file.
Idle == op = "none" => /\ Locked = {} /\ at = "run" /\ ok /\ cursor = 0
                       /\ out = <<>> /\ held = None

\* The file has what it had when the command started.
Faithful == /\ \A i \in Index : slot[i] # None =>
                 before[slot[i].key] = slot[i].rec
            /\ \A k \in Key : SlotOf(k) = {} => before[k] = None

RowOf(i) == [name |-> slot[i].key, n |-> slot[i].rec.n, day |-> slot[i].rec.day]

\* The lines of an export are the listed slots it has passed, each once.
Exporting ==
  op = "export" =>
    /\ Locked = {} /\ at # "flush" /\ Faithful
    /\ \A j \in 1..Len(out) : \E i \in Index :
         i < cursor /\ Listed(i) /\ out[j] = RowOf(i)
    /\ \A i \in Index : i < cursor /\ Listed(i) =>
         \E j \in 1..Len(out) : out[j] = RowOf(i)
    /\ \A j, l \in 1..Len(out) : j # l => out[j].name # out[l].name
    /\ at = "exit" /\ ok => cursor \notin Index

Emptied == [n |-> 0, day |-> Today]

Matched(k) == k \in pattern /\ (k = CountName \/ (before[k] # None /\ before[k].n > 0))

\* The iteration has passed the slot of m, and m is to be emptied.
Visited(m) == m \in Key /\ Matched(m) /\ \E i \in SlotOf(m) : i < cursor

Waiting(m) == dirty[m] # None \/ (held # None /\ held.name = m)

\* A slot has its old record, unless it matches and was passed: then it has been
\* emptied, or the cache or the waiting write will do so.
Purging ==
  op = "purge-terms" /\ ok =>
    /\ \A m \in Name : dirty[m] # None => dirty[m] = Emptied /\ Visited(m)
    /\ held # None => held.rec = Emptied /\ Visited(held.name)
    /\ \A k \in Key : SlotOf(k) = {} => before[k] = None
    /\ \A k \in Key : \A i \in SlotOf(k) :
         \/ slot[i].rec = before[k] /\ (i < cursor /\ Matched(k) => Waiting(k))
         \/ slot[i].rec = Emptied /\ i < cursor /\ Matched(k)
    /\ at = "exit" => cursor \notin Index

ListInv == TypeOK /\ OneSlotEach /\ Idle /\ Exporting /\ Purging

\* Only starting and ending change the command.
LEMMA OpStep ==
  ASSUME [Next]_vars
  PROVE  \/ op' = op
         \/ op' = "none" /\ Ended
         \/ \E command, lines, matches : Start(command, lines, matches)
<1>1. CASE Start("export", <<>>, {})
  BY <1>1
<1>2. CASE \E lines \in Files : Fits(lines) /\ Start("import", lines, {})
  BY <1>2
<1>3. CASE \E matches \in Patterns : Start("purge-terms", <<>>, matches)
  BY <1>3
<1>4. CASE /\ ~Start("export", <<>>, {})
           /\ ~\E lines \in Files : Fits(lines) /\ Start("import", lines, {})
           /\ ~\E matches \in Patterns : Start("purge-terms", <<>>, matches)
  <2>1. \/ ExportNext \/ ExportEnd \/ PurgeNext \/ PurgeEnd \/ ImportNext
        \/ ImportEnd \/ FlushRecord \/ FlushEnd \/ FileFull \/ Interrupt
        \/ Close \/ Killed \/ UNCHANGED vars
    BY <1>4, Zenon DEF Next
  <2>2. CASE FileFull \/ Close \/ Killed
    BY <2>2 DEF FileFull, Close, Killed, Ended
  <2>3. CASE \/ ExportNext \/ ExportEnd \/ PurgeNext \/ PurgeEnd \/ ImportNext
             \/ ImportEnd \/ FlushRecord \/ FlushEnd \/ Interrupt
             \/ UNCHANGED vars
    BY <2>3 DEF ExportNext, ExportEnd, PurgeNext, PurgeEnd, ImportNext,
         ImportEnd, Finish, FlushRecord, FlushEnd, Interrupt, vars
  <2> QED
    BY <2>1, <2>2, <2>3
<1> QED
  BY <1>1, <1>2, <1>3, <1>4

LEMMA IdleStep == ListInv /\ [Next]_vars => Idle'
<1> SUFFICES ASSUME ListInv, [Next]_vars, op' = "none"
             PROVE  /\ Locked' = {} /\ at' = "run" /\ ok' /\ cursor' = 0
                    /\ out' = <<>> /\ held' = None
  BY DEF Idle
<1>1. CASE Ended
  BY <1>1 DEF Ended, NothingDirty, Locked
<1>2. CASE op = "none" /\ ~Ended
  <2>1. UNCHANGED vars
    BY <1>2 DEF Next, Start, ExportNext, ExportEnd, PurgeNext, PurgeEnd,
         ImportNext, ImportEnd, Finish, FlushRecord, FlushEnd, FileFull,
         Interrupt, Close, Killed
  <2> QED
    BY <1>2, <2>1 DEF ListInv, Idle, vars, Locked
<1> QED
  BY <1>1, <1>2, OpStep DEF Start

\* A command finds what it calls before.
LEMMA StartFaithful ==
  ASSUME ListInv, NEW command, NEW lines, NEW matches,
         Start(command, lines, matches)
  PROVE  /\ Faithful'
         /\ Locked' = {} /\ at' = "run" /\ cursor' = 0 /\ out' = <<>>
         /\ held' = None /\ dirty' = dirty /\ slot' = slot
<1>1. /\ slot' = slot /\ before' = Contents /\ dirty' = dirty
      /\ UNCHANGED <<at, cursor, out, held>> /\ op = "none"
  BY DEF Start
<1>2. Locked' = Locked /\ Locked = {} /\ at = "run" /\ cursor = 0 /\ out = <<>>
      /\ held = None
  BY <1>1 DEF ListInv, Idle, Locked
<1>3. ASSUME NEW i \in Index, slot[i] # None
      PROVE  before'[slot[i].key] = slot[i].rec
  BY <1>1, <1>3, StoredIn, SlotRecord DEF ListInv, Contents
<1>4. ASSUME NEW k \in Key, SlotOf(k) = {}
      PROVE  before'[k] = None
  BY <1>1, <1>4, StoredType DEF ListInv, Contents
<1>5. \A k : SlotOf(k)' = SlotOf(k)
  BY <1>1 DEF SlotOf
<1> QED
  BY <1>1, <1>2, <1>3, <1>4, <1>5 DEF Faithful

-----------------------------------------------------------------------------
(* Export *)

LEMMA ExportingStep == ListInv /\ [Next]_vars => Exporting'
<1> SUFFICES ASSUME ListInv, [Next]_vars, op' = "export"
             PROVE  Exporting'
  BY DEF Exporting
<1>1. CASE op # "export"
  <2>1. PICK command, lines, matches : Start(command, lines, matches)
    BY <1>1, OpStep
  <2> QED
    BY <2>1, StartFaithful DEF Exporting, Index
<1>2. CASE op = "export"
  <2>1. /\ Locked = {} /\ at # "flush" /\ Faithful
        /\ \A j \in 1..Len(out) : \E i \in Index :
             i < cursor /\ Listed(i) /\ out[j] = RowOf(i)
        /\ \A i \in Index : i < cursor /\ Listed(i) =>
             \E j \in 1..Len(out) : out[j] = RowOf(i)
        /\ \A j, l \in 1..Len(out) : j # l => out[j].name # out[l].name
        /\ at = "exit" /\ ok => cursor \notin Index
    BY <1>2 DEF ListInv, Exporting
  <2>2. \/ ExportNext \/ ExportEnd \/ Interrupt \/ UNCHANGED vars
    BY <1>2, <2>1 DEF Next, Start, PurgeNext, PurgeEnd, ImportNext, ImportEnd,
         FlushRecord, FlushEnd, FileFull, Close, Ended, Killed
  <2>3. slot' = slot /\ dirty' = dirty /\ before' = before
    BY <2>2 DEF ExportNext, ExportEnd, Finish, Interrupt, vars
  <2>4. /\ Locked' = {} /\ Faithful'
        /\ \A i \in Index : RowOf(i)' = RowOf(i) /\ Listed(i)' = Listed(i)
    BY <2>1, <2>3 DEF Locked, Faithful, SlotOf, RowOf, Listed
  <2>5. CASE ExportNext
    <3>1. /\ cursor \in Index /\ at' = at /\ at = "run" /\ cursor' = cursor + 1
          /\ cursor \in Nat
      BY <2>5 DEF ExportNext, ListInv, TypeOK
    <3>2. \A i \in Index : i < cursor' <=> i < cursor \/ i = cursor
      BY <3>1, Constants DEF Index
    <3>3. CASE ~Listed(cursor)
      <4>1. out' = out
        BY <2>5, <3>3 DEF ExportNext
      <4> QED
        BY <2>1, <2>4, <3>1, <3>2, <3>3, <4>1 DEF Exporting
    <3>4. CASE Listed(cursor)
      <4>1. out' = Append(out, RowOf(cursor)) /\ out \in Seq(Line)
        BY <2>5, <3>4 DEF ExportNext, RowOf, ListInv, TypeOK
      <4>2. slot[cursor] # None /\ RowOf(cursor).name = slot[cursor].key
        BY <3>4 DEF Listed, ListInv, OneSlotEach, RowOf
      <4>3. /\ Len(out') = Len(out) + 1 /\ Len(out) \in Nat
            /\ out'[Len(out) + 1] = RowOf(cursor)
            /\ \A j \in 1..Len(out) : out'[j] = out[j]
        BY <4>1
      <4>4. \A j \in 1..Len(out) : out[j].name # slot[cursor].key
        <5> SUFFICES ASSUME NEW j \in 1..Len(out)
                     PROVE  out[j].name # slot[cursor].key
          OBVIOUS
        <5>1. PICK i \in Index : i < cursor /\ Listed(i) /\ out[j] = RowOf(i)
          BY <2>1
        <5>2. slot[i] # None /\ i # cursor
          BY <3>1, <5>1, Constants DEF Listed, ListInv, OneSlotEach, Index
        <5> QED
          BY <3>1, <4>2, <5>1, <5>2 DEF ListInv, OneSlotEach, RowOf
      <4>5. \A j \in 1..Len(out') : j \in 1..Len(out) \/ j = Len(out) + 1
        BY <4>3
      <4>6. \A j \in 1..Len(out') : \E i \in Index :
              i < cursor' /\ Listed(i)' /\ out'[j] = RowOf(i)'
        <5> SUFFICES ASSUME NEW j \in 1..Len(out')
                     PROVE  \E i \in Index :
                              i < cursor' /\ Listed(i)' /\ out'[j] = RowOf(i)'
          OBVIOUS
        <5>1. CASE j \in 1..Len(out)
          BY <2>1, <2>4, <3>2, <4>3, <5>1
        <5>2. CASE j = Len(out) + 1
          BY <2>4, <3>1, <3>2, <3>4, <4>3, <5>2
        <5> QED
          BY <4>5, <5>1, <5>2
      <4>7. \A i \in Index : i < cursor' /\ Listed(i)' =>
              \E j \in 1..Len(out') : out'[j] = RowOf(i)'
        <5> SUFFICES ASSUME NEW i \in Index, i < cursor', Listed(i)'
                     PROVE  \E j \in 1..Len(out') : out'[j] = RowOf(i)
          BY <2>4
        <5>1. CASE i < cursor
          <6>1. PICK j \in 1..Len(out) : out[j] = RowOf(i)
            BY <2>1, <2>4, <5>1
          <6>2. j \in 1..Len(out') /\ out'[j] = RowOf(i)
            BY <4>3, <6>1
          <6> QED
            BY <6>2
        <5>2. CASE i = cursor
          <6>1. Len(out) + 1 \in 1..Len(out')
            BY <4>3
          <6> QED
            BY <4>3, <5>2, <6>1
        <5> QED
          BY <3>2, <5>1, <5>2
      <4>8. \A j, l \in 1..Len(out') : j # l => out'[j].name # out'[l].name
        <5>1. \A j \in 1..Len(out) : out'[j].name = out[j].name
          BY <4>3
        <5>2. out'[Len(out) + 1].name = slot[cursor].key
          BY <4>2, <4>3
        <5> HIDE <4>1, <4>3
        <5> QED
          BY <2>1, <4>4, <4>5, <5>1, <5>2
      <4> QED
        BY <2>4, <3>1, <4>6, <4>7, <4>8 DEF Exporting
    <3> QED
      BY <3>3, <3>4
  <2>6. CASE ExportEnd \/ Interrupt \/ UNCHANGED vars
    <3>1. /\ out' = out /\ cursor' = cursor /\ at' # "flush"
          /\ at' = "exit" /\ ok' => cursor' \notin Index
      BY <2>1, <2>6 DEF ExportEnd, Finish, Interrupt, vars
    <3> QED
      BY <2>1, <2>4, <3>1 DEF Exporting
  <2> QED
    BY <2>2, <2>5, <2>6
<1> QED
  BY <1>1, <1>2

LEMMA ExportedExact == ListInv => ExportExact
<1> SUFFICES ASSUME ListInv, op = "export", at = "exit", ok
             PROVE  /\ \A i, j \in 1..Len(out) : i # j => out[i].name # out[j].name
                    /\ \A k \in Key :
                         Exported(k) = IF /\ k # CountName
                                          /\ before[k] # None /\ before[k].n = 0
                                       THEN None ELSE before[k]
  BY DEF ExportExact
<1>1. /\ Faithful /\ cursor \notin Index /\ cursor \in Nat
      /\ \A j \in 1..Len(out) : \E i \in Index :
           i < cursor /\ Listed(i) /\ out[j] = RowOf(i)
      /\ \A i \in Index : i < cursor /\ Listed(i) =>
           \E j \in 1..Len(out) : out[j] = RowOf(i)
      /\ \A j, l \in 1..Len(out) : j # l => out[j].name # out[l].name
  BY DEF ListInv, Exporting, TypeOK
<1>2. \A i \in Index : i < cursor
  BY <1>1, Constants DEF Index
<1>3. ASSUME NEW k \in Key
      PROVE  Exported(k) = IF k # CountName /\ before[k] # None /\ before[k].n = 0
                           THEN None ELSE before[k]
  <2> DEFINE lines == {j \in 1..Len(out) : out[j].name = k}
  <2>1. CASE SlotOf(k) = {}
    <3>1. before[k] = None
      BY <1>1, <2>1 DEF Faithful
    <3>2. lines = {}
      <4> SUFFICES ASSUME NEW j \in 1..Len(out), out[j].name = k PROVE FALSE
        OBVIOUS
      <4>1. PICK i \in Index : Listed(i) /\ out[j] = RowOf(i)
        BY <1>1
      <4>2. slot[i] # None /\ slot[i].key = k
        BY <4>1 DEF Listed, RowOf, ListInv, OneSlotEach
      <4> QED
        BY <2>1, <4>2 DEF SlotOf
    <3> QED
      BY <3>1, <3>2 DEF Exported
  <2>2. CASE SlotOf(k) # {}
    <3>1. PICK i \in Index : slot[i] # None /\ slot[i].key = k
      BY <2>2 DEF SlotOf
    <3>2. /\ before[k] = slot[i].rec /\ slot[i].rec \in Record
          /\ slot[i].rec.n \in Nat /\ slot[i].rec # None
      BY <1>1, <3>1, SlotRecord, Constants DEF Faithful, ListInv
    <3>3. k = CountName <=> i = 0
      BY <3>1, Constants DEF ListInv, OneSlotEach, Index
    <3>4. \A l \in Index : slot[l] # None /\ slot[l].key = k => l = i
      BY <3>1 DEF ListInv, OneSlotEach
    <3>5. CASE Listed(i)
      <4>1. PICK j \in 1..Len(out) : out[j] = RowOf(i)
        BY <1>1, <1>2, <3>5
      <4>2. j \in lines
        BY <3>1, <4>1 DEF RowOf
      <4>3. \A l \in lines : l = j
        BY <1>1, <4>2
      <4>4. lines # {} /\ (CHOOSE l \in lines : TRUE) = j
        BY <4>2, <4>3
      <4>5. Exported(k) = [n |-> out[j].n, day |-> out[j].day]
        BY <4>4 DEF Exported
      <4>6. Exported(k) = [n |-> slot[i].rec.n, day |-> slot[i].rec.day]
        BY <4>1, <4>5 DEF RowOf
      <4>7. Exported(k) = slot[i].rec
        BY <3>2, <4>6 DEF Record
      <4>8. k = CountName \/ slot[i].rec.n # 0
        BY <3>2, <3>3, <3>5 DEF Listed
      <4> QED
        BY <3>2, <4>7, <4>8
    <3>6. CASE ~Listed(i)
      <4>1. k # CountName /\ slot[i].rec.n = 0
        BY <3>1, <3>2, <3>3, <3>6 DEF Listed
      <4>2. lines = {}
        <5> SUFFICES ASSUME NEW j \in 1..Len(out), out[j].name = k PROVE FALSE
          OBVIOUS
        <5>1. PICK l \in Index : Listed(l) /\ out[j] = RowOf(l)
          BY <1>1
        <5>2. slot[l] # None /\ slot[l].key = k
          BY <5>1 DEF Listed, RowOf, ListInv, OneSlotEach
        <5> QED
          BY <3>4, <3>6, <5>1, <5>2
      <4> QED
        BY <3>2, <4>1, <4>2 DEF Exported
    <3> QED
      BY <3>5, <3>6
  <2> QED
    BY <2>1, <2>2
<1> QED
  BY <1>1, <1>3

-----------------------------------------------------------------------------
(* purge-terms *)

LEMMA PurgingStep == ListInv /\ [Next]_vars => Purging'
<1> SUFFICES ASSUME ListInv, [Next]_vars, op' = "purge-terms", ok'
             PROVE  Purging'
  BY DEF Purging
<1>1. CASE \E command, lines, matches : Start(command, lines, matches)
  <2>1. /\ Faithful' /\ Locked' = {} /\ at' = "run" /\ cursor' = 0
        /\ held' = None
    BY <1>1, StartFaithful
  <2>2. \A m \in Name : dirty'[m] = None
    BY <2>1 DEF Locked
  <2>3. \A i \in Index : ~(i < 0)
    BY Constants DEF Index
  <2>4. \A k \in Key : \A i \in SlotOf(k)' : slot'[i].rec = before'[k]
    BY <2>1 DEF Faithful, SlotOf
  <2>5. \A k \in Key : SlotOf(k)' \subseteq Index
    BY DEF SlotOf
  <2> QED
    BY <2>1, <2>2, <2>3, <2>4, <2>5 DEF Purging, Faithful
<1>2. CASE ~\E command, lines, matches : Start(command, lines, matches)
  <2>1. op = "purge-terms"
    BY <1>2, OpStep
  <2>2. \/ PurgeNext \/ PurgeEnd \/ FlushRecord \/ FlushEnd \/ UNCHANGED vars
    BY <1>2, <2>1 DEF Next, ExportNext, ExportEnd, ImportNext, ImportEnd,
         FileFull, Interrupt, Close, Ended, Killed
  <2>3. ok /\ before' = before /\ pattern' = pattern
    BY <2>2 DEF PurgeNext, PurgeEnd, Finish, FlushRecord, FlushEnd, vars
  <2>4. /\ \A m \in Name : dirty[m] # None => dirty[m] = Emptied /\ Visited(m)
        /\ held # None => held.rec = Emptied /\ Visited(held.name)
        /\ \A k \in Key : SlotOf(k) = {} => before[k] = None
        /\ \A k \in Key : \A i \in SlotOf(k) :
             \/ slot[i].rec = before[k] /\ (i < cursor /\ Matched(k) => Waiting(k))
             \/ slot[i].rec = Emptied /\ i < cursor /\ Matched(k)
        /\ at = "exit" => cursor \notin Index
    BY <2>1, <2>3 DEF ListInv, Purging
  <2>5. \A k : Matched(k)' = Matched(k)
    BY <2>3 DEF Matched
  <2>6. ASSUME slot' = slot, dirty' = dirty, held' = held, cursor' = cursor,
               at' = "exit" => cursor \notin Index
        PROVE  Purging'
    <3>1. \A k : SlotOf(k)' = SlotOf(k) /\ Visited(k)' = Visited(k)
                 /\ Waiting(k)' = Waiting(k)
      BY <2>5, <2>6 DEF SlotOf, Visited, Waiting
    <3> QED
      BY <2>3, <2>4, <2>5, <2>6, <3>1 DEF Purging, Emptied
  <2>7. CASE PurgeEnd
    BY <2>6, <2>7 DEF PurgeEnd, Finish
  <2>8. CASE UNCHANGED vars
    BY <2>4, <2>6, <2>8 DEF vars
  <2>9. CASE PurgeNext
    <3>1. /\ cursor \in Index /\ cursor \in Nat /\ cursor' = cursor + 1
          /\ slot' = slot /\ at = "run" /\ held = None
      BY <2>9 DEF PurgeNext, ListInv, TypeOK
    <3>2. \A i \in Index : i < cursor' <=> i < cursor \/ i = cursor
      BY <3>1, Constants DEF Index
    <3>3. /\ \A k : SlotOf(k)' = SlotOf(k)
          /\ \A k : Visited(k) => Visited(k)' /\ SlotOf(k) \subseteq Index
      <4>1. \A k : SlotOf(k)' = SlotOf(k) /\ SlotOf(k) \subseteq Index
        BY <3>1 DEF SlotOf
      <4> QED
        BY <2>5, <3>2, <4>1 DEF Visited
    <3>4. CASE ~(Listed(cursor) /\ slot[cursor].key \in pattern)
      <4>1. UNCHANGED <<dirty, at, held>>
        BY <2>9, <3>4 DEF PurgeNext
      <4>2. \A k : Waiting(k)' = Waiting(k)
        BY <4>1 DEF Waiting
      <4>3. slot[cursor] # None /\ slot[cursor].rec = before[slot[cursor].key]
              => ~Matched(slot[cursor].key)
        <5> SUFFICES ASSUME slot[cursor] # None, Matched(slot[cursor].key),
                            slot[cursor].rec = before[slot[cursor].key]
                     PROVE  FALSE
          OBVIOUS
        <5>1. ~Listed(cursor) /\ slot[cursor].key \in pattern
          BY <3>4 DEF Matched
        <5>2. cursor # 0 /\ ~(slot[cursor].rec.n > 0)
          BY <5>1 DEF Listed
        <5>3. slot[cursor].key # CountName
          BY <3>1, <5>2, Constants DEF ListInv, OneSlotEach, Index
        <5> QED
          BY <5>2, <5>3 DEF Matched
      <4>4. ASSUME NEW k \in Key, NEW i \in SlotOf(k)
            PROVE  \/ /\ slot[i].rec = before[k]
                      /\ i < cursor' /\ Matched(k) => Waiting(k)
                   \/ slot[i].rec = Emptied /\ i < cursor' /\ Matched(k)
        <5>1. i \in Index /\ slot[i] # None /\ slot[i].key = k
          BY <4>4 DEF SlotOf
        <5> QED
          BY <2>4, <3>2, <4>3, <4>4, <5>1
      <4> QED
        BY <2>3, <2>4, <2>5, <3>1, <3>3, <4>1, <4>2, <4>4 DEF Purging, Emptied
    <3>5. CASE Listed(cursor) /\ slot[cursor].key \in pattern
      <4>0. PICK m : m = slot[cursor].key
        OBVIOUS
      <4> DEFINE r == Added(Seen(m), [name |-> m, n |-> -slot[cursor].rec.n,
                                      day |-> None])
      <4>1. /\ slot[cursor] # None /\ m \in Key /\ m \in Name /\ KeyOf[m] = m
            /\ slot[cursor].rec \in Record /\ slot[cursor].rec.n \in Nat
            /\ slot[cursor].rec # None /\ cursor \in SlotOf(m)
        <5>1. slot[cursor] # None
          BY <3>5 DEF Listed, ListInv, OneSlotEach
        <5> QED
          BY <3>1, <4>0, <5>1, SlotRecord, Constants DEF ListInv
      <4>2. \A i \in SlotOf(m) : i = cursor
        BY <3>1, <4>1 DEF SlotOf, ListInv, OneSlotEach
      <4>3. ~(cursor < cursor)
        BY <3>1
      <4>4. dirty[m] = None
        BY <2>4, <4>1, <4>2, <4>3 DEF Visited
      <4>5. slot[cursor].rec = before[m]
        BY <2>4, <3>1, <4>1, <4>3
      <4>6. Seen(m) = slot[cursor].rec
        BY <3>1, <4>0, <4>1, <4>4, StoredIn DEF Seen, ListInv
      <4>7. r = Emptied
        <5>1. slot[cursor].rec.n + (-slot[cursor].rec.n) = 0
          BY <4>1
        <5> QED
          BY <4>1, <4>6, <5>1 DEF Added, Clamped, Emptied
      <4>8. Matched(m)
        <5>1. CASE cursor = 0
          BY <3>5, <4>0, <5>1 DEF Matched, ListInv, OneSlotEach
        <5>2. CASE cursor # 0
          <6>1. slot[cursor].rec.n > 0
            BY <3>5, <5>2 DEF Listed
          <6> QED
            BY <3>5, <4>0, <4>1, <4>5, <6>1 DEF Matched
        <5> QED
          BY <5>1, <5>2
      <4>9. Visited(m)'
        BY <2>5, <3>1, <3>2, <3>3, <4>1, <4>8 DEF Visited
      <4>10. WriteWord(m, Emptied, "run")
        BY <2>9, <3>5, <4>0, <4>7 DEF PurgeNext, Remove
      <4>11. /\ \A other \in Name : other # m => dirty'[other] = dirty[other]
             /\ at' \in {"run", "flush"}
             /\ \/ held' = [name |-> m, rec |-> Emptied] /\ dirty' = dirty
                \/ held' = None /\ dirty'[m] = Emptied
                \/ held' = None /\ dirty'[m] = dirty[m] /\ Seen(m) = Emptied
        BY <3>1, <4>1, <4>10, EmptiedType, WriteWordEffect
           DEF Emptied, ListInv
      <4>12. Emptied # None
        BY EmptiedType, Constants DEF Emptied
      <4>13. \A k \in Name : Waiting(k) => Waiting(k)'
        BY <3>1, <4>4, <4>11 DEF Waiting
      <4>14. held' # None => held'.rec = Emptied /\ Visited(held.name)'
        BY <4>9, <4>11
      <4>15. \A k \in Name : dirty'[k] # None => dirty'[k] = Emptied /\ Visited(k)'
        BY <2>4, <3>3, <4>9, <4>11
      <4>16. Waiting(m)' \/ slot[cursor].rec = Emptied
        <5>1. [name |-> m, rec |-> Emptied] # None
          BY <4>1, EmptiedType, Constants DEF Emptied
        <5> QED
          BY <4>6, <4>11, <4>12, <5>1 DEF Waiting
      <4>17. ASSUME NEW k \in Key, NEW i \in SlotOf(k)
             PROVE  \/ /\ slot[i].rec = before[k]
                       /\ i < cursor' /\ Matched(k) => Waiting(k)'
                    \/ slot[i].rec = Emptied /\ i < cursor' /\ Matched(k)
        <5>1. i \in Index /\ slot[i] # None /\ slot[i].key = k /\ k \in Name
          BY <4>17, Constants DEF SlotOf
        <5>2. CASE i = cursor
          BY <3>1, <3>2, <4>0, <4>5, <4>8, <4>16, <5>1, <5>2
        <5>3. CASE i # cursor
          BY <2>4, <3>2, <4>13, <4>17, <5>1, <5>3
        <5> QED
          BY <5>2, <5>3
      <4> QED
        BY <2>3, <2>4, <2>5, <3>1, <3>3, <4>11, <4>14, <4>15, <4>17
           DEF Purging, Emptied
    <3> QED
      BY <3>4, <3>5
  <2>10. CASE FlushRecord
    <3>0. PICK m : m = First
      OBVIOUS
    <3>1. PICK i \in Index :
            /\ i \in Room(KeyOf[m])
            /\ slot' = [slot EXCEPT ![i] = [key |-> KeyOf[m], rec |-> dirty[m]]]
      BY <2>10, <3>0, FlushRecordEffect DEF ListInv
    <3>2. /\ m \in Name /\ dirty[m] # None
          /\ dirty' = [dirty EXCEPT ![m] = None]
          /\ UNCHANGED <<cursor, held, at>>
      <4>1. m \in Name /\ dirty[m] \in Record
        BY <2>10, <3>0, FlushRecordEffect DEF ListInv
      <4> QED
        BY <2>10, <3>0, <4>1, Constants DEF FlushRecord
    <3>3. dirty[m] = Emptied /\ Visited(m)
      BY <2>4, <3>2
    <3>4. m \in Key /\ KeyOf[m] = m /\ Matched(m)
      BY <3>3, Constants DEF Visited
    <3>5. PICK j \in SlotOf(m) : j < cursor
      BY <3>3 DEF Visited
    <3>6. i \in SlotOf(m)
      BY <3>1, <3>4, <3>5 DEF Room
    <3>7. i = j /\ slot[i] # None /\ slot[i].key = m
      BY <3>5, <3>6 DEF SlotOf, ListInv, OneSlotEach
    <3>8. /\ slot \in [Index -> Optional([key : Key, rec : Record])]
          /\ dirty \in [Name -> Optional(Record)]
      BY DEF ListInv, TypeOK
    <3>9. /\ slot'[i] = [key |-> m, rec |-> Emptied] /\ slot'[i] # None
          /\ \A l \in Index : l # i => slot'[l] = slot[l]
      <4>1. [key |-> m, rec |-> Emptied] # None
        BY <3>4, EmptiedType, Constants DEF Emptied
      <4> QED
        BY <3>1, <3>3, <3>4, <3>8, <4>1
    <3>10. \A k \in Name : k # m => dirty'[k] = dirty[k]
      BY <3>2, <3>8
    <3>11. dirty'[m] = None
      BY <3>2, <3>8
    <3>12. \A k : SlotOf(k)' = SlotOf(k)
      BY <3>7, <3>9 DEF SlotOf
    <3>13. \A k : Visited(k)' = Visited(k)
      BY <2>5, <3>2, <3>12 DEF Visited
    <3>14. \A k \in Name : k # m => Waiting(k)' = Waiting(k)
      BY <3>2, <3>10 DEF Waiting
    <3>15. ASSUME NEW k \in Key, NEW l \in SlotOf(k)
           PROVE  \/ /\ slot'[l].rec = before[k]
                     /\ l < cursor /\ Matched(k) => Waiting(k)'
                  \/ slot'[l].rec = Emptied /\ l < cursor /\ Matched(k)
      <4>1. l \in Index /\ slot[l] # None /\ slot[l].key = k /\ k \in Name
        BY <3>15, Constants DEF SlotOf
      <4>2. CASE l = i
        BY <3>4, <3>5, <3>7, <3>9, <4>1, <4>2
      <4>3. CASE l # i
        <5>1. slot'[l] = slot[l] /\ k # m
          BY <3>7, <3>9, <4>1, <4>3 DEF ListInv, OneSlotEach
        <5> QED
          BY <2>4, <3>14, <3>15, <4>1, <5>1
      <4> QED
        BY <4>2, <4>3
    <3>16. \A k \in Name : dirty'[k] # None => dirty'[k] = Emptied /\ Visited(k)'
      BY <2>4, <3>10, <3>11, <3>13
    <3> QED
      BY <2>3, <2>4, <2>5, <3>2, <3>12, <3>13, <3>15, <3>16
         DEF Purging, Emptied
  <2>11. CASE FlushEnd
    <3>1. /\ slot' = slot /\ cursor' = cursor /\ held' = None /\ at' # "exit"
          /\ Locked = {}
      BY <2>1, <2>11 DEF FlushEnd
    <3>2. \A k : SlotOf(k)' = SlotOf(k) /\ Visited(k)' = Visited(k)
      BY <2>5, <3>1 DEF SlotOf, Visited
    <3>3. CASE held = None
      <4>1. dirty' = dirty
        BY <2>11, <3>3 DEF FlushEnd
      <4> QED
        BY <2>6, <3>1, <3>3, <4>1
    <3>4. CASE held # None
      <4> DEFINE m == held.name
      <4>1. held.rec = Emptied /\ Visited(m) /\ m \in Name
        BY <2>4, <3>4 DEF ListInv, TypeOK, Optional
      <4>2. Put(m, Emptied)
        BY <2>11, <3>4, <4>1 DEF FlushEnd
      <4>3. Cardinality(Locked) < MaxSize
        BY <3>1, FS_EmptySet, Constants
      <4>4. /\ \A k \in Name : k # m => dirty'[k] = dirty[k]
            /\ dirty'[m] = Emptied \/ (dirty'[m] = dirty[m] /\ Seen(m) = Emptied)
        BY <4>1, <4>2, <4>3, EmptiedType, PutEffect DEF Emptied, ListInv
      <4>5. \A k \in Name : dirty[k] = None
        BY <3>1 DEF Locked
      <4>6. \A k \in Name : dirty'[k] # None => dirty'[k] = Emptied /\ Visited(k)'
        BY <3>2, <4>1, <4>4, <4>5
      <4>7. ASSUME NEW k \in Key, NEW i \in SlotOf(k)
            PROVE  \/ /\ slot[i].rec = before[k]
                      /\ i < cursor /\ Matched(k) => Waiting(k)'
                   \/ slot[i].rec = Emptied /\ i < cursor /\ Matched(k)
        <5>1. i \in Index /\ slot[i] # None /\ slot[i].key = k /\ k \in Name
          BY <4>7, Constants DEF SlotOf
        <5>2. CASE k # m
          BY <2>4, <4>5, <4>7, <5>1, <5>2 DEF Waiting
        <5>3. CASE k = m
          <6>1. CASE dirty'[m] = Emptied
            <7>1. Emptied # None
              BY EmptiedType, Constants DEF Emptied
            <7>2. Waiting(k)'
              BY <5>3, <6>1, <7>1 DEF Waiting
            <7> QED
              BY <2>4, <4>7, <7>2
          <6>2. CASE dirty'[m] # Emptied
            <7>1. Seen(m) = Emptied /\ m \in Key /\ KeyOf[m] = m /\ Matched(m)
              BY <4>1, <4>4, <6>2, Constants DEF Visited
            <7>2. slot[i].rec = Emptied
              BY <4>1, <4>5, <5>1, <5>3, <7>1, StoredIn DEF Seen, ListInv
            <7>3. i < cursor
              <8>1. PICK j \in SlotOf(m) : j < cursor
                BY <4>1 DEF Visited
              <8>2. j = i
                BY <5>1, <5>3, <8>1 DEF SlotOf, ListInv, OneSlotEach
              <8> QED
                BY <8>1, <8>2
            <7> QED
              BY <5>3, <7>1, <7>2, <7>3
          <6> QED
            BY <6>1, <6>2
        <5> QED
          BY <5>2, <5>3
      <4> QED
        BY <2>3, <2>4, <2>5, <3>1, <3>2, <4>6, <4>7 DEF Purging, Emptied
    <3> QED
      BY <3>3, <3>4
  <2> QED
    BY <2>2, <2>7, <2>8, <2>9, <2>10, <2>11
<1> QED
  BY <1>1, <1>2

LEMMA PurgedExact == ListInv => PurgeTermsExact
<1> SUFFICES ASSUME ListInv, op = "purge-terms", at = "exit", ok, Locked = {},
                    NEW k \in Key
             PROVE  Stored(k) = IF Matched(k) THEN Emptied ELSE before[k]
  BY DEF PurgeTermsExact, Matched, Emptied
<1>1. /\ \A j \in Key : SlotOf(j) = {} => before[j] = None
      /\ \A j \in Key : \A i \in SlotOf(j) :
           \/ slot[i].rec = before[j] /\ (i < cursor /\ Matched(j) => Waiting(j))
           \/ slot[i].rec = Emptied /\ i < cursor /\ Matched(j)
      /\ cursor \notin Index /\ cursor \in Nat /\ held = None
  BY DEF ListInv, Purging, TypeOK
<1>2. \A i \in Index : i < cursor
  BY <1>1, Constants DEF Index
<1>3. \A m \in Name : ~Waiting(m)
  BY <1>1 DEF Waiting, Locked
<1>4. CASE SlotOf(k) = {}
  <2>1. k # CountName
    BY <1>4, Constants DEF SlotOf, ListInv, OneSlotEach, Index
  <2>2. before[k] = None /\ Stored(k) = None
    BY <1>1, <1>4, StoredType DEF ListInv
  <2> QED
    BY <2>1, <2>2 DEF Matched
<1>5. CASE SlotOf(k) # {}
  <2>1. PICK i \in Index : slot[i] # None /\ slot[i].key = k
    BY <1>5 DEF SlotOf
  <2>2. Stored(k) = slot[i].rec /\ k \in Name
    BY <2>1, StoredIn, SlotRecord DEF ListInv
  <2>3. i \in SlotOf(k)
    BY <2>1 DEF SlotOf
  <2> QED
    BY <1>1, <1>2, <1>3, <2>2, <2>3
<1> QED
  BY <1>4, <1>5

-----------------------------------------------------------------------------
(* The lines of a file *)

\* The counts of no line are negative, and no two names of one record are used
\* together, as in any file that export wrote.
Plain(lines) ==
  /\ \A i \in 1..Len(lines) : lines[i].n >= 0
  /\ \A i, j \in 1..Len(lines) : KeyOf[lines[i].name] = KeyOf[lines[j].name]
                                   => lines[i].name = lines[j].name

\* The function that CountsOf is computed with.
Gain(k, lines, i) == IF KeyOf[lines[i].name] = k THEN lines[i].n ELSE 0

IsCount(f, k, lines, upto) ==
  f = [i \in 0..upto |-> IF i = 0 THEN 0
                         ELSE f[i - 1] + IF KeyOf[lines[i].name] = k
                                         THEN lines[i].n ELSE 0]

LEMMA CountExists ==
  ASSUME NEW k, NEW lines, NEW upto \in Nat
  PROVE  \E f : IsCount(f, k, lines, upto)
<1> DEFINE Lacking == {n \in Nat : ~ \E f : IsCount(f, k, lines, n)}
<1> SUFFICES ASSUME Lacking # {} PROVE FALSE
  OBVIOUS
<1>1. PICK n \in Lacking : \A j \in Lacking : n <= j
  BY Smallest
<1>2. n \in Nat /\ ~ \E f : IsCount(f, k, lines, n)
  OBVIOUS
<1>3. n # 0
  <2>1. IsCount([i \in 0..0 |-> 0], k, lines, 0)
    BY DEF IsCount
  <2> QED
    BY <1>2, <2>1
<1>4. n - 1 \in Nat /\ n - 1 \notin Lacking
  BY <1>1, <1>2, <1>3
<1>5. PICK f : IsCount(f, k, lines, n - 1)
  BY <1>4
<1> DEFINE g == [i \in 0..n |-> IF i = n THEN f[n - 1] + Gain(k, lines, n)
                                ELSE f[i]]
<1>6. ASSUME NEW i \in 0..n
      PROVE  g[i] = IF i = 0 THEN 0 ELSE g[i - 1] + Gain(k, lines, i)
  <2>1. CASE i = n
    BY <1>2, <1>3, <2>1
  <2>2. CASE i # n
    <3>1. i \in 0..(n - 1) /\ (i # 0 => i - 1 \in 0..n /\ i - 1 # n)
      BY <1>2, <2>2
    <3>2. f[i] = IF i = 0 THEN 0 ELSE f[i - 1] + Gain(k, lines, i)
      BY <1>5, <3>1 DEF IsCount, Gain
    <3> QED
      BY <2>2, <3>1, <3>2
  <2> QED
    BY <2>1, <2>2
<1>7. IsCount(g, k, lines, n)
  <2>1. g = [i \in 0..n |-> g[i]]
    OBVIOUS
  <2> HIDE DEF g
  <2>2. g = [i \in 0..n |-> IF i = 0 THEN 0 ELSE g[i - 1] + Gain(k, lines, i)]
    BY <1>6, <2>1
  <2> QED
    BY <2>2 DEF IsCount, Gain
<1> QED
  BY <1>2, <1>7

LEMMA CountSteps ==
  ASSUME NEW k, NEW lines, NEW upto \in Nat, NEW f, IsCount(f, k, lines, upto)
  PROVE  /\ f[0] = 0
         /\ \A i \in 1..upto : f[i] = f[i - 1] + Gain(k, lines, i)
  BY DEF IsCount, Gain

LEMMA CountsIsCount ==
  ASSUME NEW k, NEW lines, NEW upto \in Nat
  PROVE  \E f : IsCount(f, k, lines, upto) /\ CountsOf(k, lines, upto) = f[upto]
<1> DEFINE f == CHOOSE f : IsCount(f, k, lines, upto)
<1>1. IsCount(f, k, lines, upto)
  BY CountExists
<1>2. CountsOf(k, lines, upto) = f[upto]
  BY DEF CountsOf, IsCount
<1> QED
  BY <1>1, <1>2

LEMMA CountsZero ==
  ASSUME NEW k, NEW lines PROVE CountsOf(k, lines, 0) = 0
  BY CountsIsCount, CountSteps

LEMMA CountsNext ==
  ASSUME NEW k, NEW lines, NEW n \in Nat
  PROVE  CountsOf(k, lines, n + 1) = CountsOf(k, lines, n) + Gain(k, lines, n + 1)
<1>1. PICK f : IsCount(f, k, lines, n) /\ CountsOf(k, lines, n) = f[n]
  BY CountsIsCount
<1>2. PICK g : /\ IsCount(g, k, lines, n + 1)
               /\ CountsOf(k, lines, n + 1) = g[n + 1]
  <2>1. n + 1 \in Nat
    OBVIOUS
  <2> QED
    BY <2>1, CountsIsCount
<1> DEFINE Wrong == {i \in 0..n : f[i] # g[i]}
<1>f. /\ f[0] = 0
      /\ \A i \in 1..n : f[i] = f[i - 1] + Gain(k, lines, i)
  BY <1>1, CountSteps
<1>g. /\ g[0] = 0
      /\ \A i \in 1..(n + 1) : g[i] = g[i - 1] + Gain(k, lines, i)
  <2>1. n + 1 \in Nat
    OBVIOUS
  <2> QED
    BY <1>2, <2>1, CountSteps
<1>0. Wrong \subseteq Nat
  OBVIOUS
<1>3. ASSUME Wrong # {} PROVE FALSE
  <2>1. PICK i \in Wrong : \A j \in Wrong : i <= j
    <3> HIDE DEF Wrong
    <3> QED
      BY <1>0, <1>3, Smallest
  <2>2. i \in 1..n /\ i \in 1..(n + 1) /\ i - 1 \in 0..n
    BY <1>f, <1>g
  <2>3. f[i - 1] = g[i - 1]
    BY <2>1, <2>2
  <2>4. f[i] = f[i - 1] + Gain(k, lines, i) /\ g[i] = g[i - 1] + Gain(k, lines, i)
    BY <1>f, <1>g, <2>2
  <2> QED
    BY <2>3, <2>4
<1>4. f[n] = g[n]
  BY <1>3
<1>5. g[n + 1] = g[n] + Gain(k, lines, n + 1)
  <2>1. n + 1 \in 1..(n + 1) /\ (n + 1) - 1 = n
    OBVIOUS
  <2> QED
    BY <1>g, <2>1
<1> QED
  BY <1>1, <1>2, <1>4, <1>5

LEMMA CountsType ==
  ASSUME NEW k, NEW lines \in Seq(Line), Plain(lines)
  PROVE  \A n \in 0..Len(lines) : CountsOf(k, lines, n) \in Nat
<1> DEFINE Wrong == {n \in 0..Len(lines) : CountsOf(k, lines, n) \notin Nat}
<1> SUFFICES ASSUME Wrong # {} PROVE FALSE
  OBVIOUS
<1>1. Wrong \subseteq Nat
  OBVIOUS
<1>2. PICK n \in Wrong : \A j \in Wrong : n <= j
  <2> HIDE DEF Wrong
  <2> QED
    BY <1>1, Smallest
<1>3. n \in 0..Len(lines) /\ CountsOf(k, lines, n) \notin Nat /\ Len(lines) \in Nat
  OBVIOUS
<1>4. n # 0
  BY <1>3, CountsZero
<1>5. n - 1 \in 0..Len(lines) /\ n - 1 \in Nat /\ n = (n - 1) + 1 /\ n \in 1..Len(lines)
  BY <1>3, <1>4
<1>6. CountsOf(k, lines, n - 1) \in Nat
  BY <1>2, <1>3, <1>5
<1>7. Gain(k, lines, n) \in Nat
  <2>1. lines[n].n >= 0 /\ lines[n] \in Line
    BY <1>5 DEF Plain
  <2> QED
    BY <2>1 DEF Gain, Line
<1>8. CountsOf(k, lines, n) = CountsOf(k, lines, n - 1) + Gain(k, lines, n)
  <2>1. CountsOf(k, lines, (n - 1) + 1)
          = CountsOf(k, lines, n - 1) + Gain(k, lines, (n - 1) + 1)
    BY <1>5, CountsNext
  <2> QED
    BY <1>5, <2>1
<1> QED
  BY <1>3, <1>6, <1>7, <1>8

\* One line more: its counts are added where it belongs and nowhere else.
LEMMA AfterNone ==
  ASSUME NEW k PROVE AfterLines(k, 0) = before[k]
  BY DEF AfterLines, OwnLines

LEMMA AfterType ==
  ASSUME TypeOK, NEW k \in Key, NEW n \in 0..Len(input), Plain(input)
  PROVE  /\ AfterLines(k, n) \in Optional(Record)
         /\ OwnLines(k, input, n) # {} => AfterLines(k, n) \in Record
<1>1. input \in Seq(Line) /\ before[k] \in Optional(Record)
  BY DEF TypeOK
<1> DEFINE own == OwnLines(k, input, n)
<1>2. CASE own = {}
  BY <1>1, <1>2 DEF AfterLines
<1>3. CASE own # {}
  <2> DEFINE had == IF before[k] = None THEN 0 ELSE before[k].n
             day == IF \E i \in own : /\ before[k] = None /\ own = {i}
                                      /\ input[i].day # None
                    THEN input[CHOOSE i \in own : TRUE].day ELSE Today
  <2>1. had \in Nat
    BY <1>1 DEF Optional, Record
  <2>2. CountsOf(k, input, n) \in Nat
    BY <1>1, CountsType
  <2>3. day \in 0..Today
    <3>1. CASE \E i \in own : own = {i} /\ input[i].day # None
      <4>1. PICK i \in own : own = {i} /\ input[i].day # None
        BY <3>1
      <4>2. (CHOOSE j \in own : TRUE) = i
        BY <4>1
      <4>3. i \in 1..Len(input)
        BY <1>1, <4>1 DEF OwnLines
      <4>4. input[i].day \in 0..Today
        <5>1. input[i] \in Line
          BY <1>1, <4>3
        <5> QED
          BY <4>1, <5>1 DEF Line
      <4> HIDE DEF own
      <4> QED
        BY <4>2, <4>4, Constants
    <3>2. CASE ~ \E i \in own : own = {i} /\ input[i].day # None
      BY <3>2, Constants
    <3> QED
      BY <3>1, <3>2
  <2>4. AfterLines(k, n) = [n |-> CountsOf(k, input, n) + had, day |-> day]
    BY <1>3 DEF AfterLines
  <2> HIDE DEF had, day, own
  <2>5. AfterLines(k, n) \in Record
    BY <2>1, <2>2, <2>3, <2>4 DEF Record
  <2> QED
    BY <2>5 DEF Optional
<1> QED
  BY <1>2, <1>3

LEMMA AfterOther ==
  ASSUME NEW k, NEW n \in Nat, KeyOf[input[n + 1].name] # k, input \in Seq(Line),
         Plain(input), n + 1 <= Len(input)
  PROVE  AfterLines(k, n + 1) = AfterLines(k, n)
<1>1. OwnLines(k, input, n + 1) = OwnLines(k, input, n)
  <2>1. \A i : i \in 1..(n + 1) <=> i \in 1..n \/ i = n + 1
    OBVIOUS
  <2> QED
    BY <2>1 DEF OwnLines
<1>2. CountsOf(k, input, n + 1) = CountsOf(k, input, n)
  <2>1. CountsOf(k, input, n) \in Nat
    BY CountsType
  <2>2. Gain(k, input, n + 1) = 0
    BY DEF Gain
  <2> QED
    BY <2>1, <2>2, CountsNext
<1> QED
  BY <1>1, <1>2 DEF AfterLines

LEMMA AfterOwn ==
  ASSUME TypeOK, NEW k \in Key, NEW n \in Nat, n + 1 <= Len(input),
         KeyOf[input[n + 1].name] = k, Plain(input)
  PROVE  AfterLines(k, n + 1) = Added(AfterLines(k, n), input[n + 1])
<1>1. input \in Seq(Line) /\ before[k] \in Optional(Record)
  BY DEF TypeOK
<1> DEFINE line == input[n + 1]
           had == IF before[k] = None THEN 0 ELSE before[k].n
           own == OwnLines(k, input, n)
           more == OwnLines(k, input, n + 1)
<1>2. /\ line \in Line /\ line.n \in Nat
      /\ line.day \in (0..Today) \cup {None}
  <2>1. n + 1 \in 1..Len(input)
    BY <1>1
  <2>2. line \in Line /\ line.n >= 0
    BY <1>1, <2>1 DEF Plain
  <2> QED
    BY <2>2 DEF Line
<1>3. had \in Nat
  BY <1>1 DEF Optional, Record
<1>4. more = own \cup {n + 1} /\ n + 1 \notin own
  <2>1. \A i : i \in 1..(n + 1) <=> i \in 1..n \/ i = n + 1
    OBVIOUS
  <2> QED
    BY <2>1 DEF OwnLines
<1>5. CountsOf(k, input, n) \in Nat
  BY <1>1, CountsType
<1>6. CountsOf(k, input, n + 1) = CountsOf(k, input, n) + line.n
  BY CountsNext DEF Gain
<1>7. AfterLines(k, n + 1) =
        [n |-> CountsOf(k, input, n) + line.n + had,
         day |-> IF before[k] = None /\ own = {} /\ line.day # None
                 THEN line.day ELSE Today]
  <2>1. more # {}
    BY <1>4
  <2>2. AfterLines(k, n + 1) =
          [n |-> CountsOf(k, input, n + 1) + had,
           day |-> IF \E i \in more : /\ before[k] = None /\ more = {i}
                                      /\ input[i].day # None
                   THEN input[CHOOSE i \in more : TRUE].day ELSE Today]
    BY <2>1 DEF AfterLines
  <2>3. CASE own = {}
    <3>1. more = {n + 1}
      BY <1>4, <2>3
    <3>2. (CHOOSE i \in more : TRUE) = n + 1
      BY <3>1
    <3> HIDE DEF more, had
    <3> QED
      BY <1>6, <2>2, <2>3, <3>1, <3>2
  <2>4. CASE own # {}
    <3>1. ~ \E i : more = {i}
      BY <1>4, <2>4
    <3> HIDE DEF more, had, own
    <3> QED
      BY <1>6, <2>2, <2>4, <3>1
  <2> QED
    BY <2>3, <2>4
<1>8. CASE own = {}
  <2>1. AfterLines(k, n) = before[k]
    BY <1>8 DEF AfterLines
  <2>2. CountsOf(k, input, n) = 0
    <3> DEFINE Wrong == {i \in 0..n : CountsOf(k, input, i) # 0}
    <3>0. Wrong \subseteq Nat
      OBVIOUS
    <3>1. ASSUME Wrong # {} PROVE FALSE
      <4>1. PICK i \in Wrong : \A j \in Wrong : i <= j
        <5> HIDE DEF Wrong
        <5> QED
          BY <3>0, <3>1, Smallest
      <4>2. i \in 0..n /\ CountsOf(k, input, i) # 0
        OBVIOUS
      <4>3. i # 0
        BY <4>2, CountsZero
      <4>4. i - 1 \in Nat /\ i - 1 \in 0..n /\ (i - 1) + 1 = i /\ i \in 1..n
        BY <4>2, <4>3
      <4>5. CountsOf(k, input, i - 1) = 0
        BY <4>1, <4>4
      <4>6. Gain(k, input, i) = 0
        BY <1>8, <4>4 DEF OwnLines, Gain
      <4> QED
        BY <4>2, <4>4, <4>5, <4>6, CountsNext
    <3> QED
      BY <3>1
  <2>3. Clamped(had + line.n) = had + line.n
    BY <1>2, <1>3 DEF Clamped
  <2> HIDE DEF had, own
  <2>4. AfterLines(k, n + 1) =
          [n |-> had + line.n,
           day |-> IF before[k] = None /\ line.day # None
                   THEN line.day ELSE Today]
    BY <1>2, <1>3, <1>7, <1>8, <2>2
  <2> QED
    BY <2>1, <2>3, <2>4 DEF Added, had
<1>9. CASE own # {}
  <2>1. AfterLines(k, n).n = CountsOf(k, input, n) + had
    BY <1>9 DEF AfterLines
  <2>2. AfterLines(k, n) # None
    <3>1. n \in 0..Len(input)
      BY <1>1
    <3> QED
      BY <1>9, <3>1, AfterType, Constants
  <2>3. Clamped(AfterLines(k, n).n + line.n) = CountsOf(k, input, n) + line.n + had
    <3> HIDE DEF had, line
    <3> QED
      BY <1>2, <1>3, <1>5, <2>1 DEF Clamped
  <2>4. AfterLines(k, n + 1) =
          [n |-> CountsOf(k, input, n) + line.n + had, day |-> Today]
    BY <1>7, <1>9
  <2> HIDE DEF had
  <2> QED
    BY <2>2, <2>3, <2>4 DEF Added
<1> QED
  BY <1>8, <1>9

-----------------------------------------------------------------------------
(* Import *)

\* The cache and the file together have the first n lines of the input.
AsOf(n) ==
  /\ \A m \in Name : dirty[m] # None =>
       /\ \E i \in 1..n : input[i].name = m
       /\ dirty[m] = AfterLines(KeyOf[m], n)
  /\ \A k \in Key : (\A m \in Name : KeyOf[m] = k => dirty[m] = None)
                      => Stored(k) = AfterLines(k, n)

\* A write that waits has the line read last.
HasLines ==
  IF held = None THEN AsOf(cursor)
  ELSE /\ cursor >= 1 /\ AsOf(cursor - 1)
       /\ held.name = input[cursor].name
       /\ held.rec = AfterLines(KeyOf[held.name], cursor)

\* There is no room for the next record, and no flush will end.
Stuck == Locked # {} /\ Room(KeyOf[First]) = {}

\* Each record in the file has some of the lines, and what is to be written has
\* all of them, unless the file is full and that is lost.
Importing ==
  op = "import" =>
    /\ Plain(input) /\ cursor <= Len(input)
    /\ \A k \in Key : \E upto \in 0..cursor : Stored(k) = AfterLines(k, upto)
    /\ (at = "exit" /\ Stuck) \/ HasLines

\* The command sees a record as the lines so far have left it.
LEMMA SeenAsOf ==
  ASSUME ListInv, Plain(input), NEW n \in Nat, n + 1 <= Len(input), AsOf(n),
         NEW m \in Name, m = input[n + 1].name
  PROVE  Seen(m) = AfterLines(KeyOf[m], n)
<1>1. CASE dirty[m] # None
  BY <1>1 DEF AsOf, Seen
<1>2. CASE dirty[m] = None
  <2>1. ASSUME NEW other \in Name, KeyOf[other] = KeyOf[m], dirty[other] # None
        PROVE  FALSE
    <3>1. PICK i \in 1..n : input[i].name = other
      BY <2>1 DEF AsOf
    <3>2. i \in 1..Len(input) /\ n + 1 \in 1..Len(input)
      BY DEF ListInv, TypeOK
    <3>3. other = m
      BY <2>1, <3>1, <3>2 DEF Plain
    <3> QED
      BY <1>2, <2>1, <3>3
  <2>2. KeyOf[m] \in Key
    BY Constants
  <2> QED
    BY <1>2, <2>1, <2>2 DEF AsOf, Seen
<1> QED
  BY <1>1, <1>2

\* One more record is put into the cache, that of the next line.
LEMMA AsOfNext ==
  ASSUME ListInv, Plain(input), NEW n \in Nat, n + 1 <= Len(input), AsOf(n),
         UNCHANGED <<slot, input, before>>,
         NEW m \in Name, m = input[n + 1].name,
         \A other \in Name : other # m => dirty'[other] = dirty[other],
         LET r == AfterLines(KeyOf[m], n + 1)
         IN dirty'[m] = r \/ (dirty'[m] = dirty[m] /\ Seen(m) = r)
  PROVE  AsOf(n + 1)'
<1> DEFINE r == AfterLines(KeyOf[m], n + 1)
<1>1. /\ input \in Seq(Line) /\ n + 1 \in 1..Len(input) /\ KeyOf[m] \in Key
      /\ \A i \in 1..n : i \in 1..Len(input) /\ i \in 1..(n + 1)
      /\ n + 1 \in 1..(n + 1) /\ n + 1 \in 0..Len(input)
  BY Constants DEF ListInv, TypeOK
<1>2. \A k, u : AfterLines(k, u)' = AfterLines(k, u)
  BY DEF AfterLines
<1>3. \A k : Stored(k)' = Stored(k)
  BY DEF Stored, SlotOf
<1>4. \A k \in Key : k # KeyOf[m] => AfterLines(k, n + 1) = AfterLines(k, n)
  BY <1>1, AfterOther
<1>5. ASSUME NEW other \in Name, other # m, dirty[other] # None
      PROVE  KeyOf[other] # KeyOf[m]
  <2>1. PICK i \in 1..n : input[i].name = other
    BY <1>5 DEF AsOf
  <2> QED
    BY <1>1, <1>5, <2>1 DEF Plain
<1>6. r # None
  <2>1. n + 1 \in OwnLines(KeyOf[m], input, n + 1)
    BY <1>1 DEF OwnLines
  <2>2. r \in Record
    BY <1>1, <2>1, AfterType DEF ListInv
  <2> QED
    BY <2>2, Constants
<1>7. ASSUME NEW other \in Name, dirty'[other] # None
      PROVE  /\ \E i \in 1..(n + 1) : input[i].name = other
             /\ dirty'[other] = AfterLines(KeyOf[other], n + 1)
  <2>1. CASE other = m
    <3>1. dirty'[m] = r
      BY <1>7, <2>1 DEF Seen
    <3> QED
      BY <1>1, <2>1, <3>1
  <2>2. CASE other # m
    <3>1. dirty[other] # None /\ dirty'[other] = dirty[other]
      BY <1>7, <2>2
    <3>2. KeyOf[other] # KeyOf[m] /\ KeyOf[other] \in Key
      BY <1>5, <2>2, <3>1, Constants
    <3>3. /\ \E i \in 1..n : input[i].name = other
          /\ dirty[other] = AfterLines(KeyOf[other], n)
      BY <3>1 DEF AsOf
    <3> QED
      BY <1>1, <1>4, <3>1, <3>2, <3>3
  <2> QED
    BY <2>1, <2>2
<1>8. ASSUME NEW k \in Key, \A other \in Name : KeyOf[other] = k => dirty'[other] = None
      PROVE  Stored(k) = AfterLines(k, n + 1)
  <2>1. CASE k = KeyOf[m]
    <3>1. dirty'[m] = None /\ dirty[m] = None /\ Seen(m) = r
      BY <1>6, <1>8, <2>1
    <3> QED
      BY <2>1, <3>1 DEF Seen
  <2>2. CASE k # KeyOf[m]
    <3>1. \A other \in Name : KeyOf[other] = k => dirty[other] = None
      BY <1>8, <2>2
    <3> QED
      BY <1>4, <2>2, <3>1 DEF AsOf
  <2> QED
    BY <2>1, <2>2
<1> HIDE DEF r
<1> QED
  BY <1>2, <1>3, <1>7, <1>8 DEF AsOf

\* A flush gives one record what waits for it.
LEMMA StoredFlushed ==
  ASSUME ListInv, FlushRecord, NEW m, m = First
  PROVE  /\ Stored(KeyOf[m])' = dirty[m]
         /\ \A k \in Key : k # KeyOf[m] => Stored(k)' = Stored(k)
<1>1. PICK i \in Index :
        /\ i \in Room(KeyOf[m])
        /\ slot' = [slot EXCEPT ![i] = [key |-> KeyOf[m], rec |-> dirty[m]]]
  BY FlushRecordEffect DEF ListInv
<1>2. /\ slot \in [Index -> Optional([key : Key, rec : Record])]
      /\ m \in Name /\ dirty[m] \in Record /\ KeyOf[m] \in Key
  BY FlushRecordEffect, Constants DEF ListInv, TypeOK
<1>3. /\ slot'[i] = [key |-> KeyOf[m], rec |-> dirty[m]] /\ slot'[i] # None
      /\ \A j \in Index : j # i => slot'[j] = slot[j]
  <2>1. [key |-> KeyOf[m], rec |-> dirty[m]] # None
    BY <1>2, Constants
  <2> QED
    BY <1>1, <1>2, <2>1
<1>4. \A j \in Index : slot[j] # None /\ slot[j].key = KeyOf[m] => j = i
  BY <1>1 DEF Room, SlotOf, ListInv, OneSlotEach
<1>5. slot[i] # None => slot[i].key = KeyOf[m]
  BY <1>1 DEF Room, SlotOf
<1>6. SlotOf(KeyOf[m])' = {i}
  BY <1>3, <1>4 DEF SlotOf
<1>7. Stored(KeyOf[m])' = dirty[m]
  <2> DEFINE c == CHOOSE j \in SlotOf(KeyOf[m])' : TRUE
  <2>1. Stored(KeyOf[m])' = slot'[c].rec
    BY <1>6 DEF Stored
  <2>2. c = i
    BY <1>6
  <2> HIDE DEF c
  <2> QED
    BY <1>3, <2>1, <2>2
<1>8. ASSUME NEW k \in Key, k # KeyOf[m] PROVE Stored(k)' = Stored(k)
  <2>1. SlotOf(k)' = SlotOf(k)
    BY <1>3, <1>5, <1>8 DEF SlotOf
  <2>2. \A j \in SlotOf(k) : slot'[j] = slot[j]
    BY <1>3, <1>5, <1>8 DEF SlotOf
  <2>3. CASE SlotOf(k) = {}
    BY <2>1, <2>3 DEF Stored
  <2>4. CASE SlotOf(k) # {}
    <3>1. (CHOOSE j \in SlotOf(k) : TRUE) \in SlotOf(k)
      BY <2>4
    <3> QED
      BY <2>1, <2>2, <2>4, <3>1 DEF Stored
  <2> QED
    BY <2>3, <2>4
<1> QED
  BY <1>7, <1>8

LEMMA AsOfFlushed ==
  ASSUME ListInv, FlushRecord, NEW n, AsOf(n)
  PROVE  AsOf(n)'
<1>0. PICK m : m = First
  OBVIOUS
<1>1. /\ m \in Name /\ dirty[m] \in Record /\ dirty[m] # None
      /\ dirty' = [dirty EXCEPT ![m] = None]
      /\ dirty \in [Name -> Optional(Record)]
  BY <1>0, FlushRecordEffect, Constants DEF ListInv, TypeOK
<1>2. /\ Stored(KeyOf[m])' = dirty[m]
      /\ \A k \in Key : k # KeyOf[m] => Stored(k)' = Stored(k)
  BY <1>0, StoredFlushed
<1>3. \A other \in Name : dirty'[other] = IF other = m THEN None ELSE dirty[other]
  BY <1>1
<1>4. input' = input /\ before' = before
  BY DEF FlushRecord
<1>5. \A k, u : AfterLines(k, u)' = AfterLines(k, u)
  BY <1>4 DEF AfterLines
<1>6. dirty[m] = AfterLines(KeyOf[m], n)
  BY <1>1 DEF AsOf
<1>7. ASSUME NEW k \in Key, \A other \in Name : KeyOf[other] = k => dirty'[other] = None
      PROVE  Stored(k)' = AfterLines(k, n)
  <2>1. CASE k = KeyOf[m]
    BY <1>2, <1>6, <2>1
  <2>2. CASE k # KeyOf[m]
    <3>1. \A other \in Name : KeyOf[other] = k => dirty[other] = None
      BY <1>3, <1>7, <2>2
    <3> QED
      BY <1>2, <2>2, <3>1 DEF AsOf
  <2> QED
    BY <2>1, <2>2
<1>8. \A other \in Name : dirty'[other] # None =>
        /\ \E i \in 1..n : input[i].name = other
        /\ dirty'[other] = AfterLines(KeyOf[other], n)
  BY <1>3 DEF AsOf
<1> QED
  BY <1>4, <1>5, <1>7, <1>8 DEF AsOf

\* Nothing that HasLines speaks of changes.
LEMMA HasLinesKept ==
  ASSUME HasLines, UNCHANGED <<slot, dirty, input, before, cursor, held>>
  PROVE  HasLines'
<1>1. \A k, u : AfterLines(k, u)' = AfterLines(k, u)
  BY DEF AfterLines
<1>2. \A k : Stored(k)' = Stored(k)
  BY DEF Stored, SlotOf
<1> QED
  BY <1>1, <1>2 DEF HasLines, AsOf

LEMMA ImportingStep ==
  ListInv /\ Importing /\ (\A lines \in Files : Plain(lines)) /\ [Next]_vars
    => Importing'
<1> SUFFICES ASSUME ListInv, Importing, \A lines \in Files : Plain(lines),
                    [Next]_vars, op' = "import"
             PROVE  Importing'
  BY DEF Importing
<1>1. CASE op # "import"
  <2>1. PICK lines \in Files : Start("import", lines, {})
    <3>1. ~Ended
      BY DEF Ended
    <3>2. op' # op
      BY <1>1
    <3> QED
      BY <3>1, <3>2 DEF Next, Start, ExportNext, ExportEnd, PurgeNext, PurgeEnd,
         ImportNext, ImportEnd, Finish, FlushRecord, FlushEnd, FileFull,
         Interrupt, Close, Killed, vars
  <2>2. /\ Locked' = {} /\ cursor' = 0 /\ held' = None /\ dirty' = dirty
        /\ slot' = slot /\ before' = Contents /\ input' = lines
    BY <2>1, StartFaithful DEF Start
  <2>3. Plain(input)' /\ cursor' <= Len(input')
    BY <2>1, <2>2, Constants DEF Plain
  <2>4. \A k \in Key : Stored(k)' = before'[k]
    BY <2>2 DEF Contents, Stored, SlotOf
  <2>5. \A k \in Key : AfterLines(k, 0)' = before'[k]
    BY DEF AfterLines, OwnLines
  <2>6. \A m \in Name : dirty'[m] = None
    BY <2>2 DEF Locked
  <2>7. AsOf(0)'
    BY <2>4, <2>5, <2>6 DEF AsOf
  <2>8. HasLines'
    BY <2>2, <2>7 DEF HasLines
  <2>9. 0 \in 0..cursor'
    BY <2>2
  <2> QED
    BY <2>3, <2>4, <2>5, <2>8, <2>9 DEF Importing
<1>2. CASE op = "import"
  <2>1. /\ Plain(input) /\ cursor <= Len(input)
        /\ \A k \in Key : \E upto \in 0..cursor : Stored(k) = AfterLines(k, upto)
        /\ (at = "exit" /\ Stuck) \/ HasLines
    BY <1>2 DEF Importing
  <2>2. /\ cursor \in Nat /\ Len(input) \in Nat
        /\ held # None => at = "flush" /\ held \in [name : Name, rec : Record]
        /\ input \in Seq(Line)
    BY DEF ListInv, TypeOK, Optional
  <2>3. \/ ImportNext \/ ImportEnd \/ FlushRecord \/ FlushEnd
        \/ FileFull /\ ~Ended
        \/ Interrupt \/ UNCHANGED vars
    BY <1>2 DEF Next, Start, ExportNext, ExportEnd, PurgeNext, PurgeEnd, Close,
         Ended, Killed
  <2>4. input' = input /\ before' = before
    BY <2>3 DEF ImportNext, ImportEnd, Finish, FlushRecord, FlushEnd, FileFull,
         Interrupt, vars
  <2>5. /\ Plain(input)'
        /\ \A k, u : AfterLines(k, u)' = AfterLines(k, u)
    BY <2>1, <2>4 DEF Plain, AfterLines
  <2>6. slot' = slot => \A k : Stored(k)' = Stored(k)
    BY DEF Stored, SlotOf
  <2>7. CASE ImportNext
    <3>0. PICK n \in Nat : n = cursor
      BY <2>2
    <3> DEFINE line == input[n + 1]
    <3>1. /\ at = "run" /\ n < Len(input) /\ held = None
          /\ WriteWord(line.name, Added(Seen(line.name), line),
                       IF FlushDue(n + 1) THEN "flush" ELSE "run")
          /\ cursor' = n + 1 /\ slot' = slot
      BY <2>2, <2>7, <3>0 DEF ImportNext
    <3>2. n + 1 \in 1..Len(input) /\ n + 1 <= Len(input)
      BY <2>2, <3>1
    <3>3. line \in Line /\ line.name \in Name
      <4>1. line \in Line
        BY <2>2, <3>2
      <4> QED
        BY <4>1 DEF Line
    <3>4. PICK m \in Name : m = line.name
      BY <3>3
    <3>5. PICK r : r = Added(Seen(m), line)
      OBVIOUS
    <3>6. r \in Record
      BY <3>3, <3>5, SeenType, AddedType DEF ListInv
    <3>7. AsOf(n)
      BY <2>1, <3>0, <3>1 DEF HasLines
    <3>8. r = AfterLines(KeyOf[m], n + 1)
      <4>1. Seen(m) = AfterLines(KeyOf[m], n)
        BY <2>1, <3>2, <3>4, <3>7, SeenAsOf
      <4>2. KeyOf[m] \in Key
        BY Constants
      <4> QED
        BY <2>1, <3>2, <3>4, <3>5, <4>1, <4>2, AfterOwn DEF ListInv
    <3>9. /\ \A other \in Name : other # m => dirty'[other] = dirty[other]
          /\ \/ held' = [name |-> m, rec |-> r] /\ dirty' = dirty
             \/ held' = None /\ dirty'[m] = r
             \/ held' = None /\ dirty'[m] = dirty[m] /\ Seen(m) = r
      <4>1. PICK next \in {"run", "flush"} :
              next = IF FlushDue(n + 1) THEN "flush" ELSE "run"
        OBVIOUS
      <4>2. WriteWord(m, r, next)
        BY <3>1, <3>4, <3>5, <4>1
      <4> QED
        BY <3>1, <3>6, <4>2, WriteWordEffect DEF ListInv
    <3>10. HasLines'
      <4>1. CASE held' = None
        <5>1. dirty'[m] = r \/ (dirty'[m] = dirty[m] /\ Seen(m) = r)
          <6>1. [name |-> m, rec |-> r] # None
            BY <3>6, Constants
          <6> QED
            BY <3>9, <4>1, <6>1
        <5>2. AsOf(n + 1)'
          BY <2>1, <2>4, <3>1, <3>2, <3>4, <3>7, <3>8, <3>9, <5>1, AsOfNext
        <5>3. cursor' = n + 1
          BY <3>1
        <5> QED
          BY <4>1, <5>2, <5>3 DEF HasLines, AsOf
      <4>2. CASE held' # None
        <5>1. held' = [name |-> m, rec |-> r] /\ dirty' = dirty
          BY <3>9, <4>2
        <5>2. AsOf(n)'
          BY <2>4, <2>5, <2>6, <3>1, <3>7, <5>1 DEF AsOf
        <5>3. cursor' >= 1 /\ cursor' - 1 = n /\ cursor' = n + 1
          BY <3>1
        <5>4. AsOf(cursor - 1)'
          BY <5>2, <5>3 DEF AsOf
        <5>5. /\ held'.name = input'[cursor'].name
              /\ held'.rec = AfterLines(KeyOf[held.name], cursor)'
          <6>1. held'.name = m /\ held'.rec = r
            BY <5>1
          <6>2. AfterLines(KeyOf[held.name], cursor)' = AfterLines(KeyOf[m], n + 1)
            BY <2>4, <5>3, <6>1 DEF AfterLines
          <6> QED
            BY <2>4, <3>4, <3>8, <5>3, <6>1, <6>2
        <5> QED
          BY <4>2, <5>3, <5>4, <5>5 DEF HasLines
      <4> QED
        BY <4>1, <4>2
    <3>11. \A k \in Key : \E upto \in 0..cursor' : Stored(k)' = AfterLines(k, upto)'
      <4>1. \A u \in 0..cursor : u \in 0..cursor'
        BY <2>2, <3>0, <3>1
      <4> QED
        BY <2>1, <2>5, <2>6, <3>1, <4>1
    <3> QED
      BY <2>4, <2>5, <3>1, <3>2, <3>10, <3>11 DEF Importing
  <2>8. CASE ImportEnd \/ Interrupt \/ UNCHANGED vars
    <3>1. UNCHANGED <<slot, dirty, input, before, cursor, held>>
      BY <2>8 DEF ImportEnd, Finish, Interrupt, vars
    <3>2. (at = "exit" /\ Stuck) => (at = "exit" /\ Stuck)'
      BY <2>8 DEF ImportEnd, Finish, Interrupt, vars, Stuck, Locked, Room,
         SlotOf, First
    <3> QED
      BY <2>1, <2>5, <2>6, <3>1, <3>2, HasLinesKept DEF Importing
  <2>9. CASE FlushRecord
    <3>1. HasLines
      <4>1. ~Stuck
        BY <2>9 DEF FlushRecord, Stuck
      <4> QED
        BY <2>1, <4>1
    <3>2. UNCHANGED <<cursor, held>>
      BY <2>9 DEF FlushRecord
    <3>3. PICK n \in 0..cursor : AsOf(n) /\ n = IF held = None THEN cursor
                                                ELSE cursor - 1
      BY <2>2, <3>1 DEF HasLines
    <3>4. AsOf(n)'
      BY <2>9, <3>3, AsOfFlushed
    <3>5. HasLines'
      BY <2>4, <2>5, <3>1, <3>2, <3>3, <3>4 DEF HasLines, AsOf
    <3>6. PICK m : m = First
      OBVIOUS
    <3>7. /\ Stored(KeyOf[m])' = dirty[m]
          /\ \A k \in Key : k # KeyOf[m] => Stored(k)' = Stored(k)
      BY <2>9, <3>6, StoredFlushed
    <3>8. dirty[m] = AfterLines(KeyOf[m], n)
      <4>1. m \in Name /\ dirty[m] # None
        BY <2>9, <3>6, FlushRecordEffect, Constants DEF ListInv
      <4> QED
        BY <3>3, <4>1 DEF AsOf
    <3>9. \A k \in Key : \E upto \in 0..cursor' : Stored(k)' = AfterLines(k, upto)'
      BY <2>1, <2>5, <3>2, <3>3, <3>7, <3>8
    <3> QED
      BY <2>1, <2>4, <2>5, <3>2, <3>5, <3>9 DEF Importing
  <2>10. CASE FlushEnd
    <3>1. /\ slot' = slot /\ cursor' = cursor /\ held' = None /\ at = "flush"
          /\ Locked = {}
      BY <2>10 DEF FlushEnd
    <3>2. HasLines
      BY <2>1, <3>1
    <3>3. HasLines'
      <4>1. CASE held = None
        <5>1. dirty' = dirty
          BY <2>10, <4>1 DEF FlushEnd
        <5> QED
          BY <2>4, <3>1, <3>2, <4>1, <5>1, HasLinesKept
      <4>2. CASE held # None
        <5>1. PICK n \in Nat : n + 1 = cursor /\ n = cursor - 1
          BY <2>2, <3>2, <4>2 DEF HasLines
        <5>2. PICK m \in Name : m = held.name
          BY <2>2, <4>2
        <5>3. /\ AsOf(n) /\ m = input[n + 1].name
              /\ held.rec = AfterLines(KeyOf[m], n + 1) /\ held.rec \in Record
          BY <2>2, <3>2, <4>2, <5>1, <5>2 DEF HasLines
        <5>4. Put(m, held.rec) /\ Cardinality(Locked) < MaxSize
          BY <2>10, <3>1, <4>2, <5>2, FS_EmptySet, Constants DEF FlushEnd
        <5>5. /\ \A other \in Name : other # m => dirty'[other] = dirty[other]
              /\ \/ dirty'[m] = held.rec
                 \/ dirty'[m] = dirty[m] /\ Seen(m) = held.rec
          BY <5>3, <5>4, PutEffect DEF ListInv
        <5>6. AsOf(n + 1)'
          BY <2>1, <2>4, <3>1, <5>1, <5>3, <5>5, AsOfNext
        <5>7. cursor' = n + 1
          BY <3>1, <5>1
        <5> QED
          BY <3>1, <5>6, <5>7 DEF HasLines, AsOf
      <4> QED
        BY <4>1, <4>2
    <3> QED
      BY <2>1, <2>4, <2>5, <2>6, <3>1, <3>3 DEF Importing
  <2>11. CASE FileFull /\ ~Ended
    <3>1. /\ UNCHANGED <<slot, dirty, cursor>> /\ at' = "exit"
          /\ Locked # {} /\ Room(KeyOf[First]) = {}
      BY <2>11 DEF FileFull
    <3>2. Stuck'
      BY <3>1 DEF Stuck, Locked, Room, SlotOf, First
    <3> QED
      BY <2>1, <2>4, <2>5, <2>6, <3>1, <3>2 DEF Importing
  <2> QED
    BY <2>3, <2>7, <2>8, <2>9, <2>10, <2>11
<1> QED
  BY <1>1, <1>2

-----------------------------------------------------------------------------
LEMMA Inductive == Spec => []ListInv
<1>1. Init => ListInv
  <2>1. Init => Locked = {}
    BY DEF Init, NothingDirty, Locked
  <2> QED
    BY <2>1, TypeInit, OneSlotInit DEF Init, ListInv, Idle, Exporting, Purging
<1>2. ListInv /\ [Next]_vars => ListInv'
  BY TypeStep, OneSlotStep, IdleStep, ExportingStep, PurgingStep DEF ListInv
<1> QED
  BY <1>1, <1>2, PTL DEF Spec

\* The file, the cache and the command keep their shape, for any sizes.
THEOREM TypeCorrect == Spec => []TypeOK
<1>1. ListInv => TypeOK
  BY DEF ListInv
<1> QED
  BY <1>1, Inductive, PTL

\* However commands end, no record comes to sit in two slots.
THEOREM OneSlotAlways == Spec => []OneSlotEach
<1>1. ListInv => OneSlotEach
  BY DEF ListInv
<1> QED
  BY <1>1, Inductive, PTL

\* exportWords writes every record that counts, and that of __COUNT__, once and
\* as it was, however many slots the file has and whichever of them are empty.
THEOREM ExportAlwaysExact == Spec => []ExportExact
  BY Inductive, ExportedExact, PTL

\* purgeTerms empties the records that match and no other, however small the
\* cache is that is flushed under its cursor.
THEOREM PurgeAlwaysExact == Spec => []PurgeTermsExact
  BY Inductive, PurgedExact, PTL

LEMMA ImportInductive ==
  ASSUME \A lines \in Files : Plain(lines)
  PROVE  Spec => []Importing
<1>1. Init => Importing
  BY DEF Init, Importing
<1>2. ListInv /\ Importing /\ [Next]_vars => Importing'
  BY ImportingStep
<1> QED
  BY <1>1, <1>2, Inductive, PTL DEF Spec

\* importWords adds the lines of a file in their order, each once, whatever the
\* cache flushes on the way and whenever the process is killed.
THEOREM ImportAlwaysInOrder ==
  ASSUME \A lines \in Files : Plain(lines)
  PROVE  Spec => []ImportInOrder
<1>1. Importing => ImportInOrder
  BY DEF Importing, ImportInOrder
<1> QED
  BY <1>1, ImportInductive, PTL

\* An import that is over, or was stopped by a signal, has added exactly the
\* lines it read, however small the cache and however often it was flushed.
THEOREM ImportAlwaysAdds ==
  ASSUME \A lines \in Files : Plain(lines)
  PROVE  Spec => []ImportAdds
<1>1. ListInv /\ Importing => ImportAdds
  <2> SUFFICES ASSUME ListInv, Importing, op = "import", at = "exit", Locked = {}
               PROVE  \A k \in Key : Stored(k) = AfterLines(k, cursor)
    BY DEF ImportAdds
  <2>1. AsOf(cursor)
    BY DEF Importing, Stuck, HasLines, ListInv, TypeOK
  <2>2. \A m \in Name : dirty[m] = None
    BY DEF Locked
  <2> QED
    BY <2>1, <2>2 DEF AsOf
<1> QED
  BY <1>1, Inductive, ImportInductive, PTL

=============================================================================
