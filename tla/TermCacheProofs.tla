--------------------------- MODULE TermCacheProofs ---------------------------
(***************************************************************************)
(* Proofs about TermCache, for every set of words, cache size, chunk size  *)
(* and shared database.                                                    *)
(***************************************************************************)
EXTENDS TermCache, FiniteSetTheorems, SequenceTheorems, TLAPS

-----------------------------------------------------------------------------
(* The normal list *)

\* A list of words without repetitions.
Distinct(s) == \A i, j \in DOMAIN s : s[i] = s[j] => i = j

LEMMA ConsMembers ==
  ASSUME NEW s \in Seq(Word), NEW w \in Word, w \notin Range(s), Distinct(s)
  PROVE  /\ <<w>> \o s \in Seq(Word)
         /\ Len(<<w>> \o s) = Len(s) + 1
         /\ Range(<<w>> \o s) = Range(s) \cup {w}
         /\ Distinct(<<w>> \o s)
<1> DEFINE c == <<w>> \o s
<1>0. <<w>> \in Seq(Word) /\ Len(<<w>>) = 1 /\ <<w>>[1] = w
  OBVIOUS
<1>a. /\ c \in Seq(Word)
      /\ Len(c) = Len(<<w>>) + Len(s)
      /\ \A i \in 1 .. Len(<<w>>) + Len(s) :
           c[i] = IF i <= Len(<<w>>) THEN <<w>>[i] ELSE s[i - Len(<<w>>)]
  BY <1>0, ConcatProperties, Zenon
<1>b. Len(s) \in Nat
  BY LenProperties
<1>1. /\ c \in Seq(Word)
      /\ Len(c) = Len(s) + 1
      /\ \A i \in 1..(Len(s) + 1) : c[i] = IF i <= 1 THEN <<w>>[i] ELSE s[i - 1]
  <2> HIDE DEF c
  <2> QED
    BY <1>0, <1>a, <1>b
<1>2. c[1] = w /\ \A i \in 1..Len(s) : c[i + 1] = s[i]
  <2> HIDE DEF c
  <2> QED
    BY <1>0, <1>1, <1>b
<1>3. DOMAIN s = 1..Len(s) /\ DOMAIN c = 1..(Len(s) + 1)
  <2> HIDE DEF c
  <2> QED
    BY <1>1, LenProperties
<1> HIDE DEF c
<1>4. \A i \in 2..(Len(s) + 1) : i - 1 \in 1..Len(s) /\ c[i] = s[i - 1]
  BY <1>2
<1>5. Range(c) = Range(s) \cup {w}
  <2>1. Range(c) \subseteq Range(s) \cup {w}
    <3>1. ASSUME NEW i \in 1..(Len(s) + 1) PROVE c[i] \in Range(s) \cup {w}
      <4>1. i = 1 \/ i \in 2..(Len(s) + 1)
        BY <1>b
      <4> QED
        BY <1>2, <1>3, <1>4, <4>1 DEF Range
    <3> QED
      BY <1>3, <3>1 DEF Range
  <2>2. w \in Range(c)
    BY <1>b, <1>2, <1>3 DEF Range
  <2>3. Range(s) \subseteq Range(c)
    <3>1. ASSUME NEW i \in 1..Len(s) PROVE s[i] \in Range(c)
      BY <1>b, <1>2, <1>3 DEF Range
    <3> QED
      BY <1>3, <3>1 DEF Range
  <2> QED
    BY <2>1, <2>2, <2>3
<1>6. Distinct(c)
  <2>1. \A i \in 1..Len(s) : s[i] # w
    BY <1>3 DEF Range
  <2>2. ASSUME NEW i \in 1..(Len(s) + 1), NEW j \in 1..(Len(s) + 1), c[i] = c[j]
        PROVE  i = j
    <3>1. (i = 1 \/ i \in 2..(Len(s) + 1)) /\ (j = 1 \/ j \in 2..(Len(s) + 1))
      BY <1>b
    <3>2. CASE i = 1 \/ j = 1
      BY <1>2, <1>4, <2>1, <2>2, <3>1, <3>2
    <3>3. CASE i \in 2..(Len(s) + 1) /\ j \in 2..(Len(s) + 1)
      <4>1. s[i - 1] = s[j - 1] /\ i - 1 \in 1..Len(s) /\ j - 1 \in 1..Len(s)
        BY <1>4, <2>2, <3>3
      <4>2. i - 1 = j - 1
        BY <1>3, <4>1 DEF Distinct
      <4> QED
        BY <1>b, <4>2
    <3> QED
      BY <3>1, <3>2, <3>3
  <2> QED
    BY <1>3, <2>2 DEF Distinct
<1> QED
  BY <1>1, <1>5, <1>6 DEF c

LEMMA WithoutMembers ==
  ASSUME NEW s \in Seq(Word), NEW w \in Word, Distinct(s)
  PROVE  /\ Without(s, w) \in Seq(Word)
         /\ Len(Without(s, w)) = IF w \in Range(s) THEN Len(s) - 1 ELSE Len(s)
         /\ Range(Without(s, w)) = Range(s) \ {w}
         /\ Distinct(Without(s, w))
<1>1. CASE w \notin Range(s)
  BY <1>1 DEF Without
<1>2. CASE w \in Range(s)
  <2> DEFINE i == CHOOSE i \in DOMAIN s : s[i] = w
             c == SubSeq(s, 1, i - 1) \o SubSeq(s, i + 1, Len(s))
  <2>1. i \in 1..Len(s) /\ s[i] = w
    BY <1>2 DEF Range
  <2>2. Without(s, w) = c
    BY <1>2 DEF Without
  <2> HIDE DEF i
  <2>a. /\ SubSeq(s, 1, i - 1) \in Seq(Word)
        /\ Len(SubSeq(s, 1, i - 1)) = i - 1
        /\ \A k \in 1..(i - 1) : SubSeq(s, 1, i - 1)[k] = s[k]
    <3>1. \A k \in 1 .. i - 1 : s[k] \in Word
      BY <2>1, ElementOfSeq
    <3>2. Len(s) \in Nat
      BY LenProperties
    <3> QED
      BY <2>1, <3>1, <3>2, SubSeqProperties
  <2>b. /\ SubSeq(s, i + 1, Len(s)) \in Seq(Word)
        /\ Len(SubSeq(s, i + 1, Len(s))) = Len(s) - i
        /\ \A k \in 1..(Len(s) - i) : SubSeq(s, i + 1, Len(s))[k] = s[k + i]
    <3>1. \A k \in i + 1 .. Len(s) : s[k] \in Word
      BY <2>1, ElementOfSeq
    <3>2. Len(s) \in Nat
      BY LenProperties
    <3> QED
      BY <2>1, <3>1, <3>2, SubSeqProperties
  <2> DEFINE a == SubSeq(s, 1, i - 1)
             b == SubSeq(s, i + 1, Len(s))
  <2>c. /\ c \in Seq(Word)
        /\ Len(c) = Len(a) + Len(b)
        /\ \A k \in 1 .. Len(a) + Len(b) :
             c[k] = IF k <= Len(a) THEN a[k] ELSE b[k - Len(a)]
    BY <2>a, <2>b, ConcatProperties, Zenon
  <2>d. Len(s) \in Nat
    BY LenProperties
  <2>e. Len(a) = i - 1 /\ Len(b) = Len(s) - i
    BY <2>a, <2>b
  <2> HIDE DEF a, b, c
  <2>3. c \in Seq(Word) /\ Len(c) = Len(s) - 1 /\ DOMAIN c = 1..(Len(s) - 1)
    <3>1. Len(c) = Len(s) - 1
      BY <2>1, <2>c, <2>d, <2>e
    <3> QED
      BY <2>c, <3>1, LenProperties
  <2>4. ASSUME NEW k \in 1..(Len(s) - 1)
        PROVE  c[k] = IF k < i THEN s[k] ELSE s[k + 1]
    <3>2. c[k] = IF k <= i - 1 THEN a[k] ELSE b[k - (i - 1)]
      BY <2>1, <2>c, <2>d, <2>e
    <3>3. CASE k <= i - 1
      <4>1. a[k] = s[k]
        BY <2>1, <2>a, <2>d, <3>3 DEF a
      <4> QED
        BY <2>1, <3>2, <3>3, <4>1
    <3>4. CASE ~(k <= i - 1)
      <4>1. k - (i - 1) \in 1..(Len(s) - i) /\ k - (i - 1) + i = k + 1
        BY <2>1, <2>d, <3>4
      <4>2. b[k - (i - 1)] = s[k + 1]
        BY <2>b, <4>1 DEF b
      <4> QED
        BY <2>1, <3>2, <3>4, <4>2
    <3> QED
      BY <3>3, <3>4
  <2>5. DOMAIN s = 1..Len(s)
    OBVIOUS
  <2> HIDE DEF c
  <2>6. \A k \in 1..Len(s) : s[k] = w => k = i
    BY <2>1, <2>5 DEF Distinct
  <2>7. Range(c) \subseteq Range(s) \ {w}
    BY <2>1, <2>3, <2>4, <2>5, <2>6 DEF Range
  <2>8. ASSUME NEW v \in Range(s) \ {w} PROVE v \in Range(c)
    <3>1. PICK k \in 1..Len(s) : s[k] = v
      BY <2>5 DEF Range
    <3>2. k # i
      BY <2>1, <3>1
    <3>3. CASE k < i
      BY <2>1, <2>3, <2>4, <3>1, <3>3 DEF Range
    <3>4. CASE k > i
      <4>1. k - 1 \in 1..(Len(s) - 1) /\ c[k - 1] = s[k]
        BY <2>1, <2>4, <3>1, <3>4
      <4> QED
        BY <2>3, <3>1, <4>1 DEF Range
    <3> QED
      BY <2>1, <3>1, <3>2, <3>3, <3>4
  <2>9. Distinct(c)
    <3> SUFFICES ASSUME NEW j \in DOMAIN c, NEW k \in DOMAIN c, c[j] = c[k]
                 PROVE  j = k
      BY Zenon DEF Distinct
    <3> DEFINE Old(m) == IF m < i THEN m ELSE m + 1
    <3>1. \A m \in DOMAIN c : Old(m) \in DOMAIN s /\ c[m] = s[Old(m)]
      BY <2>1, <2>3, <2>4, <2>5
    <3>2. Old(j) = Old(k)
      BY <3>1, Zenon DEF Distinct
    <3> QED
      BY <2>1, <2>3, <3>2
  <2> QED
    BY <1>2, <2>2, <2>3, <2>7, <2>8, <2>9
<1> QED
  BY <1>1, <1>2

\* Eviction keeps the most recently used nodes, as many as there is room for.
LEMMA KeptMembers ==
  ASSUME normalList \in Seq(Word), Distinct(normalList), LockedCount \in Nat,
         MaxSize \in Nat
  PROVE  /\ Kept \in Seq(Word)
         /\ Len(Kept) <= Room
         /\ Room \in Nat
         /\ Range(Kept) \subseteq Range(normalList)
         /\ Distinct(Kept)
<1>1. Room \in Nat
  BY DEF Room
<1>2. CASE Len(normalList) <= Room
  BY <1>1, <1>2 DEF Kept
<1>3. CASE ~(Len(normalList) <= Room)
  <2>1. Kept = SubSeq(normalList, 1, Room) /\ Room < Len(normalList)
    BY <1>1, <1>3 DEF Kept
  <2>2. Kept \in Seq(Word) /\ Len(Kept) = Room /\ DOMAIN Kept = 1..Room
    BY <1>1, <2>1
  <2>3. \A k \in 1..Room : k \in DOMAIN normalList /\ Kept[k] = normalList[k]
    BY <1>1, <2>1
  <2> QED
    BY <1>1, <2>2, <2>3 DEF Range, Distinct
<1> QED
  BY <1>2, <1>3

-----------------------------------------------------------------------------
(* What the LRU operations do to the index and the normal list *)

\* The part of the state that LRUCache keeps, and what is true of it.
Lru == /\ entry \in [Word -> Entry]
       /\ normalList \in Seq(Word)
       /\ ListMatchesIndex
       /\ LockedBound
       /\ SizeBound

LEMMA EntryFacts ==
  ASSUME entry \in [Word -> Entry], NEW w \in Word
  PROVE  /\ entry[w] \in Entry
         /\ entry[w].locked \in BOOLEAN
         /\ entry[w].shared \in BOOLEAN
         /\ Cached(w) => entry[w].rec \in Record
         /\ entry[w].locked => Cached(w)
<1>1. CASE entry[w] = NoEntry
  BY <1>1 DEF Entry, NoEntry, Cached
<1>2. CASE entry[w] \in [rec : Record, shared : BOOLEAN, locked : BOOLEAN]
  <2>1. entry[w].rec \in Record /\ NoEntry.rec = None
    BY <1>2 DEF NoEntry
  <2>2. Cached(w)
    BY <2>1, CacheAssumption DEF Cached
  <2> QED
    BY <1>2, <2>1, <2>2 DEF Entry
<1> QED
  BY <1>1, <1>2 DEF Entry

LEMMA LockedFinite ==
  /\ IsFiniteSet(Locked)
  /\ LockedCount \in Nat
  BY CacheAssumption, FS_Subset, FS_CardinalityType DEF Locked, LockedCount

LEMMA SizeFacts ==
  ASSUME Lru
  PROVE  /\ Distinct(normalList)
         /\ LockedCount \in Nat
         /\ Len(normalList) \in Nat
         /\ MaxSize \in Nat
         /\ MaxSize > 0
  BY LockedFinite, LenProperties, CacheAssumption
     DEF Lru, ListMatchesIndex, Distinct

\* LRUCache::addNewNode, of a locked node only when there is room for a lock.
LEMMA AddNewNodeLru ==
  ASSUME Lru, NEW w \in Word, ~Cached(w),
         NEW e \in Entry, e # NoEntry, e.locked => LockedCount < MaxSize,
         AddNewNode(w, e)
  PROVE  /\ Lru'
         /\ entry'[w] = e
         /\ \A v \in Word : v # w =>
              entry'[v] = entry[v] \/ (~entry[v].locked /\ entry'[v] = NoEntry)
         /\ e.locked \in BOOLEAN
<1>1. /\ Kept \in Seq(Word)
      /\ Len(Kept) <= Room
      /\ Room \in Nat
      /\ Range(Kept) \subseteq Range(normalList)
      /\ Distinct(Kept)
  BY KeptMembers, SizeFacts DEF Lru
<1>2. w \notin Range(normalList) /\ w \notin Range(Kept)
  BY <1>1 DEF Lru, ListMatchesIndex
<1>3. e.locked \in BOOLEAN
  BY DEF Entry, NoEntry
<1>4. entry' \in [Word -> Entry]
  BY DEF AddNewNode, Lru, Entry
<1>5. /\ entry'[w] = e
      /\ \A v \in Word : v # w /\ v \in Locked \cup Range(Kept)
           => entry'[v] = entry[v]
      /\ \A v \in Word : v # w /\ v \notin Locked \cup Range(Kept)
           => entry'[v] = NoEntry
  BY DEF AddNewNode
<1>6. \A v \in Range(Kept) : v \in Word /\ Cached(v) /\ ~entry[v].locked
  BY <1>1 DEF Lru, ListMatchesIndex
<1>7. /\ normalList' \in Seq(Word)
      /\ Distinct(normalList')
      /\ Range(normalList') = IF e.locked THEN Range(Kept)
                                ELSE Range(Kept) \cup {w}
      /\ Len(normalList') = IF e.locked THEN Len(Kept) ELSE Len(Kept) + 1
  <2>1. CASE e.locked
    BY <1>1, <2>1 DEF AddNewNode
  <2>2. CASE ~e.locked
    BY <1>1, <1>2, <2>2, ConsMembers DEF AddNewNode
  <2> QED
    BY <2>1, <2>2
<1>8. Range(normalList') = {v \in Word : Cached(v)' /\ ~entry'[v].locked}
  <2>1. ASSUME NEW v \in Word
        PROVE  v \in Range(normalList') <=> Cached(v)' /\ ~entry'[v].locked
    <3>1. CASE v = w
      BY <1>2, <1>3, <1>5, <1>7, <3>1 DEF Cached
    <3>2. CASE v # w /\ v \in Range(Kept)
      BY <1>5, <1>6, <1>7, <3>2 DEF Cached
    <3>3. CASE v # w /\ v \notin Range(Kept) /\ v \in Locked
      BY <1>5, <1>7, <3>3 DEF Cached, Locked
    <3>4. CASE v # w /\ v \notin Range(Kept) /\ v \notin Locked
      BY <1>5, <1>7, <3>4 DEF Cached
    <3> QED
      BY <3>1, <3>2, <3>3, <3>4
  <2>2. Range(normalList') \subseteq Word
    BY <1>6, <1>7
  <2> QED
    BY <2>1, <2>2
<1>9. Locked' = IF e.locked THEN Locked \cup {w} ELSE Locked
  <2>1. w \notin Locked
    BY EntryFacts DEF Lru, Locked
  <2>2. \A v \in Word : v # w => (v \in Locked' <=> v \in Locked)
    BY <1>5, <1>6 DEF Locked, NoEntry
  <2>3. w \in Locked' <=> e.locked
    BY <1>5 DEF Locked
  <2> QED
    BY <2>1, <2>2, <2>3 DEF Locked
<1>10. LockedCount' = IF e.locked THEN LockedCount + 1 ELSE LockedCount
  <2>1. w \notin Locked
    BY EntryFacts DEF Lru, Locked
  <2> QED
    BY <1>9, <2>1, LockedFinite, FS_AddElement DEF LockedCount
<1>11. LockedBound' /\ SizeBound'
  <2>1. /\ LockedCount \in Nat /\ Len(Kept) \in Nat
        /\ LockedCount <= MaxSize /\ MaxSize \in Nat /\ MaxSize > 0
    BY <1>1, LockedFinite, LenProperties, CacheAssumption
       DEF Lru, LockedBound
  <2> QED
    BY <1>1, <1>7, <1>10, <2>1 DEF LockedBound, SizeBound, Room
<1>12. Lru'
  BY <1>4, <1>7, <1>8, <1>11 DEF Lru, ListMatchesIndex, Distinct
<1> QED
  BY <1>3, <1>5, <1>12 DEF Locked

\* LRUCache::get on a node that is there.
LEMMA TouchedLru ==
  ASSUME Lru, NEW w \in Word, Cached(w), normalList' = Touched(w), entry' = entry
  PROVE  Lru'
<1>1. entry[w].locked \in BOOLEAN
  BY EntryFacts DEF Lru
<1>2. CASE entry[w].locked
  BY <1>2 DEF Touched, Lru, ListMatchesIndex, LockedBound, SizeBound, Cached,
              LockedCount, Locked
<1>3. CASE ~entry[w].locked
  <2> DEFINE rest == Without(normalList, w)
  <2>1. w \in Range(normalList)
    BY <1>3 DEF Lru, ListMatchesIndex
  <2>2. /\ rest \in Seq(Word)
        /\ Len(rest) = Len(normalList) - 1
        /\ Range(rest) = Range(normalList) \ {w}
        /\ Distinct(rest)
    BY <2>1, WithoutMembers, SizeFacts DEF Lru
  <2> HIDE DEF rest
  <2>3. /\ normalList' \in Seq(Word)
        /\ Len(normalList') = Len(rest) + 1
        /\ Range(normalList') = Range(rest) \cup {w}
        /\ Distinct(normalList')
    BY <1>3, <2>2, ConsMembers DEF Touched, rest
  <2>4. Range(normalList') = Range(normalList)
    BY <2>1, <2>2, <2>3
  <2>5. Len(normalList') = Len(normalList)
    BY <2>2, <2>3, SizeFacts
  <2> QED
    BY <2>3, <2>4, <2>5 DEF Lru, ListMatchesIndex, Distinct, LockedBound,
                            SizeBound, Cached, LockedCount, Locked
<1> QED
  BY <1>1, <1>2, <1>3

\* LRUCache::lock of a node, with a new value.
LEMMA LockLru ==
  ASSUME Lru, NEW w \in Word, Cached(w), NEW e \in Entry, e # NoEntry, e.locked,
         LockedCount < MaxSize,
         entry' = [entry EXCEPT ![w] = e],
         normalList' = Without(normalList, w)
  PROVE  Lru'
<1>1. /\ entry' \in [Word -> Entry]
      /\ entry'[w] = e
      /\ \A v \in Word : v # w => entry'[v] = entry[v]
  BY DEF Lru
<1>2. /\ normalList' \in Seq(Word)
      /\ Len(normalList') = IF w \in Range(normalList)
                            THEN Len(normalList) - 1 ELSE Len(normalList)
      /\ Range(normalList') = Range(normalList) \ {w}
      /\ Distinct(normalList')
  BY WithoutMembers, SizeFacts DEF Lru
<1>3. Range(normalList) = {v \in Word : Cached(v) /\ ~entry[v].locked}
  BY DEF Lru, ListMatchesIndex
<1>4. Range(normalList') = {v \in Word : Cached(v)' /\ ~entry'[v].locked}
  BY <1>1, <1>2, <1>3 DEF Cached
<1>5. Locked' = Locked \cup {w}
  BY <1>1 DEF Locked
<1>6. LockedCount' = IF w \in Locked THEN LockedCount ELSE LockedCount + 1
  BY <1>5, LockedFinite, FS_AddElement DEF LockedCount
<1>7. w \in Range(normalList) <=> w \notin Locked
  BY <1>3 DEF Locked
<1>8. LockedBound' /\ SizeBound'
  BY <1>2, <1>6, <1>7, SizeFacts DEF Lru, LockedBound, SizeBound
<1> QED
  BY <1>1, <1>2, <1>4, <1>8 DEF Lru, ListMatchesIndex, Distinct

\* LRUCache::unlock of a locked node.
LEMMA UnlockLru ==
  ASSUME Lru, NEW w \in Word, entry[w].locked,
         entry' = [entry EXCEPT ![w].locked = FALSE],
         normalList' = <<w>> \o normalList
  PROVE  /\ Lru'
         /\ entry'[w] = [entry[w] EXCEPT !.locked = FALSE]
         /\ entry[w] \in [rec : Record, shared : BOOLEAN, locked : BOOLEAN]
<1>1. entry[w] \in [rec : Record, shared : BOOLEAN, locked : BOOLEAN]
  BY CacheAssumption DEF Lru, Entry, NoEntry
<1>2. /\ entry'[w] = [entry[w] EXCEPT !.locked = FALSE]
      /\ \A v \in Word : v # w => entry'[v] = entry[v]
  BY DEF Lru
<1>3. entry'[w] \in Entry /\ entry'[w] # NoEntry /\ ~entry'[w].locked
  <2>1. entry'[w] \in [rec : Record, shared : BOOLEAN, locked : BOOLEAN]
    BY <1>1, <1>2
  <2>2. entry'[w].rec \in Record /\ NoEntry.rec = None
    BY <2>1 DEF NoEntry
  <2> QED
    BY <1>1, <1>2, <2>1, <2>2, CacheAssumption DEF Entry
<1>4. entry' \in [Word -> Entry]
  BY <1>3 DEF Lru
<1>5. w \notin Range(normalList)
  BY DEF Lru, ListMatchesIndex
<1>6. /\ normalList' \in Seq(Word)
      /\ Len(normalList') = Len(normalList) + 1
      /\ Range(normalList') = Range(normalList) \cup {w}
      /\ Distinct(normalList')
  BY <1>5, ConsMembers, SizeFacts DEF Lru
<1>7. Range(normalList) = {v \in Word : Cached(v) /\ ~entry[v].locked}
  BY DEF Lru, ListMatchesIndex
<1>8. Range(normalList') = {v \in Word : Cached(v)' /\ ~entry'[v].locked}
  BY <1>2, <1>3, <1>6, <1>7 DEF Cached
<1>9. w \in Locked /\ Locked' = Locked \ {w}
  BY <1>2, <1>3 DEF Locked
<1>10. LockedCount' = LockedCount - 1
  BY <1>9, LockedFinite, FS_RemoveElement DEF LockedCount
<1>11. LockedBound' /\ SizeBound'
  BY <1>6, <1>10, SizeFacts DEF Lru, LockedBound, SizeBound
<1> QED
  BY <1>1, <1>2, <1>4, <1>6, <1>8, <1>11 DEF Lru, ListMatchesIndex, Distinct

\* LRUCache::clear, and the cache of a new process.
LEMMA ClearedLru ==
  ASSUME entry' = [w \in Word |-> NoEntry], normalList' = <<>>
  PROVE  Lru'
<1>1. entry' \in [Word -> Entry]
  BY DEF Entry
<1>2. normalList' \in Seq(Word) /\ Range(normalList') = {} /\ Len(normalList') = 0
  BY DEF Range
<1>3. \A w \in Word : ~Cached(w)' /\ ~entry'[w].locked
  BY DEF Cached, NoEntry
<1>4. Locked' = {} /\ LockedCount' = 0
  BY <1>3, FS_EmptySet DEF Locked, LockedCount
<1>5. LockedBound' /\ SizeBound'
  BY <1>2, <1>4, CacheAssumption DEF LockedBound, SizeBound
<1>6. ListMatchesIndex'
  BY <1>2, <1>3 DEF ListMatchesIndex
<1> QED
  BY <1>1, <1>2, <1>5, <1>6 DEF Lru

-----------------------------------------------------------------------------
(* The invariant *)

\* A store that deletes records without counts has none.
Pruned == \A w \in Word : /\ image[w] # None => image[w] = Stored(w, image[w])
                          /\ disk[w] # None => disk[w] = Stored(w, disk[w])

\* Coherent needs to know that what is written back during a flush is committed
\* before the same record can be written again.
CacheInv == TypeOK /\ Lru /\ Coherent /\ CommittedUntilFlushed /\ Pruned

LEMMA StoredType ==
  ASSUME NEW w \in Word, NEW r \in Record
  PROVE  Stored(w, r) \in Record \cup {None}
  BY DEF Stored

LEMMA StoredTwice ==
  ASSUME NEW w \in Word, NEW r \in Record, Stored(w, r) # None
  PROVE  Stored(w, Stored(w, r)) = Stored(w, r)
  BY DEF Stored

LEMMA CountType ==
  ASSUME NEW r \in Record \cup {None}
  PROVE  CountOf(r) \in Count
  BY CacheAssumption DEF CountOf, Record

LEMMA LookupType ==
  ASSUME TypeOK, NEW w \in Word
  PROVE  Lookup(w) \in Record \cup {None}
  BY CacheAssumption DEF TypeOK, Lookup

\* The four outcomes of writeWord, outside a flush.
LEMMA PutInv ==
  ASSUME TypeOK, Lru, Coherent, Pruned, disk = image, LockedCount < MaxSize,
         NEW w \in Word, NEW r \in Record, Put(w, r)
  PROVE  /\ Lru'
         /\ Pruned'
         /\ Coherent'
         /\ image' \in [Word -> Record \cup {None}]
         /\ disk' = image'
         /\ last' \in Call
<1>l. last' \in Call
  BY DEF Put, Answer, Call, Record
<1>s. Stored(w, r) \in Record \cup {None}
  BY StoredType
<1>1. CASE PutUncacheable(w, r)
  <2>1. /\ image' = [image EXCEPT ![w] = Stored(w, r)]
        /\ disk' = [disk EXCEPT ![w] = Stored(w, r)]
        /\ entry' = entry /\ normalList' = normalList
    BY <1>1 DEF PutUncacheable
  <2>2. image' \in [Word -> Record \cup {None}] /\ disk' = image'
    BY <1>s, <2>1 DEF TypeOK
  <2>3. ~Cached(w)
    BY <1>1 DEF PutUncacheable, Coherent
  <2>4. \A v \in Word : v # w => image'[v] = image[v]
    BY <2>1 DEF TypeOK
  <2>5. Coherent'
    BY <2>1, <2>3, <2>4 DEF Coherent, Cached
  <2>6. Lru'
    BY <2>1 DEF Lru, ListMatchesIndex, LockedBound, SizeBound, LockedCount,
                Locked, Cached
  <2>7. Pruned'
    BY <2>1, <2>2, <2>4, StoredTwice DEF Pruned, TypeOK
  <2> QED
    BY <1>l, <2>2, <2>5, <2>6, <2>7
<1>2. CASE PutNew(w, r)
  <2> DEFINE e == [rec |-> r, shared |-> FALSE, locked |-> TRUE]
  <2>1. e \in Entry /\ e # NoEntry /\ e.locked /\ ~e.shared
    <3>1. e.rec = r /\ NoEntry.rec = None
      BY DEF NoEntry
    <3> QED
      BY <3>1, CacheAssumption DEF Entry
  <2>2. AddNewNode(w, e) /\ ~Cached(w) /\ w \in Cacheable
        /\ image' = image /\ disk' = disk
    BY <1>2 DEF PutNew
  <2> HIDE DEF e
  <2>3. /\ Lru'
        /\ entry'[w] = e
        /\ \A v \in Word : v # w =>
             entry'[v] = entry[v] \/ (~entry[v].locked /\ entry'[v] = NoEntry)
    BY <2>1, <2>2, AddNewNodeLru
  <2>4. Coherent'
    BY <2>1, <2>2, <2>3 DEF Coherent, Cached
  <2> QED
    BY <1>l, <2>2, <2>3, <2>4 DEF TypeOK, Pruned
<1>3. CASE PutNothing(w, r)
  <2>1. Cached(w) /\ normalList' = Touched(w) /\ entry' = entry
        /\ image' = image /\ disk' = disk
    BY <1>3 DEF PutNothing
  <2>2. Lru'
    BY <2>1, TouchedLru
  <2>3. Coherent'
    BY <2>1 DEF Coherent, Cached
  <2> QED
    BY <1>l, <2>1, <2>2, <2>3 DEF TypeOK, Pruned
<1>4. CASE PutUpdate(w, r)
  <2> DEFINE e == [rec |-> r, shared |-> FALSE, locked |-> TRUE]
  <2>1. e \in Entry /\ e # NoEntry /\ e.locked /\ ~e.shared
    <3>1. e.rec = r /\ NoEntry.rec = None
      BY DEF NoEntry
    <3> QED
      BY <3>1, CacheAssumption DEF Entry
  <2>2. /\ Cached(w) /\ w \in Cacheable
        /\ entry' = [entry EXCEPT ![w] = e]
        /\ normalList' = Without(normalList, w)
        /\ image' = image /\ disk' = disk
    BY <1>4 DEF PutUpdate
  <2> HIDE DEF e
  <2>3. Lru'
    BY <2>1, <2>2, LockLru
  <2>4. entry'[w] = e /\ \A v \in Word : v # w => entry'[v] = entry[v]
    BY <2>2 DEF Lru
  <2>5. Coherent'
    BY <2>1, <2>2, <2>4 DEF Coherent, Cached
  <2> QED
    BY <1>l, <2>2, <2>3, <2>5 DEF TypeOK, Pruned
<1> QED
  BY <1>1, <1>2, <1>3, <1>4 DEF Put

LEMMA CacheInit == Init => CacheInv
<1> SUFFICES ASSUME Init PROVE CacheInv
  OBVIOUS
<1>1. \A w \in Word : entry[w] = NoEntry /\ ~Cached(w) /\ ~entry[w].locked
  BY DEF Init, Cached, NoEntry
<1>2. entry \in [Word -> Entry] /\ normalList \in Seq(Word)
  BY DEF Init, Entry
<1>3. Locked = {} /\ LockedCount = 0
  BY <1>1, FS_EmptySet DEF Locked, LockedCount
<1>4. Range(normalList) = {} /\ Len(normalList) = 0
  BY DEF Init, Range
<1>5. ListMatchesIndex
  BY <1>1, <1>4 DEF Init, ListMatchesIndex
<1>6. LockedBound /\ SizeBound
  BY <1>3, <1>4, CacheAssumption DEF LockedBound, SizeBound
<1>7. TypeOK
  BY <1>2, CacheAssumption DEF Init, TypeOK
<1>8. Coherent /\ CommittedUntilFlushed
  BY <1>1, <1>3 DEF Init, Coherent, CommittedUntilFlushed
<1>9. Pruned
  BY DEF Init, Pruned
<1> QED
  BY <1>2, <1>5, <1>6, <1>7, <1>8, <1>9 DEF CacheInv, Lru

LEMMA CacheNext == CacheInv /\ [Next]_vars => CacheInv'
<1> SUFFICES ASSUME CacheInv, [Next]_vars PROVE CacheInv'
  OBVIOUS
<1>i. TypeOK /\ Lru /\ Coherent /\ CommittedUntilFlushed /\ Pruned
  BY DEF CacheInv
<1>d. pc # "flush" => disk = image
  BY <1>i DEF CommittedUntilFlushed, TypeOK
<1>n. ChunkSize \in Nat /\ ChunkSize > 0 /\ 0 \in 0..(ChunkSize - 1)
  BY CacheAssumption
\* The invariant of a state outside a flush.
<1>q. ASSUME Lru', Coherent', Pruned', disk' = image', pc' = "idle",
             image' \in [Word -> Record \cup {None}],
             numWrites' = numWrites, after' = after,
             last' \in Call \cup {NoCall}
      PROVE  CacheInv'
  <2>1. TypeOK'
    BY <1>i, <1>q DEF TypeOK, Lru
  <2>2. CommittedUntilFlushed'
    BY <1>q DEF CommittedUntilFlushed
  <2> QED
    BY <1>q, <2>1, <2>2 DEF CacheInv
\* The cache and the store stay as they are, and a flush begins.
<1>b. ASSUME NEW next \in {Return, Clear, Purge} \cup ResumeWrite,
             pc \in {"idle", "flush"}, BeginFlush(next)
      PROVE  CacheInv'
  <2>1. TypeOK'
    BY <1>i, <1>b, <1>n DEF TypeOK, BeginFlush
  <2>2. Lru' /\ Coherent'
    BY <1>i, <1>b DEF BeginFlush, Lru, ListMatchesIndex, LockedBound, SizeBound,
                      LockedCount, Locked, Coherent, Cached
  <2>3. CommittedUntilFlushed' /\ Pruned'
    BY <1>i, <1>b DEF CommittedUntilFlushed, BeginFlush, Pruned
  <2> QED
    BY <2>1, <2>2, <2>3 DEF CacheInv
\* The cache is emptied, which loses nothing that is not on disk.
<1>e. ASSUME entry' = [w \in Word |-> NoEntry], normalList' = <<>>
      PROVE  Lru' /\ Coherent'
  <2>1. \A w \in Word : ~Cached(w)'
    BY <1>e DEF Cached
  <2> QED
    BY <1>e, <2>1, ClearedLru DEF Coherent
<1>1. ASSUME NEW w \in Word, ReadHit(w) PROVE CacheInv'
  <2>1. Lru'
    BY <1>1, <1>i, TouchedLru DEF ReadHit
  <2>2. Coherent'
    BY <1>1, <1>i DEF ReadHit, Coherent, Cached
  <2>3. last' \in Call
    <3>1. entry[w].rec \in Record
      BY <1>1, <1>i, EntryFacts DEF ReadHit, Lru
    <3> QED
      BY <1>1, <3>1 DEF ReadHit, Answer, Call, Record
  <2> QED
    BY <1>1, <1>d, <1>i, <1>q, <2>1, <2>2, <2>3 DEF ReadHit, TypeOK, Pruned
<1>2. ASSUME NEW w \in Word, ReadMiss(w) PROVE CacheInv'
  <2>1. last' \in Call
    BY <1>2, <1>i, LookupType, CountType DEF ReadMiss, Answer, Call
  <2>2. Lru' /\ Coherent'
    <3>1. CASE Lookup(w) # None /\ w \in Cacheable
      <4> DEFINE e == [rec |-> Lookup(w), shared |-> image[w] = None,
                       locked |-> FALSE]
      <4>1. /\ e \in Entry /\ e # NoEntry
            /\ e.rec = Lookup(w) /\ ~e.locked /\ (e.shared <=> image[w] = None)
        <5>1. e.rec = Lookup(w) /\ NoEntry.rec = None
          BY DEF NoEntry
        <5>2. Lookup(w) \in Record
          BY <1>i, <3>1, LookupType
        <5> QED
          BY <3>1, <5>1, <5>2 DEF Entry
      <4>2. AddNewNode(w, e) /\ ~Cached(w) /\ image' = image
        BY <1>2, <3>1 DEF ReadMiss
      <4> HIDE DEF e
      <4>3. /\ Lru'
            /\ entry'[w] = e
            /\ \A v \in Word : v # w =>
                 entry'[v] = entry[v] \/ (~entry[v].locked /\ entry'[v] = NoEntry)
        BY <1>i, <4>1, <4>2, AddNewNodeLru
      <4>4. image[w] # None => image[w] = Stored(w, e.rec)
        BY <1>i, <4>1 DEF Lookup, Pruned
      <4>5. Coherent'
        BY <1>i, <3>1, <4>1, <4>2, <4>3, <4>4 DEF Coherent, Cached, Lookup
      <4> QED
        BY <4>3, <4>5
    <3>2. CASE ~(Lookup(w) # None /\ w \in Cacheable)
      BY <1>2, <1>i, <3>2 DEF ReadMiss, Lru, ListMatchesIndex, LockedBound,
           SizeBound, LockedCount, Locked, Coherent, Cached
    <3> QED
      BY <3>1, <3>2
  <2> QED
    BY <1>2, <1>d, <1>i, <1>q, <2>1, <2>2 DEF ReadMiss, TypeOK, Pruned
<1>3. ASSUME NEW w \in Word, NEW r \in Record, WriteWord(w, r) PROVE CacheInv'
  BY <1>3, <1>d, <1>i, <1>q, PutInv DEF WriteWord
<1>4. ASSUME NEW w \in Word, NEW r \in Record, StartWrite(w, r) PROVE CacheInv'
  BY <1>4, <1>b DEF StartWrite, ResumeWrite
<1>5. CASE StartFlush
  BY <1>5, <1>b DEF StartFlush
<1>6. ASSUME NEW w \in Word, FlushRecord(w) PROVE CacheInv'
  <2>1. /\ Lru'
        /\ entry'[w] = [entry[w] EXCEPT !.locked = FALSE]
        /\ entry[w] \in [rec : Record, shared : BOOLEAN, locked : BOOLEAN]
    BY <1>6, <1>i, UnlockLru DEF FlushRecord
  <2>2. Cached(w) /\ ~entry[w].shared /\ w \in Cacheable
    BY <1>6, <1>i, EntryFacts DEF FlushRecord, Coherent, Lru
  <2>3. /\ image' = [image EXCEPT ![w] = Stored(w, entry[w].rec)]
        /\ \A v \in Word : v # w => entry'[v] = entry[v]
    BY <1>6, <1>i DEF FlushRecord, Lru
  <2>4. Stored(w, entry[w].rec) \in Record \cup {None}
    BY <2>1, StoredType
  <2>5. /\ image' \in [Word -> Record \cup {None}]
        /\ image'[w] = Stored(w, entry[w].rec)
        /\ \A v \in Word : v # w => image'[v] = image[v]
    BY <1>i, <2>3, <2>4 DEF TypeOK
  <2>6. /\ entry'[w].rec = entry[w].rec
        /\ ~entry'[w].shared
        /\ ~entry'[w].locked
    BY <2>1, <2>2
  <2>7. Coherent'
    BY <1>i, <2>2, <2>3, <2>5, <2>6 DEF Coherent, Cached
  <2>8. disk' = disk \/ disk' = image'
    BY <1>6 DEF FlushRecord
  <2>9. TypeOK'
    BY <1>6, <1>i, <1>n, <2>1, <2>5, <2>8 DEF FlushRecord, TypeOK, Lru
  <2>10. CommittedUntilFlushed'
    BY <1>6, <1>i, <2>3, <2>5, <2>6, <2>8 DEF FlushRecord, CommittedUntilFlushed
  <2>11. Pruned'
    <3>1. image'[w] # None => image'[w] = Stored(w, image'[w])
      BY <2>1, <2>5, StoredTwice
    <3> QED
      BY <1>i, <2>5, <2>8, <3>1 DEF Pruned
  <2> QED
    BY <2>1, <2>7, <2>9, <2>10, <2>11 DEF CacheInv
<1>7. CASE FlushEnd
  <2>1. Lru' /\ Coherent' /\ Locked' = {}
    BY <1>7, <1>i DEF FlushEnd, Lru, ListMatchesIndex, LockedBound, SizeBound,
                      LockedCount, Locked, Coherent, Cached
  <2>2. TypeOK' /\ CommittedUntilFlushed' /\ Pruned'
    BY <1>7, <1>i, <2>1 DEF FlushEnd, TypeOK, CommittedUntilFlushed, Pruned
  <2> QED
    BY <2>1, <2>2 DEF CacheInv
<1>8. CASE FlushFails
  BY <1>8, <1>b DEF FlushFails
<1>9. CASE AfterWrite
  <2>1. PICK w \in Word, r \in Record : after = [op |-> "write", word |-> w, rec |-> r]
    BY <1>9 DEF AfterWrite, ResumeWrite
  <2>2. Put(w, r)
    BY <1>9, <2>1 DEF AfterWrite
  <2>3. LockedCount < MaxSize
    BY <1>9, <1>i, FS_EmptySet, CacheAssumption
       DEF AfterWrite, CommittedUntilFlushed, LockedCount
  <2> QED
    BY <1>9, <1>d, <1>i, <1>q, <2>2, <2>3, PutInv DEF AfterWrite
<1>10. CASE AfterClear
  BY <1>10, <1>d, <1>e, <1>i, <1>q DEF AfterClear, TypeOK, Pruned
<1>11. CASE AfterPurge
  <2>1. image' \in [Word -> Record \cup {None}]
    BY <1>11, <1>i DEF AfterPurge, TypeOK
  <2>2. Pruned'
    BY <1>11, <1>i DEF AfterPurge, Pruned
  <2> QED
    BY <1>11, <1>e, <1>q, <2>1, <2>2 DEF AfterPurge
<1>12. CASE Crash
  BY <1>12, <1>e, <1>i, <1>q DEF Crash, TypeOK, Pruned
<1>13. CASE UNCHANGED vars
  BY <1>13, <1>i DEF vars, CacheInv, TypeOK, Lru, ListMatchesIndex, LockedBound,
       SizeBound, LockedCount, Locked, Coherent, Cached, CommittedUntilFlushed,
       Pruned
<1> QED
  BY <1>1, <1>2, <1>3, <1>4, <1>5, <1>6, <1>7, <1>8, <1>9, <1>10, <1>11,
     <1>12, <1>13 DEF Next

-----------------------------------------------------------------------------
(* Safety *)

LEMMA CacheAlways == Spec => []CacheInv
  BY CacheInit, CacheNext, PTL DEF Spec

\* The types of the cache, the store and the progress of a flush.
THEOREM TypeCorrect == Spec => []TypeOK
<1>1. CacheInv => TypeOK
  BY DEF CacheInv
<1> QED
  BY <1>1, CacheAlways, PTL

\* The index and the normal list of LRUCache never disagree, whatever mixture of
\* hits, misses, locks, unlocks and evictions came before.
THEOREM ListAlwaysMatches == Spec => []ListMatchesIndex
<1>1. CacheInv => ListMatchesIndex
  BY DEF CacheInv, Lru
<1> QED
  BY <1>1, CacheAlways, PTL

\* The cache holds at most one entry more than it was configured for, and at most
\* MaxSize unwritten records.
THEOREM CacheAlwaysBounded == Spec => [](LockedBound /\ SizeBound)
<1>1. CacheInv => LockedBound /\ SizeBound
  BY DEF CacheInv, Lru
<1> QED
  BY <1>1, CacheAlways, PTL

\* Evicting a normal node never loses a count.
THEOREM AlwaysCoherent == Spec => []Coherent
<1>1. CacheInv => Coherent
  BY DEF CacheInv
<1> QED
  BY <1>1, CacheAlways, PTL

\* A crash or a commit in a flush never mixes two writes of one record.
THEOREM AlwaysCommittedUntilFlushed == Spec => []CommittedUntilFlushed
<1>1. CacheInv => CommittedUntilFlushed
  BY DEF CacheInv
<1> QED
  BY <1>1, CacheAlways, PTL

-----------------------------------------------------------------------------
(* The cache is invisible *)

LEMMA StoredSame == \A w, r : Store!Stored(w, r) = Stored(w, r)
  BY DEF Store!Stored, Stored

\* A word's own record only depends on its entry and its record in the store.
LEMMA OwnSame ==
  ASSUME NEW w \in Word, entry'[w] = entry[w], image'[w] = image[w]
  PROVE  Own(w)' = Own(w)
  BY DEF Own

\* Only words whose records are on disk now, or were already, may be persisted.
LEMMA Persisted ==
  ASSUME TypeOK', \A w \in Word : disk'[w] = disk[w] \/ disk'[w] = Own(w)'
  PROVE  Store!Persist
<1> DEFINE W == {w \in Word : disk'[w] = Own(w)'}
<1>1. \A w \in Word : disk'[w] = IF w \in W THEN Own(w)' ELSE disk[w]
  OBVIOUS
<1>2. disk' = [w \in Word |-> IF w \in W THEN Own(w)' ELSE disk[w]]
  BY <1>1 DEF TypeOK
<1>3. \A w \in W : [v \in Word |-> Own(v)'][w] = Own(w)'
  OBVIOUS
<1> QED
  BY <1>2, <1>3 DEF Store!Persist

\* What a hit answers is what the store would answer without a cache.
LEMMA HitCount ==
  ASSUME CacheInv, NEW w \in Word, Cached(w)
  PROVE  entry[w].rec.n = Store!CountOf(Store!Lookup(w))
<1>1. /\ entry[w].rec \in Record
      /\ entry[w].locked \in BOOLEAN
      /\ entry[w].shared \in BOOLEAN
  BY EntryFacts DEF CacheInv, Lru
<1>2. CASE entry[w].shared
  <2>1. Own(w) = None /\ Shared[w] = entry[w].rec
    BY <1>2 DEF Own, CacheInv, Coherent
  <2> QED
    BY <1>1, <2>1, CacheAssumption DEF Store!CountOf, Store!Lookup
<1>3. CASE ~entry[w].shared
  <2>1. Own(w) = Stored(w, entry[w].rec)
    BY <1>1, <1>3 DEF Own, CacheInv, Coherent
  <2>2. CASE w \in Drops /\ entry[w].rec.n = 0
    <3>1. Own(w) = None /\ Shared[w] = None
      BY <2>1, <2>2, NothingUncovered DEF Stored
    <3> QED
      BY <2>2, <3>1 DEF Store!CountOf, Store!Lookup
  <2>3. CASE ~(w \in Drops /\ entry[w].rec.n = 0)
    <3>1. Own(w) = entry[w].rec /\ Own(w) # None
      BY <1>1, <2>1, <2>3, CacheAssumption DEF Stored
    <3> QED
      BY <3>1 DEF Store!CountOf, Store!Lookup
  <2> QED
    BY <2>2, <2>3
<1> QED
  BY <1>1, <1>2, <1>3

\* The four outcomes of writeWord are one write, or the touch of a shared record.
LEMMA PutStores ==
  ASSUME CacheInv, CacheInv', pc # "flush", NEW w \in Word, NEW r \in Record,
         Put(w, r)
  PROVE  Store!Write(w, r) \/ Store!TouchShared(w)
<1>i. TypeOK /\ Lru /\ Coherent /\ TypeOK'
  BY DEF CacheInv
<1>l. last' = [op |-> "write", word |-> w, n |-> r.n]
  BY DEF Put, Answer
\* It is enough to see what happens to the record itself.
<1>w. ASSUME Own(w)' = Stored(w, r),
             \A v \in Word : v # w => Own(v)' = Own(v),
             \A v \in Word : disk'[v] = disk[v] \/ disk'[v] = Own(v)'
      PROVE  Store!Write(w, r)
  <2>1. Store!Persist
    BY <1>i, <1>w, Persisted
  <2>2. [v \in Word |-> Own(v)']
          = [[v \in Word |-> Own(v)] EXCEPT ![w] = Stored(w, r)]
    BY <1>w
  <2> QED
    BY <1>l, <2>1, <2>2, StoredSame DEF Store!Write, Store!Answer
<1>1. CASE PutUncacheable(w, r)
  <2>1. /\ image'[w] = Stored(w, r) /\ disk'[w] = Stored(w, r)
        /\ \A v \in Word : v # w => image'[v] = image[v] /\ disk'[v] = disk[v]
        /\ entry' = entry
    BY <1>1, <1>i DEF PutUncacheable, TypeOK
  <2>2. ~entry[w].locked
    BY <1>1, <1>i, EntryFacts DEF PutUncacheable, Coherent, Lru
  <2>3. Own(w)' = Stored(w, r)
    BY <2>1, <2>2 DEF Own
  <2>4. \A v \in Word : v # w => Own(v)' = Own(v)
    BY <2>1, OwnSame
  <2> QED
    BY <1>w, <2>1, <2>3, <2>4
<1>2. CASE PutNew(w, r)
  <2> DEFINE e == [rec |-> r, shared |-> FALSE, locked |-> TRUE]
  <2>1. /\ entry'[w] = e
        /\ image' = image /\ disk' = disk
        /\ \A v \in Word : v # w =>
             entry'[v] = entry[v] \/ (~entry[v].locked /\ entry'[v] = NoEntry)
    <3>1. e \in Entry /\ e # NoEntry /\ e.locked
      <4>1. e.rec = r /\ NoEntry.rec = None
        BY DEF NoEntry
      <4> QED
        BY <4>1, CacheAssumption DEF Entry
    <3>2. LockedCount < MaxSize \/ LockedCount = MaxSize
      BY <1>i, SizeFacts DEF Lru, LockedBound
    <3>3. AddNewNode(w, e) /\ ~Cached(w) /\ image' = image /\ disk' = disk
      BY <1>2 DEF PutNew
    <3> HIDE DEF e
    <3>4. entry'[w] = e
      BY <3>3 DEF AddNewNode
    <3>5. \A v \in Range(Kept) : v \in Range(normalList)
      BY <1>i, KeptMembers, SizeFacts DEF Lru
    <3>6. \A v \in Word : v # w =>
            entry'[v] = IF v \in Locked \cup Range(Kept)
                        THEN entry[v] ELSE NoEntry
      BY <3>3 DEF AddNewNode
    <3> QED
      BY <3>3, <3>4, <3>6 DEF Locked
  <2>2. Own(w)' = Stored(w, r)
    BY <2>1 DEF Own
  <2>3. ASSUME NEW v \in Word, v # w PROVE Own(v)' = Own(v)
    BY <2>1, <2>3 DEF Own, NoEntry
  <2> QED
    BY <1>w, <2>1, <2>2, <2>3
<1>3. CASE PutNothing(w, r)
  <2>1. Cached(w) /\ entry' = entry /\ image' = image /\ disk' = disk
    BY <1>3 DEF PutNothing
  <2>2. \A v \in Word : Own(v)' = Own(v)
    BY <2>1, OwnSame
  <2>3. CASE entry[w].shared
    <3>1. /\ Own(w) = None
          /\ Shared[w] = entry[w].rec
          /\ entry[w].rec \in Record
      BY <1>i, <2>1, <2>3, EntryFacts DEF Own, Coherent, Lru
    <3>2. r.n = Store!CountOf(Shared[w]) /\ Shared[w] # None
      BY <1>3, <3>1, CacheAssumption DEF PutNothing, Store!CountOf
    <3>3. Store!Persist
      BY <1>i, <2>1, Persisted
    <3> QED
      BY <1>l, <2>2, <3>1, <3>2, <3>3 DEF Store!TouchShared, Store!Answer
  <2>4. CASE ~entry[w].shared
    <3>1. entry[w].rec = r
      BY <1>3, <2>4 DEF PutNothing
    <3>2. entry[w].locked \in BOOLEAN
      BY <1>i, EntryFacts DEF Lru
    <3>3. Own(w) = Stored(w, r)
      BY <1>i, <2>1, <2>4, <3>1, <3>2 DEF Own, Coherent
    <3> QED
      BY <1>w, <2>1, <2>2, <3>3
  <2> QED
    BY <2>3, <2>4
<1>4. CASE PutUpdate(w, r)
  <2>1. /\ entry'[w] = [rec |-> r, shared |-> FALSE, locked |-> TRUE]
        /\ \A v \in Word : v # w => entry'[v] = entry[v]
        /\ image' = image /\ disk' = disk
    BY <1>4, <1>i DEF PutUpdate, Lru
  <2>2. Own(w)' = Stored(w, r)
    BY <2>1 DEF Own
  <2>3. \A v \in Word : v # w => Own(v)' = Own(v)
    BY <2>1, OwnSame
  <2> QED
    BY <1>w, <2>1, <2>2, <2>3
<1> QED
  BY <1>1, <1>2, <1>3, <1>4 DEF Put

LEMMA StoreInit == Init => Store!Init
<1> SUFFICES ASSUME Init PROVE Store!Init
  OBVIOUS
<1>1. \A w \in Word : Own(w) = None
  BY DEF Init, Own, NoEntry
<1> QED
  BY <1>1 DEF Init, Store!Init, NoCall, Store!NoCall

LEMMA StoreNext ==
  ASSUME CacheInv, CacheInv', [Next]_vars
  PROVE  [Store!Next]_(Store!storeVars)
<1>i. TypeOK /\ Lru /\ Coherent /\ CommittedUntilFlushed /\ TypeOK'
  BY DEF CacheInv
<1>p. /\ \A w \in Word, r \in Record :
           Store!Write(w, r) \/ Store!TouchShared(w) => Store!Next
      /\ \A w \in Word : Store!Read(w) => Store!Next
      /\ Store!Flush \/ Store!Reopen => Store!Next
      /\ \A W \in SUBSET Word : Store!Sweep(W) => Store!Next
  <2>1. \A r \in Record : r \in Store!Record
    BY DEF Record, Store!Record
  <2> QED
    BY <2>1 DEF Store!Next
<1>s. ASSUME entry' = entry, image' = image, disk' = disk, last' = last
      PROVE  UNCHANGED Store!storeVars
  BY <1>s DEF Store!storeVars, Own
<1>1. ASSUME NEW w \in Word, ReadHit(w) PROVE Store!Next
  <2>1. last' = [op |-> "read", word |-> w,
                 n |-> Store!CountOf(Store!Lookup(w))]
    BY <1>1, HitCount DEF ReadHit, Answer
  <2>2. \A v \in Word : Own(v)' = Own(v)
    BY <1>1, OwnSame DEF ReadHit
  <2>3. Store!Read(w)
    BY <1>1, <2>1, <2>2 DEF ReadHit, Store!Read, Store!Answer
  <2> QED
    BY <1>p, <2>3
<1>2. ASSUME NEW w \in Word, ReadMiss(w) PROVE Store!Next
  <2>1. ~entry[w].locked
    BY <1>2, <1>i, EntryFacts DEF ReadMiss, Lru
  <2>2. CountOf(Lookup(w)) = Store!CountOf(Store!Lookup(w))
    BY <2>1 DEF CountOf, Lookup, Store!CountOf, Store!Lookup, Own
  <2>3. \A v \in Word : Own(v)' = Own(v)
    <3>1. CASE Lookup(w) # None /\ w \in Cacheable
      <4> DEFINE e == [rec |-> Lookup(w), shared |-> image[w] = None,
                       locked |-> FALSE]
      <4>1. AddNewNode(w, e) /\ image' = image
        BY <1>2, <3>1 DEF ReadMiss
      <4>2. entry'[w] = e /\ ~e.locked
        BY <4>1 DEF AddNewNode
      <4>3. \A v \in Word : v # w =>
              entry'[v] = IF v \in Locked \cup Range(Kept)
                          THEN entry[v] ELSE NoEntry
        BY <4>1 DEF AddNewNode
      <4> HIDE DEF e
      <4>4. Own(w)' = Own(w)
        BY <2>1, <4>1, <4>2 DEF Own
      <4>5. ASSUME NEW v \in Word, v # w PROVE Own(v)' = Own(v)
        BY <4>1, <4>3, <4>5 DEF Own, Locked, NoEntry
      <4> QED
        BY <4>4, <4>5
    <3>2. CASE ~(Lookup(w) # None /\ w \in Cacheable)
      BY <1>2, <3>2, OwnSame DEF ReadMiss
    <3> QED
      BY <3>1, <3>2
  <2>4. Store!Read(w)
    BY <1>2, <2>2, <2>3 DEF ReadMiss, Answer, Store!Read, Store!Answer
  <2> QED
    BY <1>p, <2>4
<1>3. ASSUME NEW w \in Word, NEW r \in Record, WriteWord(w, r) PROVE Store!Next
  BY <1>3, <1>p, PutStores DEF WriteWord
<1>4. ASSUME NEW next, BeginFlush(next) PROVE UNCHANGED Store!storeVars
  BY <1>4, <1>s DEF BeginFlush
<1>5. ASSUME NEW w \in Word, FlushRecord(w) PROVE Store!Next
  <2>1. /\ entry'[w] = [entry[w] EXCEPT !.locked = FALSE]
        /\ entry[w] \in [rec : Record, shared : BOOLEAN, locked : BOOLEAN]
    BY <1>5, <1>i, UnlockLru DEF FlushRecord
  <2>2. /\ image'[w] = Stored(w, entry[w].rec)
        /\ \A v \in Word : v # w => image'[v] = image[v] /\ entry'[v] = entry[v]
    BY <1>5, <1>i DEF FlushRecord, TypeOK, Lru
  <2>3. Own(w)' = Own(w) /\ Own(w)' = image'[w]
    BY <1>5, <2>1, <2>2 DEF Own, FlushRecord
  <2>4. \A v \in Word : Own(v)' = Own(v)
    BY <2>2, <2>3, OwnSame
  <2>5. ASSUME NEW v \in Word PROVE disk'[v] = disk[v] \/ disk'[v] = Own(v)'
    <3>1. disk' = disk \/ disk' = image'
      BY <1>5 DEF FlushRecord
    <3>2. v # w /\ entry[v].locked => image'[v] = disk[v]
      BY <1>i, <2>2 DEF CommittedUntilFlushed
    <3>3. v # w /\ ~entry[v].locked => image'[v] = Own(v)'
      BY <2>2 DEF Own
    <3> QED
      BY <2>3, <3>1, <3>2, <3>3
  <2>6. Store!Persist
    BY <1>i, <2>5, Persisted
  <2>7. Store!Flush
    BY <1>5, <2>4, <2>6 DEF FlushRecord, Store!Flush
  <2> QED
    BY <1>p, <2>7
<1>6. CASE FlushEnd
  <2>1. \A v \in Word : Own(v)' = Own(v) /\ disk'[v] = Own(v)'
    BY <1>6 DEF FlushEnd, Own, Locked
  <2>2. Store!Flush
    BY <1>6, <1>i, <2>1, Persisted DEF FlushEnd, Store!Flush
  <2> QED
    BY <1>p, <2>2
<1>7. CASE AfterWrite
  <2>1. PICK w \in Word, r \in Record : after = [op |-> "write", word |-> w, rec |-> r]
    BY <1>7 DEF AfterWrite, ResumeWrite
  <2>2. Put(w, r) /\ pc # "flush"
    BY <1>7, <2>1 DEF AfterWrite
  <2> QED
    BY <1>p, <2>2, PutStores
\* An emptied cache leaves what the store has.
<1>e. ASSUME entry' = [w \in Word |-> NoEntry]
      PROVE  \A w \in Word : Own(w)' = image'[w]
  BY <1>e DEF Own, NoEntry
<1>c. ASSUME entry' = [w \in Word |-> NoEntry], disk' = disk, image' = disk,
             last' = NoCall
      PROVE  Store!Reopen
  <2>1. [w \in Word |-> Own(w)'] = disk
    BY <1>c, <1>e, <1>i DEF TypeOK
  <2> QED
    BY <1>c, <2>1 DEF Store!Reopen, NoCall, Store!NoCall
<1>8. CASE AfterClear
  <2>1. disk = image
    BY <1>8, <1>i DEF AfterClear, CommittedUntilFlushed, TypeOK
  <2> QED
    BY <1>8, <1>c, <1>p, <2>1 DEF AfterClear
<1>9. CASE AfterPurge
  <2>1. PICK W \in SUBSET Word :
          image' = [w \in Word |-> IF w \in W THEN None ELSE image[w]]
    BY <1>9 DEF AfterPurge
  <2>2. \A w \in Word : Own(w) = image[w]
    BY <1>9, <1>i DEF AfterPurge, CommittedUntilFlushed, Own, Locked
  <2>3. [w \in Word |-> Own(w)']
          = [w \in Word |-> IF w \in W THEN None ELSE Own(w)]
    BY <1>9, <1>e, <2>1, <2>2 DEF AfterPurge
  <2>4. Store!Persist
    BY <1>9, <1>e, <1>i, Persisted DEF AfterPurge
  <2>5. Store!Sweep(W)
    BY <1>9, <2>3, <2>4 DEF AfterPurge, Store!Sweep, NoCall, Store!NoCall
  <2> QED
    BY <1>p, <2>5
<1>10. CASE Crash
  BY <1>10, <1>c, <1>p DEF Crash
<1>11. CASE UNCHANGED vars
  BY <1>11, <1>s DEF vars
<1> QED
  BY <1>1, <1>2, <1>3, <1>4, <1>5, <1>6, <1>7, <1>8, <1>9, <1>10, <1>11
     DEF Next, StartWrite, StartFlush, FlushFails

\* For every cache size, chunk size and shared database, the cache implements the
\* plain store: no read is ever stale, no acknowledged write is lost by an
\* eviction, and a crash leaves whole records that were written.
THEOREM StoreImplemented == Spec => ImplementsStore
<1>1. CacheInv /\ CacheInv' /\ [Next]_vars => [Store!Next]_(Store!storeVars)
  BY StoreNext
<1> QED
  BY <1>1, StoreInit, CacheAlways, PTL DEF Spec, ImplementsStore, Store!Spec

-----------------------------------------------------------------------------
(* Touching *)

\* The last word read is in the cache, until the next call: a flush that writeWord
\* does first evicts nothing.
ReadIsCached ==
  \A w \in Cacheable :
    /\ last = [op |-> "read", word |-> w, n |-> CountOf(Shared[w])]
    /\ image[w] = None
    /\ Shared[w] # None
    => Cached(w)

LEMMA ReadIsCachedNext ==
  ASSUME CacheInv, CacheInv', ReadIsCached, [Next]_vars
  PROVE  ReadIsCached'
<1>i. TypeOK /\ Lru /\ Coherent /\ TypeOK'
  BY DEF CacheInv
<1>0. ASSUME \A w \in Cacheable :
               last' # [op |-> "read", word |-> w, n |-> CountOf(Shared[w])]
      PROVE  ReadIsCached'
  BY <1>0 DEF ReadIsCached, CountOf
<1>1. ASSUME NEW w \in Word, ReadHit(w) PROVE ReadIsCached'
  <2>1. \A v \in Word : v # w =>
          last' # [op |-> "read", word |-> v, n |-> CountOf(Shared[v])]
    BY <1>1 DEF ReadHit, Answer
  <2>2. Cached(w)'
    BY <1>1 DEF ReadHit, Cached
  <2> QED
    BY <2>1, <2>2, CacheAssumption DEF ReadIsCached, CountOf
<1>2. ASSUME NEW w \in Word, ReadMiss(w) PROVE ReadIsCached'
  <2>1. \A v \in Word : v # w =>
          last' # [op |-> "read", word |-> v, n |-> CountOf(Shared[v])]
    BY <1>2 DEF ReadMiss, Answer
  <2>2. ASSUME w \in Cacheable, image'[w] = None, Shared[w] # None
        PROVE  Cached(w)'
    <3>1. Lookup(w) # None
      BY <1>2, <2>2 DEF ReadMiss, Lookup
    <3>2. entry'[w].rec = Lookup(w)
      BY <1>2, <2>2, <3>1 DEF ReadMiss, AddNewNode
    <3> QED
      BY <3>1, <3>2 DEF Cached, NoEntry
  <2> QED
    BY <2>1, <2>2, CacheAssumption DEF ReadIsCached, CountOf
<1>3. ASSUME NEW w \in Word, NEW r \in Record, Put(w, r) PROVE ReadIsCached'
  BY <1>0, <1>3 DEF Put, Answer
<1>4. ASSUME NEW next, BeginFlush(next) PROVE ReadIsCached'
  BY <1>4 DEF BeginFlush, ReadIsCached, Cached, CountOf
<1>5. ASSUME NEW w \in Word, FlushRecord(w) PROVE ReadIsCached'
  <2>1. /\ Cached(w)'
        /\ \A v \in Word : v # w => image'[v] = image[v] /\ entry'[v] = entry[v]
    <3>1. entry'[w] = [entry[w] EXCEPT !.locked = FALSE]
          /\ entry[w] \in [rec : Record, shared : BOOLEAN, locked : BOOLEAN]
      BY <1>5, <1>i, UnlockLru DEF FlushRecord
    <3>2. entry'[w].rec \in Record /\ NoEntry.rec = None
      BY <3>1 DEF NoEntry
    <3>3. Cached(w)'
      BY <3>2, CacheAssumption DEF Cached
    <3> QED
      BY <1>5, <1>i, <3>3 DEF FlushRecord, TypeOK, Lru
  <2> QED
    BY <1>5, <2>1, CacheAssumption DEF FlushRecord, ReadIsCached, Cached, CountOf
<1>6. CASE FlushEnd
  BY <1>6 DEF FlushEnd, ReadIsCached, Cached, CountOf
<1>7. CASE AfterWrite
  <2>1. PICK w \in Word, r \in Record : after = [op |-> "write", word |-> w, rec |-> r]
    BY <1>7 DEF AfterWrite, ResumeWrite
  <2> QED
    BY <1>3, <1>7, <2>1 DEF AfterWrite
<1>8. ASSUME last' = NoCall PROVE ReadIsCached'
  BY <1>0, <1>8 DEF NoCall
<1>9. CASE UNCHANGED vars
  BY <1>9 DEF vars, ReadIsCached, Cached, CountOf
<1> QED
  BY <1>1, <1>2, <1>3, <1>4, <1>5, <1>6, <1>7, <1>8, <1>9
     DEF Next, WriteWord, StartWrite, StartFlush, FlushFails, AfterClear,
         AfterPurge, Crash

\* Reading a shared record and writing it back with a new date leaves it in the
\* shared database, even if the write has to flush the cache first.
THEOREM TouchAlwaysStaysShared == Spec => TouchStaysShared
<1>1. Init => ReadIsCached
  BY DEF Init, ReadIsCached, NoCall
<1>2. CacheInv /\ CacheInv' /\ ReadIsCached /\ [Next]_vars => ReadIsCached'
  BY ReadIsCachedNext
<1>3. ASSUME CacheInv, ReadIsCached, [Next]_vars, NEW w \in Cacheable,
             last = [op |-> "read", word |-> w, n |-> CountOf(Shared[w])],
             last' = [last EXCEPT !.op = "write"],
             Own(w) = None, Shared[w] # None
      PROVE  Own(w)' = None
  <2>i. TypeOK /\ Lru /\ Coherent /\ w \in Word
    BY <1>3, CacheAssumption DEF CacheInv
  <2>l. last' = [op |-> "write", word |-> w, n |-> CountOf(Shared[w])]
    BY <1>3
  <2>s. w \notin Drops
    BY <1>3, <2>i, NothingUncovered
  <2>u. ~entry[w].locked
    <3>1. ASSUME entry[w].locked PROVE FALSE
      <4>1. entry[w].rec \in Record
        BY <2>i, <3>1, EntryFacts DEF Lru
      <4> QED
        BY <1>3, <2>s, <3>1, <4>1, CacheAssumption DEF Own, Stored
    <3> QED
      BY <3>1
  <2>c. Cached(w) /\ image[w] = None
    BY <1>3, <2>u DEF Own, ReadIsCached
  <2>e. entry[w].shared /\ entry[w].rec = Shared[w] /\ entry[w].rec \in Record
    <3>1. entry[w].rec \in Record /\ entry[w].shared \in BOOLEAN
      BY <2>c, <2>i, EntryFacts DEF Lru
    <3>2. Stored(w, entry[w].rec) # None
      BY <2>s, <3>1, CacheAssumption DEF Stored
    <3> QED
      BY <2>c, <2>i, <2>u, <3>1, <3>2 DEF Coherent
  <2>1. ASSUME NEW v \in Word, NEW r \in Record, Put(v, r) PROVE Own(w)' = None
    <3>1. v = w /\ r.n = CountOf(Shared[w])
      BY <2>1, <2>l DEF Put, Answer
    <3>2. r.n = entry[w].rec.n
      BY <1>3, <2>e, <3>1 DEF CountOf
    <3>3. PutNothing(w, r)
      BY <2>1, <2>c, <2>e, <3>1, <3>2
         DEF Put, PutUncacheable, PutNew, PutUpdate
    <3> QED
      BY <2>c, <2>u, <3>3 DEF PutNothing, Own
  <2>2. last' # last /\ last' # NoCall
    BY <1>3, <2>l DEF NoCall
  <2>3. ASSUME NEW v \in Word, ReadHit(v) \/ ReadMiss(v) PROVE FALSE
    BY <2>3, <2>l DEF ReadHit, ReadMiss, Answer
  <2>4. CASE AfterWrite
    <3>1. PICK v \in Word, r \in Record :
            after = [op |-> "write", word |-> v, rec |-> r]
      BY <2>4 DEF AfterWrite, ResumeWrite
    <3> QED
      BY <2>1, <2>4, <3>1 DEF AfterWrite
  <2>5. ASSUME NEW v \in Word, NEW r \in Record, WriteWord(v, r)
        PROVE  Own(w)' = None
    BY <2>1, <2>5 DEF WriteWord
  <2> QED
    BY <1>3, <2>2, <2>3, <2>4, <2>5
       DEF Next, StartWrite, StartFlush, BeginFlush, FlushRecord, FlushEnd,
           FlushFails, AfterClear, AfterPurge, Crash, vars
<1>4. CacheInv /\ ReadIsCached /\ [Next]_vars
        => [\A w \in Cacheable :
              /\ last = [op |-> "read", word |-> w, n |-> CountOf(Shared[w])]
              /\ last' = [last EXCEPT !.op = "write"]
              /\ Own(w) = None
              /\ Shared[w] # None
              => Own(w)' = None]_vars
  BY <1>3
<1>5. Spec => []ReadIsCached
  BY <1>1, <1>2, CacheAlways, PTL DEF Spec
<1> QED
  BY <1>4, <1>5, CacheAlways, PTL DEF Spec, TouchStaysShared

=============================================================================
