----------------------------- MODULE TextProofs -----------------------------
(* The parser receives exactly the phrases of the words that pass the       *)
(* filter, the message counts exactly the first different terms it is       *)
(* given, and the reader gives the characters of each text as if its lines  *)
(* were one string: for every text, every message and all limits.           *)
EXTENDS TextReading, FiniteSetTheorems, SequenceTheorems, WellFoundedInduction, TLAPS

----------------------------------------------------------------------------
(* Flattening, one sequence after the other *)

\* A nonempty set of naturals has a smallest element.
LEMMA Smallest == ASSUME NEW T, T \subseteq Nat, T # {}
                  PROVE  \E i \in T : \A j \in T : i <= j
<1>1. PICK x \in T : \A y \in T : ~ (<<y, x>> \in OpToRel(<, Nat))
  BY WFMin, NatLessThanWellFounded, Zenon
<1>2. \A y \in T : ~ (y < x)
  BY <1>1 DEF OpToRel
<1> QED
  BY <1>2

\* The function that FlattenSeq is computed with.
IsFlat(f, ss, n) == f = [i \in 1..n |-> IF i = 1 THEN ss[i] ELSE f[i - 1] \o ss[i]]

LEMMA FlatExists ==
  ASSUME NEW ss, NEW n \in Nat
  PROVE  \E f : IsFlat(f, ss, n)
<1> DEFINE Lacking == {k \in Nat : ~ \E f : IsFlat(f, ss, k)}
<1> SUFFICES ASSUME Lacking # {} PROVE FALSE
  OBVIOUS
<1>1. PICK k \in Lacking : \A j \in Lacking : k <= j
  BY Smallest
<1>2. k \in Nat /\ ~ \E f : IsFlat(f, ss, k)
  OBVIOUS
<1>3. k # 0
  <2>1. IsFlat([i \in 1..0 |-> 0], ss, 0)
    BY DEF IsFlat
  <2> QED
    BY <1>2, <2>1
<1>4. k - 1 \in Nat /\ k - 1 \notin Lacking
  <2>1. k - 1 \in Nat /\ ~(k <= k - 1)
    BY <1>2, <1>3
  <2> HIDE DEF Lacking
  <2> QED
    BY <1>1, <2>1
<1>5. PICK f : IsFlat(f, ss, k - 1)
  BY <1>4
<1> DEFINE g == [i \in 1..k |-> IF i # k THEN f[i]
                                ELSE IF k = 1 THEN ss[k] ELSE f[k - 1] \o ss[k]]
<1>6. ASSUME NEW i \in 1..k
      PROVE  g[i] = IF i = 1 THEN ss[i] ELSE g[i - 1] \o ss[i]
  <2>1. CASE i = k
    BY <1>2, <1>3, <2>1
  <2>2. CASE i # k
    <3>1. i \in 1..(k - 1) /\ (i # 1 => i - 1 \in 1..k /\ i - 1 # k)
      BY <1>2, <2>2
    <3>2. f[i] = IF i = 1 THEN ss[i] ELSE f[i - 1] \o ss[i]
      BY <1>5, <3>1 DEF IsFlat
    <3> QED
      BY <2>2, <3>1, <3>2
  <2> QED
    BY <2>1, <2>2
<1>7. g = [i \in 1..k |-> g[i]]
  OBVIOUS
<1> HIDE DEF g
<1>8. IsFlat(g, ss, k)
  BY <1>6, <1>7 DEF IsFlat
<1> QED
  BY <1>2, <1>8

LEMMA FlatIsFlat ==
  ASSUME NEW n \in Nat, n # 0, NEW ss, ss = [i \in 1..n |-> ss[i]]
  PROVE  \E f : IsFlat(f, ss, n) /\ FlattenSeq(ss) = f[n]
<1>1. Len(ss) = n
  <2>1. ss \in Seq({ss[i] : i \in 1..n})
    OBVIOUS
  <2> QED
    BY <2>1
<1> DEFINE f == CHOOSE f : IsFlat(f, ss, n)
<1>2. IsFlat(f, ss, n)
  <2>1. \E g : IsFlat(g, ss, n)
    BY FlatExists
  <2> QED
    BY <2>1, Zenon
<1>3. FlattenSeq(ss) = f[n]
  BY <1>1 DEF FlattenSeq, IsFlat
<1> HIDE DEF f
<1> QED
  BY <1>2, <1>3

LEMMA FlatNothing == FlattenSeq(<<>>) = <<>>
  BY DEF FlattenSeq

\* The first n sequences of a list, one behind the other.
First(ss, n) == FlattenSeq([i \in 1..n |-> ss[i]])

LEMMA FirstNone == ASSUME NEW ss, NEW n \in Int, n <= 0
                   PROVE  First(ss, n) = <<>>
<1>1. [i \in 1..n |-> ss[i]] = <<>>
  OBVIOUS
<1> QED
  BY <1>1, FlatNothing DEF First

LEMMA FirstNext ==
  ASSUME NEW S, NEW n \in Nat, NEW ss, ss[n + 1] \in Seq(S)
  PROVE  First(ss, n + 1) = First(ss, n) \o ss[n + 1]
<1> DEFINE s == [i \in 1..n |-> ss[i]]
           t == [i \in 1..(n + 1) |-> ss[i]]
<1>1. /\ s = [i \in 1..n |-> s[i]] /\ t = [i \in 1..(n + 1) |-> t[i]]
      /\ \A i \in 1..n : s[i] = ss[i]
      /\ \A i \in 1..(n + 1) : t[i] = ss[i]
      /\ n + 1 \in Nat /\ n + 1 # 0
      /\ n + 1 \in 1..(n + 1)
  OBVIOUS
<1>2. First(ss, n) = FlattenSeq(s) /\ First(ss, n + 1) = FlattenSeq(t)
  BY DEF First
<1> HIDE DEF s, t
<1>3. PICK g : IsFlat(g, t, n + 1) /\ FlattenSeq(t) = g[n + 1]
  BY <1>1, FlatIsFlat, Zenon
<1>4. \A i \in 1..(n + 1) : g[i] = IF i = 1 THEN t[i] ELSE g[i - 1] \o t[i]
  BY <1>3 DEF IsFlat
<1>5. CASE n = 0
  <2>1. g[1] = ss[1]
    BY <1>1, <1>4, <1>5
  <2>2. First(ss, n) = <<>>
    BY <1>5, FirstNone
  <2>3. ss[1] \in Seq(S)
    BY <1>5
  <2>4. <<>> \o ss[1] = ss[1]
    BY <2>3
  <2> QED
    BY <1>2, <1>3, <1>5, <2>1, <2>2, <2>4
<1>6. CASE n # 0
  <2>1. PICK f : IsFlat(f, s, n) /\ FlattenSeq(s) = f[n]
    BY <1>1, <1>6, FlatIsFlat, Zenon
  <2>2. \A i \in 1..n : f[i] = IF i = 1 THEN s[i] ELSE f[i - 1] \o s[i]
    BY <2>1 DEF IsFlat
  <2> DEFINE Wrong == {i \in 1..n : f[i] # g[i]}
  <2>3. ASSUME Wrong # {} PROVE FALSE
    <3>0. Wrong \subseteq Nat
      OBVIOUS
    <3>1. PICK i \in Wrong : \A j \in Wrong : i <= j
      <4> HIDE DEF Wrong
      <4> QED
        BY <2>3, <3>0, Smallest
    <3>2. i \in 1..n /\ i \in 1..(n + 1) /\ f[i] # g[i] /\ s[i] = t[i]
      BY <1>1
    <3>3. CASE i = 1
      BY <1>4, <2>2, <3>2, <3>3
    <3>4. CASE i # 1
      <4>1. i - 1 \in 1..n /\ ~(i <= i - 1)
        BY <3>2, <3>4
      <4>2. f[i - 1] = g[i - 1]
        BY <3>1, <4>1
      <4> QED
        BY <1>4, <2>2, <3>2, <3>4, <4>2
    <3> QED
      BY <3>3, <3>4
  <2>4. f[n] = g[n]
    BY <1>6, <2>3
  <2>5. (n + 1) # 1 /\ (n + 1) - 1 = n
    BY <1>6
  <2>6. g[n + 1] = g[n] \o t[n + 1]
    BY <1>1, <1>4, <2>5
  <2> QED
    BY <1>1, <1>2, <1>3, <2>1, <2>4, <2>6
<1> QED
  BY <1>5, <1>6

\* Lists that agree at the front.
LEMMA FirstSame ==
  ASSUME NEW ss, NEW tt, NEW n, \A i \in 1..n : ss[i] = tt[i]
  PROVE  First(ss, n) = First(tt, n)
<1>1. [i \in 1..n |-> ss[i]] = [i \in 1..n |-> tt[i]]
  OBVIOUS
<1> QED
  BY <1>1, Zenon DEF First

LEMMA FirstType ==
  ASSUME NEW S, NEW ss, NEW n \in Nat, \A i \in 1..n : ss[i] \in Seq(S)
  PROVE  First(ss, n) \in Seq(S)
<1> DEFINE Wrong == {m \in 0..n : First(ss, m) \notin Seq(S)}
<1> SUFFICES ASSUME Wrong # {} PROVE FALSE
  OBVIOUS
<1>1. PICK m \in Wrong : \A j \in Wrong : m <= j
  <2>1. Wrong \subseteq Nat
    OBVIOUS
  <2> HIDE DEF Wrong
  <2> QED
    BY <2>1, Smallest
<1>2. m \in 0..n /\ First(ss, m) \notin Seq(S)
  OBVIOUS
<1>3. m # 0
  <2>1. First(ss, 0) = <<>>
    BY FirstNone
  <2>2. <<>> \in Seq(S)
    OBVIOUS
  <2> QED
    BY <1>2, <2>1, <2>2
<1>4. m - 1 \in 0..n /\ ~(m <= m - 1) /\ m - 1 \in Nat /\ (m - 1) + 1 = m /\ m \in 1..n
  BY <1>2, <1>3
<1>5. First(ss, m - 1) \in Seq(S)
  BY <1>1, <1>4
<1>6. First(ss, m) = First(ss, m - 1) \o ss[m]
  BY <1>4, FirstNext
<1>7. \A a, b \in Seq(S) : a \o b \in Seq(S)
  OBVIOUS
<1> QED
  BY <1>2, <1>4, <1>5, <1>6, <1>7

----------------------------------------------------------------------------
(* Words, and the phrases they make *)

LEMMA KeptNext ==
  ASSUME NEW S, NEW ws \in Seq(Seq(S)), NEW w \in Seq(S)
  PROVE  /\ Kept(<<>>) = <<>>
         /\ Kept(ws) \in Seq(Seq(S))
         /\ Kept(Append(ws, w)) = IF Accepts(w) THEN Append(Kept(ws), w) ELSE Kept(ws)
<1> DEFINE T == Seq(S)
           vs == Append(ws, w)
           ss == [i \in 1..Len(vs) |-> IF Accepts(vs[i]) THEN <<vs[i]>> ELSE <<>>]
           n == Len(ws)
<1> HIDE DEF T
<1>0. ws \in Seq(T) /\ w \in T
  BY DEF T
<1>1. /\ n \in Nat /\ vs \in Seq(T) /\ Len(vs) = n + 1 /\ vs[n + 1] = w
      /\ \A i \in 1..n : vs[i] = ws[i]
      /\ \A i \in 1..n + 1 : vs[i] \in T
  BY <1>0
<1> HIDE DEF vs
<1>2. \A i \in 1..n + 1 : ss[i] = IF Accepts(vs[i]) THEN <<vs[i]>> ELSE <<>>
  BY <1>1
<1>3. \A x \in T : <<x>> \in Seq(T) /\ <<>> \in Seq(T)
  OBVIOUS
<1>4. \A i \in 1..n + 1 : ss[i] \in Seq(T)
  BY <1>1, <1>2, <1>3
<1>5. Kept(vs) = First(ss, n + 1)
  <2>1. ss = [i \in 1..n + 1 |-> ss[i]]
    BY <1>1
  <2> QED
    BY <2>1, Zenon DEF Kept, First
<1>6. Kept(ws) = First(ss, n)
  <2>1. [i \in 1..n |-> ss[i]] = [i \in 1..n |-> IF Accepts(ws[i]) THEN <<ws[i]>> ELSE <<>>]
    BY <1>1, <1>2
  <2> QED
    BY <2>1, Zenon DEF Kept, First
<1> HIDE DEF ss
<1>7. n + 1 \in 1..n + 1 /\ \A i \in 1..n : i \in 1..n + 1
  BY <1>1
<1>8. First(ss, n) \in Seq(T)
  <2>1. \A i \in 1..n : ss[i] \in Seq(T)
    BY <1>4, <1>7
  <2> QED
    BY <1>1, <2>1, FirstType
<1>9. First(ss, n + 1) = First(ss, n) \o ss[n + 1]
  BY <1>1, <1>4, <1>7, FirstNext
<1>10. \A x : First(ss, n) \o <<x>> = Append(First(ss, n), x) /\ First(ss, n) \o <<>> = First(ss, n)
  BY <1>8
<1>11. Kept(<<>>) = <<>>
  <2>1. [i \in 1..Len(<<>>) |-> IF Accepts(<<>>[i]) THEN <<<<>>[i]>> ELSE <<>>] = <<>>
    OBVIOUS
  <2> QED
    BY <2>1, FlatNothing DEF Kept
<1> QED
  BY <1>1, <1>2, <1>5, <1>6, <1>7, <1>8, <1>9, <1>10, <1>11 DEF T, vs

\* A list of words none of which is empty.
IsWords(S, ks) == /\ Space \in S /\ ks \in Seq(Seq(S))
                  /\ \A i \in 1..Len(ks) : ks[i] # <<>>

\* The last n of the first k words, each behind a blank.
Joined(ks, k, n) == FlattenSeq([i \in 1..n |-> <<Space>> \o ks[k - n + i]])

LEMMA JoinedNext ==
  ASSUME NEW S, NEW ks, IsWords(S, ks), NEW k \in 1..Len(ks), NEW n \in 1..k
  PROVE  /\ Joined(ks, k, 0) = <<>>
         /\ <<Space>> \o ks[k] \in Seq(S)
         /\ Len(<<Space>> \o ks[k]) >= 2
         /\ Joined(ks, k, n) = Joined(ks, k - 1, n - 1) \o (<<Space>> \o ks[k])
<1> DEFINE ss == [i \in 1..n |-> <<Space>> \o ks[k - n + i]]
           m == n - 1
<1>0. /\ Len(ks) \in Nat /\ n \in Nat /\ k \in Int /\ m \in Nat /\ m + 1 = n
      /\ ks[k] \in Seq(S) /\ ks[k] # <<>>
  BY DEF IsWords
<1>1. ks[k] \in Seq(S) /\ Len(ks[k]) \in Nat \ {0}
  BY <1>0, EmptySeq
<1>2. <<Space>> \o ks[k] \in Seq(S) /\ Len(<<Space>> \o ks[k]) = 1 + Len(ks[k])
  <2>1. <<Space>> \in Seq(S) /\ Len(<<Space>>) = 1
    BY DEF IsWords
  <2> QED
    BY <1>1, <2>1
<1>3. ss[n] = <<Space>> \o ks[k]
  <2>1. n \in 1..n /\ k - n + n = k
    BY <1>0
  <2> QED
    BY <2>1
<1>4. Joined(ks, k, n) = First(ss, m + 1)
  <2>1. [i \in 1..m + 1 |-> ss[i]] = ss
    BY <1>0
  <2> QED
    BY <2>1, Zenon DEF Joined, First
<1>5. Joined(ks, k - 1, n - 1) = First(ss, m)
  <2>1. ASSUME NEW i \in 1..m PROVE i \in 1..n /\ (k - 1) - (n - 1) + i = k - n + i
    BY <1>0
  <2>2. [i \in 1..m |-> ss[i]] = [i \in 1..n - 1 |-> <<Space>> \o ks[(k - 1) - (n - 1) + i]]
    BY <2>1
  <2> QED
    BY <2>2, Zenon DEF Joined, First
<1> HIDE DEF ss
<1>6. First(ss, m + 1) = First(ss, m) \o ss[m + 1]
  BY <1>0, <1>2, <1>3, FirstNext
<1>7. Joined(ks, k, 0) = <<>>
  <2>1. [i \in 1..0 |-> <<Space>> \o ks[k - 0 + i]] = <<>>
    OBVIOUS
  <2> QED
    BY <2>1, FlatNothing DEF Joined
<1>8. Len(<<Space>> \o ks[k]) >= 2
  BY <1>1, <1>2
<1> HIDE DEF m
<1> QED
  BY <1>0, <1>2, <1>3, <1>4, <1>5, <1>6, <1>7, <1>8

LEMMA JoinedNone == ASSUME NEW ks, NEW k PROVE Joined(ks, k, 0) = <<>>
<1>1. [i \in 1..0 |-> <<Space>> \o ks[k - 0 + i]] = <<>>
  OBVIOUS
<1> QED
  BY <1>1, FlatNothing DEF Joined

\* A phrase of n words has two characters or more for each, and grows with n.
JoinedGood(S, ks, n) ==
  \A k \in 1..Len(ks) : n \in 0..k =>
    /\ Joined(ks, k, n) \in Seq(S)
    /\ Len(Joined(ks, k, n)) >= 2 * n
    /\ n # 0 => /\ Joined(ks, k, n - 1) \in Seq(S)
                /\ Len(Joined(ks, k, n - 1)) < Len(Joined(ks, k, n))

LEMMA JoinedGrows ==
  ASSUME NEW S, NEW ks, IsWords(S, ks), NEW n \in Nat
  PROVE  JoinedGood(S, ks, n)
<1> DEFINE Wrong == {m \in Nat : ~JoinedGood(S, ks, m)}
<1> SUFFICES ASSUME Wrong # {} PROVE FALSE
  OBVIOUS
<1>1. PICK m \in Wrong : \A j \in Wrong : m <= j
  BY Smallest
<1>2. m \in Nat /\ ~JoinedGood(S, ks, m)
  OBVIOUS
<1>3. m # 0 => m - 1 \in Nat /\ JoinedGood(S, ks, m - 1)
  <2>1. m # 0 => m - 1 \in Nat /\ ~(m <= m - 1)
    BY <1>2
  <2> QED
    BY <1>1, <2>1
<1> HIDE DEF Wrong
<1>0. Len(ks) \in Nat
  BY DEF IsWords
<1>e. <<>> \in Seq(S) /\ Len(<<>>) = 0
  OBVIOUS
<1>4. ASSUME NEW k \in 1..Len(ks), m \in 0..k
      PROVE  /\ Joined(ks, k, m) \in Seq(S)
             /\ Len(Joined(ks, k, m)) >= 2 * m
             /\ m # 0 => /\ Joined(ks, k, m - 1) \in Seq(S)
                         /\ Len(Joined(ks, k, m - 1)) < Len(Joined(ks, k, m))
  <2>1. CASE m = 0
    <3>1. Joined(ks, k, m) = <<>>
      BY <2>1, JoinedNone, Zenon
    <3>2. Joined(ks, k, m) \in Seq(S) /\ Len(Joined(ks, k, m)) = 0
      BY <1>e, <3>1, Zenon
    <3> QED
      BY <2>1, <3>2
  <2>2. CASE m # 0
    <3> DEFINE w == <<Space>> \o ks[k]
               before == Joined(ks, k - 1, m - 1)
    <3>1. m \in 1..k /\ k \in Nat /\ m - 1 \in Nat
      BY <1>0, <1>2, <1>4, <2>2
    <3>2. w \in Seq(S) /\ Len(w) >= 2 /\ Joined(ks, k, m) = before \o w
      BY <3>1, JoinedNext
    <3>3. CASE m = 1
      <4>1. before = <<>>
        BY <3>3, JoinedNone
      <4>2. Joined(ks, k, m - 1) = <<>>
        BY <3>3, JoinedNone
      <4> HIDE DEF before, w
      <4>3. <<>> \o w = w
        BY <3>2
      <4>4. Joined(ks, k, m) = w
        BY <3>2, <4>1, <4>3
      <4>5. Len(w) \in Nat /\ Len(w) >= 2 * m /\ 0 < Len(w)
        BY <3>2, <3>3
      <4>6. Joined(ks, k, m) \in Seq(S) /\ Joined(ks, k, m - 1) \in Seq(S)
            /\ Len(Joined(ks, k, m)) = Len(w) /\ Len(Joined(ks, k, m - 1)) = 0
        BY <1>e, <3>2, <4>2, <4>4, Zenon
      <4> QED
        BY <4>5, <4>6
    <3>4. CASE m # 1
      <4>1. k - 1 \in 1..Len(ks) /\ m - 1 \in 0..(k - 1) /\ m - 1 # 0 /\ m - 1 \in 1..k
        BY <1>0, <3>1, <3>4
      <4>2. /\ before \in Seq(S) /\ Len(before) >= 2 * (m - 1)
            /\ Len(Joined(ks, k - 1, (m - 1) - 1)) < Len(before)
        BY <1>3, <2>2, <4>1 DEF JoinedGood
      <4>3. Joined(ks, k, m - 1) = Joined(ks, k - 1, (m - 1) - 1) \o w
        BY <4>1, JoinedNext
      <4>4. Joined(ks, k - 1, (m - 1) - 1) \in Seq(S)
        BY <1>3, <2>2, <4>1 DEF JoinedGood
      <4> HIDE DEF before, w
      <4>5. \A a \in Seq(S) : a \o w \in Seq(S) /\ Len(a \o w) = Len(a) + Len(w)
        BY <3>2, ConcatProperties, Zenon
      <4>6. Len(before) \in Nat /\ Len(w) \in Nat /\ Len(Joined(ks, k - 1, (m - 1) - 1)) \in Nat
        BY <3>2, <4>2, <4>4
      <4>7. Joined(ks, k, m) \in Seq(S) /\ Len(Joined(ks, k, m)) = Len(before) + Len(w)
        BY <3>2, <4>2, <4>5, Zenon
      <4>8. /\ Joined(ks, k, m - 1) \in Seq(S)
            /\ Len(Joined(ks, k, m - 1)) = Len(Joined(ks, k - 1, (m - 1) - 1)) + Len(w)
        BY <4>3, <4>4, <4>5, Zenon
      <4>9. \A x, y, z \in Nat : x >= 2 * (m - 1) /\ y >= 2 /\ z < x
              => x + y >= 2 * m /\ z + y < x + y
        BY <3>1
      <4>10. /\ Len(before) + Len(w) >= 2 * m
             /\ Len(Joined(ks, k - 1, (m - 1) - 1)) + Len(w) < Len(before) + Len(w)
        BY <3>2, <4>2, <4>6, <4>9, Zenon
      <4> QED
        BY <4>7, <4>8, <4>10, Zenon
    <3> QED
      BY <3>3, <3>4
  <2> QED
    BY <2>1, <2>2
<1> QED
  BY <1>2, <1>4 DEF JoinedGood

LEMMA TailOf ==
  ASSUME NEW S, NEW a \in Seq(S), NEW b \in Seq(S), Len(a) >= 1
  PROVE  /\ Tail(a) \in Seq(S) /\ Len(Tail(a)) = Len(a) - 1
         /\ Tail(a \o b) = Tail(a) \o b
<1>1. /\ Len(a) \in Nat /\ Len(b) \in Nat /\ a \o b \in Seq(S)
      /\ Len(a \o b) = Len(a) + Len(b) /\ a # <<>> /\ a \o b # <<>>
  BY EmptySeq
<1>2. Tail(a) \in Seq(S) /\ Len(Tail(a)) = Len(a) - 1
      /\ \A i \in 1..Len(a) - 1 : Tail(a)[i] = a[i + 1]
  BY <1>1, HeadTailProperties
<1>3. Tail(a \o b) \in Seq(S) /\ Len(Tail(a \o b)) = Len(a) + Len(b) - 1
      /\ \A i \in 1..Len(a) + Len(b) - 1 : Tail(a \o b)[i] = (a \o b)[i + 1]
  BY <1>1, HeadTailProperties
<1>4. Tail(a) \o b \in Seq(S) /\ Len(Tail(a) \o b) = Len(a) - 1 + Len(b)
  BY <1>1, <1>2
<1>5. ASSUME NEW i \in 1..Len(a) + Len(b) - 1
      PROVE  Tail(a \o b)[i] = (Tail(a) \o b)[i]
  <2>1. CASE i <= Len(a) - 1
    BY <1>1, <1>2, <1>3, <2>1
  <2>2. CASE i > Len(a) - 1
    BY <1>1, <1>2, <1>3, <2>2
  <2> QED
    BY <1>1, <2>1, <2>2
<1>6. Tail(a \o b) = Tail(a) \o b
  BY <1>1, <1>3, <1>4, <1>5, SeqEqual
<1> QED
  BY <1>2, <1>6

LEMMA PhraseIsTail ==
  ASSUME NEW ks, NEW k, NEW n PROVE PhraseAt(ks, k, n) = Tail(Joined(ks, k, n))
  BY DEF PhraseAt, Joined

LEMMA PhraseFacts ==
  ASSUME NEW S, NEW ks, IsWords(S, ks), NEW k \in 1..Len(ks), NEW n \in 1..k
  PROVE  /\ PhraseAt(ks, k, n) \in Seq(S)
         /\ Len(PhraseAt(ks, k, n)) \in Nat
         /\ Len(PhraseAt(ks, k, n)) >= 2 * n - 1
         /\ n = 1 => PhraseAt(ks, k, n) = ks[k]
         /\ n # 1 => /\ PhraseAt(ks, k, n) = PhraseAt(ks, k - 1, n - 1) \o (<<Space>> \o ks[k])
                     /\ Len(PhraseAt(ks, k, n - 1)) < Len(PhraseAt(ks, k, n))
<1> DEFINE a == Joined(ks, k, n)
           b == Joined(ks, k, n - 1)
           c == Joined(ks, k - 1, n - 1)
           w == <<Space>> \o ks[k]
<1>0. Len(ks) \in Nat /\ n \in Nat /\ k \in Nat /\ n \in 0..k /\ n # 0
  BY DEF IsWords
<1>1. a \in Seq(S) /\ Len(a) >= 2 * n /\ b \in Seq(S) /\ Len(b) < Len(a)
  BY <1>0, JoinedGrows DEF JoinedGood
<1>2. w \in Seq(S) /\ Len(w) >= 2 /\ a = c \o w
  BY JoinedNext
<1>3. PhraseAt(ks, k, n) = Tail(a) /\ PhraseAt(ks, k, n - 1) = Tail(b)
      /\ PhraseAt(ks, k - 1, n - 1) = Tail(c)
  BY PhraseIsTail
<1>4. Tail(a) \in Seq(S) /\ Len(Tail(a)) = Len(a) - 1 /\ Len(a) \in Nat
  BY <1>0, <1>1, TailOf
<1>5. CASE n = 1
  <2>1. c = <<>>
    BY <1>5, JoinedNone
  <2>2. ks[k] \in Seq(S) /\ <<Space>> \in Seq(S) /\ Len(<<Space>>) = 1
    BY DEF IsWords
  <2>3. Tail(w) = Tail(<<Space>>) \o ks[k] /\ Len(Tail(<<Space>>)) = 0 /\ Tail(<<Space>>) \in Seq(S)
    BY <2>2, TailOf
  <2>4. Tail(<<Space>>) = <<>>
    BY <2>3, EmptySeq
  <2>5. Tail(w) = ks[k]
    BY <2>2, <2>3, <2>4
  <2> HIDE DEF c, w
  <2>6. a = w
    BY <1>2, <2>1
  <2> HIDE DEF a
  <2> QED
    BY <1>0, <1>1, <1>3, <1>4, <1>5, <2>5, <2>6
<1>6. CASE n # 1
  <2>1. k - 1 \in 1..Len(ks) /\ n - 1 \in 0..k - 1 /\ n - 1 \in Nat /\ n - 1 \in 0..k /\ n - 1 >= 1
    BY <1>0, <1>6
  <2>2. c \in Seq(S) /\ Len(c) >= 2 * (n - 1) /\ Len(b) >= 2 * (n - 1)
    BY <2>1, JoinedGrows DEF JoinedGood
  <2> HIDE DEF a, b, c, w
  <2>3. Len(c) >= 1 /\ Len(b) >= 1 /\ Len(c) \in Nat /\ Len(b) \in Nat
    BY <1>1, <2>1, <2>2
  <2>4. Tail(a) = Tail(c) \o w
    BY <1>2, <2>2, <2>3, TailOf
  <2>5. Len(Tail(b)) = Len(b) - 1
    BY <1>1, <2>3, TailOf
  <2>6. PhraseAt(ks, k, n) = PhraseAt(ks, k - 1, n - 1) \o w
    BY <1>3, <2>4, Zenon
  <2>7. /\ PhraseAt(ks, k, n) \in Seq(S) /\ Len(PhraseAt(ks, k, n)) = Len(a) - 1
        /\ Len(PhraseAt(ks, k, n - 1)) = Len(b) - 1
    BY <1>3, <1>4, <2>5, Zenon
  <2>8. Len(a) - 1 \in Nat /\ Len(a) - 1 >= 2 * n - 1 /\ Len(b) - 1 < Len(a) - 1
    BY <1>0, <1>1, <1>4, <2>3
  <2> USE DEF w
  <2> QED
    BY <1>6, <2>6, <2>7, <2>8
<1> QED
  BY <1>5, <1>6

LEMMA PhraseGrows ==
  ASSUME NEW S, NEW ks, IsWords(S, ks), NEW k \in 1..Len(ks), NEW n \in 1..k, NEW j \in 1..k,
         n < j
  PROVE  Len(PhraseAt(ks, k, n)) < Len(PhraseAt(ks, k, j))
<1> DEFINE Wrong == {i \in 1..k : n < i /\ ~(Len(PhraseAt(ks, k, n)) < Len(PhraseAt(ks, k, i)))}
<1> SUFFICES ASSUME Wrong # {} PROVE FALSE
  OBVIOUS
<1>1. PICK i \in Wrong : \A m \in Wrong : i <= m
  <2>1. Wrong \subseteq Nat
    BY DEF IsWords
  <2> HIDE DEF Wrong
  <2> QED
    BY <2>1, Smallest
<1>2. i \in 1..k /\ n < i /\ ~(Len(PhraseAt(ks, k, n)) < Len(PhraseAt(ks, k, i)))
  OBVIOUS
<1>3. k \in Nat /\ i # 1 /\ i - 1 \in 1..k /\ ~(i <= i - 1)
  BY <1>2 DEF IsWords
<1>4. i - 1 \notin Wrong
  <2> HIDE DEF Wrong
  <2> QED
    BY <1>1, <1>3
<1>5. n = i - 1 \/ Len(PhraseAt(ks, k, n)) < Len(PhraseAt(ks, k, i - 1))
  BY <1>2, <1>3, <1>4
<1>6. Len(PhraseAt(ks, k, i - 1)) < Len(PhraseAt(ks, k, i))
  BY <1>2, <1>3, PhraseFacts
<1>7. Len(PhraseAt(ks, k, n)) \in Nat /\ Len(PhraseAt(ks, k, i)) \in Nat
      /\ Len(PhraseAt(ks, k, i - 1)) \in Nat
  BY <1>2, <1>3, PhraseFacts
<1> QED
  BY <1>2, <1>5, <1>6, <1>7

\* A word that comes later changes no phrase.
LEMMA PhraseSame ==
  ASSUME NEW S, NEW ks \in Seq(S), NEW w \in S, NEW k \in 1..Len(ks), NEW n \in 1..k
  PROVE  PhraseAt(Append(ks, w), k, n) = PhraseAt(ks, k, n)
<1>1. ASSUME NEW i \in 1..n PROVE Append(ks, w)[k - n + i] = ks[k - n + i]
  <2>1. k - n + i \in 1..Len(ks)
    OBVIOUS
  <2> QED
    BY <2>1
<1>2. [i \in 1..n |-> <<Space>> \o Append(ks, w)[k - n + i]]
        = [i \in 1..n |-> <<Space>> \o ks[k - n + i]]
  BY <1>1
<1> QED
  BY <1>2, Zenon DEF PhraseAt

----------------------------------------------------------------------------
(* The window over the last words *)

\* The last characters of a string, from behind the o-th on.
Behind(s, o) == SubSeq(s, o + 1, Len(s))

LEMMA BehindType ==
  ASSUME NEW S, NEW s \in Seq(S), NEW o \in 0..Len(s)
  PROVE  /\ Behind(s, o) \in Seq(S) /\ Len(Behind(s, o)) = Len(s) - o
         /\ \A i \in 1..Len(s) - o : Behind(s, o)[i] = s[o + i]
<1> DEFINE m == o + 1
           n == Len(s)
<1>1. m \in Int /\ n \in Int /\ o \in Nat /\ o <= n /\ n \in Nat /\ \A i \in m..n : s[i] \in S
  OBVIOUS
<1>2. /\ SubSeq(s, m, n) \in Seq(S)
      /\ Len(SubSeq(s, m, n)) = IF m <= n THEN n - m + 1 ELSE 0
      /\ \A i \in 1..n - m + 1 : SubSeq(s, m, n)[i] = s[m + i - 1]
  <2> HIDE DEF m, n
  <2> QED
    BY <1>1, SubSeqProperties
<1>3. Len(SubSeq(s, m, n)) = n - o
  BY <1>1, <1>2
<1>4. ASSUME NEW i \in 1..n - o PROVE SubSeq(s, m, n)[i] = s[o + i]
  <2>1. i \in 1..n - m + 1 /\ m + i - 1 = o + i
    BY <1>1
  <2> HIDE DEF m, n
  <2> QED
    BY <1>2, <2>1
<1> QED
  BY <1>2, <1>3, <1>4 DEF Behind

LEMMA BehindJoined ==
  ASSUME NEW S, NEW s \in Seq(S), NEW t \in Seq(S), NEW o \in 0..Len(s)
  PROVE  Behind(s \o t, o) = Behind(s, o) \o t
<1> DEFINE st == s \o t
           a == Behind(s, o)
           b == Behind(s \o t, o)
           at == Behind(s, o) \o t
<1>1. Len(s) \in Nat /\ Len(t) \in Nat /\ o \in Nat /\ o <= Len(s)
  OBVIOUS
<1>2. /\ st \in Seq(S) /\ Len(st) = Len(s) + Len(t)
      /\ \A i \in 1..Len(s) + Len(t) : st[i] = IF i <= Len(s) THEN s[i] ELSE t[i - Len(s)]
  BY ConcatProperties
<1>3. /\ a \in Seq(S) /\ Len(a) = Len(s) - o
      /\ \A i \in 1..Len(s) - o : a[i] = s[o + i]
  BY BehindType
<1>4. /\ b \in Seq(S) /\ Len(b) = Len(s) + Len(t) - o
      /\ \A i \in 1..Len(s) + Len(t) - o : b[i] = st[o + i]
  <2>1. o \in 0..Len(st)
    BY <1>1, <1>2
  <2> HIDE DEF st
  <2>2. /\ Behind(st, o) \in Seq(S) /\ Len(Behind(st, o)) = Len(st) - o
        /\ \A i \in 1..Len(st) - o : Behind(st, o)[i] = st[o + i]
    BY <1>2, <2>1, BehindType
  <2>3. b = Behind(st, o)
    BY DEF st
  <2> HIDE DEF b
  <2> QED
    BY <1>2, <2>2, <2>3
<1> HIDE DEF st, b
<1>5. /\ at \in Seq(S) /\ Len(at) = Len(a) + Len(t)
      /\ \A i \in 1..Len(a) + Len(t) : at[i] = IF i <= Len(a) THEN a[i] ELSE t[i - Len(a)]
  <2>1. a \in Seq(S) /\ at = a \o t
    BY <1>3
  <2> HIDE DEF a, at
  <2> QED
    BY <2>1, ConcatProperties
<1> HIDE DEF a, at
<1>6. ASSUME NEW i \in 1..Len(s) + Len(t) - o PROVE b[i] = at[i]
  <2>1. /\ i \in 1..Len(a) + Len(t) /\ o + i \in 1..Len(s) + Len(t)
        /\ (i <= Len(a) <=> o + i <= Len(s)) /\ (o + i) - Len(s) = i - Len(a)
        /\ (i <= Len(a) => i \in 1..Len(s) - o)
    BY <1>1, <1>3
  <2>2. b[i] = IF o + i <= Len(s) THEN s[o + i] ELSE t[i - Len(a)]
    BY <1>2, <1>4, <2>1
  <2>3. at[i] = IF i <= Len(a) THEN a[i] ELSE t[i - Len(a)]
    BY <1>5, <2>1
  <2> QED
    BY <1>3, <2>1, <2>2, <2>3
<1>7. Len(at) = Len(s) + Len(t) - o
  BY <1>1, <1>3, <1>5
<1>8. b = at
  BY <1>4, <1>5, <1>6, <1>7, SeqEqual
<1> QED
  BY <1>8 DEF b, at

LEMMA BehindCut ==
  ASSUME NEW S, NEW s \in Seq(S), NEW a \in 0..Len(s), NEW o \in a..Len(s)
  PROVE  Behind(Behind(s, a), o - a) = Behind(s, o)
<1>1. /\ Behind(s, a) \in Seq(S) /\ Len(Behind(s, a)) = Len(s) - a
      /\ \A i \in 1..Len(s) - a : Behind(s, a)[i] = s[a + i]
  BY BehindType
<1>2. Len(s) \in Nat /\ a \in Nat /\ o \in 0..Len(s) /\ o - a \in 0..Len(Behind(s, a))
  BY <1>1
<1>3. /\ Behind(s, o) \in Seq(S) /\ Len(Behind(s, o)) = Len(s) - o
      /\ \A i \in 1..Len(s) - o : Behind(s, o)[i] = s[o + i]
  BY <1>2, BehindType
<1>4. /\ Behind(Behind(s, a), o - a) \in Seq(S)
      /\ Len(Behind(Behind(s, a), o - a)) = Len(Behind(s, a)) - (o - a)
      /\ \A i \in 1..Len(Behind(s, a)) - (o - a) :
           Behind(Behind(s, a), o - a)[i] = Behind(s, a)[o - a + i]
  BY <1>1, <1>2, BehindType
<1>5. Len(Behind(s, a)) - (o - a) = Len(s) - o
  BY <1>1, <1>2
<1>6. ASSUME NEW i \in 1..Len(s) - o
      PROVE  Behind(Behind(s, a), o - a)[i] = Behind(s, o)[i]
  <2>1. o - a + i \in 1..Len(s) - a /\ a + (o - a + i) = o + i
    BY <1>2
  <2> QED
    BY <1>1, <1>3, <1>4, <1>5, <2>1
<1> QED
  BY <1>3, <1>4, <1>5, <1>6, SeqEqual

\* A chain whose words are sequences over S.
States == {"START", "WAITING", "IN_WORD", "PENDING"}
Chains(S) == [state : States, token : Seq(S), pending : Seq(S), chars : Seq(S),
              offsets : Seq(Nat)]

\* The list has the last m of the words ks, and each of its offsets is where the
\* phrase of the words from there on begins.
Reaches(t, ks, m) ==
  /\ Len(t.offsets) = m
  /\ \A n \in 1..m : /\ t.offsets[n] \in 0..Len(t.chars)
                     /\ Behind(t.chars, t.offsets[n]) = PhraseAt(ks, Len(ks), n)

Window(t, ks) ==
  Reaches(t, ks, IF Len(ks) < MaxWordsInList THEN Len(ks) ELSE MaxWordsInList)

LEMMA MinPair == ASSUME NEW a \in Int, NEW b \in Int
                 PROVE  Min({a, b}) = IF a <= b THEN a ELSE b
<1> DEFINE c == IF a <= b THEN a ELSE b
<1>1. c \in {a, b} /\ \A y \in {a, b} : c <= y
  OBVIOUS
<1>2. \A d \in {a, b} : (\A y \in {a, b} : d <= y) => d = c
  OBVIOUS
<1> QED
  BY <1>1, <1>2 DEF Min

LEMMA Limits == /\ MaxWordsInList \in Nat \ {0} /\ MinPhraseTerms \in Nat \ {0}
                /\ MaxPhraseTerms \in Nat \ {0} /\ MinPhraseChars \in Nat
                /\ MaxPhraseChars \in Nat /\ MaxStart \in Nat
  BY TokenizersAssumption DEF MaxWordsInList

LEMMA KeptReaches ==
  ASSUME NEW S, NEW t \in Chains(S), NEW ks, IsWords(S, ks), Window(t, ks)
  PROVE  LET u == [t EXCEPT !.offsets = KeptOffsets(t)]
             m == IF Len(ks) < MaxWordsInList THEN Len(ks) ELSE MaxWordsInList - 1
         IN  /\ u \in Chains(S) /\ m \in 0..Len(ks) /\ Reaches(u, ks, m)
             /\ u.state = t.state /\ u.token = t.token
<1> DEFINE m == IF Len(ks) < MaxWordsInList THEN Len(ks) ELSE MaxWordsInList - 1
           u == [t EXCEPT !.offsets = KeptOffsets(t)]
           l == Len(t.offsets)
<1>1. l = IF Len(ks) < MaxWordsInList THEN Len(ks) ELSE MaxWordsInList
  BY DEF Window, Reaches
<1>2. Len(ks) \in Nat /\ l \in Nat /\ MaxWordsInList \in Nat \ {0}
  BY Limits DEF IsWords, Chains
<1>3. m \in 0..Len(ks) /\ m <= l /\ m \in Nat
  BY <1>1, <1>2
<1>4. Min({l, MaxWordsInList - 1}) = m
  BY <1>1, <1>2, MinPair
<1> HIDE DEF m
<1>5. /\ KeptOffsets(t) \in Seq(Nat) /\ Len(KeptOffsets(t)) = m
      /\ \A i \in 1..m : KeptOffsets(t)[i] = t.offsets[i]
  <2>1. \A i \in 1..m : t.offsets[i] \in Nat
    BY <1>2, <1>3 DEF Chains
  <2>2. /\ SubSeq(t.offsets, 1, m) \in Seq(Nat)
        /\ Len(SubSeq(t.offsets, 1, m)) = IF 1 <= m THEN m - 1 + 1 ELSE 0
        /\ \A i \in 1..m - 1 + 1 : SubSeq(t.offsets, 1, m)[i] = t.offsets[1 + i - 1]
    BY <1>3, <2>1, SubSeqProperties
  <2>3. KeptOffsets(t) = SubSeq(t.offsets, 1, m)
    BY <1>4 DEF KeptOffsets
  <2> QED
    BY <1>3, <2>2, <2>3
<1>6. /\ u \in Chains(S) /\ u.offsets = KeptOffsets(t) /\ u.chars = t.chars
      /\ u.state = t.state /\ u.token = t.token
  BY <1>5 DEF Chains
<1> HIDE DEF u
<1>7. Reaches(u, ks, m)
  <2>1. \A i \in 1..m : i \in 1..l
    BY <1>2, <1>3
  <2> QED
    BY <1>1, <1>5, <1>6, <2>1 DEF Window, Reaches
<1> USE DEF m, u
<1> QED
  BY <1>3, <1>6, <1>7

LEMMA CompactReaches ==
  ASSUME NEW S, NEW t \in Chains(S), NEW ks, IsWords(S, ks), NEW m \in 0..Len(ks),
         Reaches(t, ks, m)
  PROVE  /\ CompactChars(t) \in Chains(S) /\ Reaches(CompactChars(t), ks, m)
         /\ CompactChars(t).state = t.state /\ CompactChars(t).token = t.token
<1> DEFINE start == CharsStart(t)
           k == Len(ks)
           moved == [i \in 1..Len(t.offsets) |-> t.offsets[i] - start]
           rest == SubSeq(t.chars, start + 1, Len(t.chars))
<1>1. CASE ~(start > MaxStart)
  BY <1>1 DEF CompactChars
<1>2. CASE start > MaxStart
  <2>1. k \in Nat /\ m \in Nat /\ m <= k
    BY DEF IsWords
  <2>2. /\ t.offsets \in Seq(Nat) /\ t.chars \in Seq(S) /\ Len(t.chars) \in Nat
        /\ Len(t.offsets) = m
    BY DEF Chains, Reaches
  <2>3. m # 0 /\ start = t.offsets[m]
    <3>1. t.offsets # <<>>
      BY <1>2, Limits DEF CharsStart
    <3>2. start = Last(t.offsets)
      BY <1>2, Limits DEF CharsStart
    <3> QED
      BY <2>2, <3>1, <3>2 DEF Last
  <2>4. m \in 1..m /\ m \in 1..k
    BY <2>1, <2>3
  <2>5. start \in 0..Len(t.chars)
    BY <2>3, <2>4 DEF Reaches
  <2> HIDE DEF start
  <2>6. ASSUME NEW n \in 1..m
        PROVE  /\ t.offsets[n] \in start..Len(t.chars)
               /\ Behind(t.chars, t.offsets[n]) = PhraseAt(ks, k, n)
    <3>1. /\ t.offsets[n] \in 0..Len(t.chars)
          /\ Behind(t.chars, t.offsets[n]) = PhraseAt(ks, k, n)
      BY DEF Reaches
    <3>2. Len(PhraseAt(ks, k, n)) = Len(t.chars) - t.offsets[n]
      BY <2>2, <3>1, BehindType
    <3>3. Len(PhraseAt(ks, k, m)) = Len(t.chars) - start
      <4>1. Behind(t.chars, start) = PhraseAt(ks, k, m)
        BY <2>3, <2>4 DEF Reaches
      <4> QED
        BY <2>2, <2>5, <4>1, BehindType
    <3>4. n = m \/ Len(PhraseAt(ks, k, n)) < Len(PhraseAt(ks, k, m))
      <4>1. n \in 1..k /\ m \in 1..k /\ k \in 1..Len(ks) /\ (n # m => n < m)
        BY <2>1, <2>3
      <4> HIDE DEF k
      <4>2. n # m => Len(PhraseAt(ks, k, n)) < Len(PhraseAt(ks, k, m))
        BY <4>1, PhraseGrows
      <4> QED
        BY <4>2
    <3>5. \A l \in Nat : \A o, s \in 0..l : o = s \/ l - o < l - s => o \in s..l
      OBVIOUS
    <3>6. t.offsets[n] = start \/ Len(t.chars) - t.offsets[n] < Len(t.chars) - start
      BY <2>3, <3>2, <3>3, <3>4, Zenon
    <3> QED
      BY <2>2, <2>5, <3>1, <3>5, <3>6
  <2>7. moved \in Seq(Nat) /\ Len(moved) = m /\ \A n \in 1..m : moved[n] = t.offsets[n] - start
    <3>1. \A n \in 1..m : t.offsets[n] - start \in Nat
      BY <2>2, <2>5, <2>6
    <3>2. moved = [n \in 1..m |-> t.offsets[n] - start]
      BY <2>2
    <3> HIDE DEF moved
    <3>3. moved \in [1..m -> Nat]
      BY <3>1, <3>2
    <3> QED
      BY <2>1, <3>2, <3>3
  <2>8. /\ rest = Behind(t.chars, start)
        /\ rest \in Seq(S) /\ Len(rest) = Len(t.chars) - start
    <3>1. rest = Behind(t.chars, start)
      BY DEF Behind
    <3> QED
      BY <2>2, <2>5, <3>1, BehindType
  <2> HIDE DEF moved, rest
  <2> DEFINE c == [t EXCEPT !.offsets = moved, !.chars = rest]
  <2>9. CompactChars(t) = c
    BY <1>2 DEF CompactChars, start, moved, rest
  <2>10. /\ c \in Chains(S) /\ c.offsets = moved /\ c.chars = rest
         /\ c.state = t.state /\ c.token = t.token
    BY <2>7, <2>8 DEF Chains
  <2> HIDE DEF c
  <2>11. ASSUME NEW n \in 1..m
         PROVE  moved[n] \in 0..Len(rest) /\ Behind(rest, moved[n]) = PhraseAt(ks, k, n)
    <3>1. moved[n] = t.offsets[n] - start /\ t.offsets[n] \in start..Len(t.chars)
      BY <2>6, <2>7
    <3>2. Behind(Behind(t.chars, start), t.offsets[n] - start) = Behind(t.chars, t.offsets[n])
      BY <2>2, <2>5, <3>1, BehindCut
    <3>3. moved[n] \in 0..Len(rest)
      <4>1. \A a \in Nat : \A b \in 0..a : \A o \in b..a : o - b \in 0..(a - b)
        OBVIOUS
      <4>2. t.offsets[n] - start \in 0..(Len(t.chars) - start)
        BY <2>2, <2>5, <3>1, <4>1
      <4>3. Len(rest) = Len(t.chars) - start /\ moved[n] = t.offsets[n] - start
        BY <2>8, <3>1
      <4> QED
        BY <4>2, <4>3
    <3> QED
      BY <2>6, <2>8, <3>1, <3>2, <3>3
  <2>12. Reaches(c, ks, m)
    BY <2>7, <2>10, <2>11 DEF Reaches
  <2> QED
    BY <2>9, <2>10, <2>12
<1> QED
  BY <1>1, <1>2

\* One more word, at the end of the characters and in front of the list.
WithWord(c, w) == [c EXCEPT !.offsets = <<Len(c.chars) + 1>> \o @, !.chars = @ \o <<Space>> \o w]

LEMMA WordReaches ==
  ASSUME NEW S, NEW c \in Chains(S), NEW ks, IsWords(S, ks), NEW m \in 0..Len(ks),
         Reaches(c, ks, m), NEW w \in Seq(S), w # <<>>
  PROVE  /\ WithWord(c, w) \in Chains(S) /\ Reaches(WithWord(c, w), Append(ks, w), m + 1)
         /\ IsWords(S, Append(ks, w)) /\ Len(Append(ks, w)) = Len(ks) + 1
         /\ WithWord(c, w).state = c.state /\ WithWord(c, w).token = c.token
<1> DEFINE T == Seq(S)
           k == Len(ks)
           vs == Append(ks, w)
           chars == c.chars \o <<Space>> \o w
           offsets == <<Len(c.chars) + 1>> \o c.offsets
           u == WithWord(c, w)
<1>1. /\ Space \in S /\ c.chars \in Seq(S) /\ c.offsets \in Seq(Nat) /\ Len(c.offsets) = m
      /\ k \in Nat /\ m \in Nat /\ Len(c.chars) \in Nat /\ <<Space>> \in Seq(S)
      /\ Len(<<Space>>) = 1
  BY DEF IsWords, Chains, Reaches
<1>2. Len(vs) = k + 1 /\ vs[k + 1] = w /\ IsWords(S, vs)
  <2>1. ks \in Seq(T) /\ w \in T
    BY DEF IsWords
  <2> HIDE DEF T
  <2>2. /\ vs \in Seq(T) /\ Len(vs) = k + 1 /\ vs[k + 1] = w
        /\ \A i \in 1..k : vs[i] = ks[i]
    BY <2>1
  <2> HIDE DEF vs
  <2>3. \A i \in 1..Len(vs) : vs[i] # <<>>
    <3>1. ASSUME NEW i \in 1..Len(vs) PROVE vs[i] # <<>>
      <4>1. i = k + 1 \/ i \in 1..k
        BY <1>1, <2>2
      <4> QED
        BY <2>2, <4>1 DEF IsWords
    <3> QED
      BY <3>1
  <2> USE DEF T
  <2> QED
    BY <1>1, <2>2, <2>3 DEF IsWords
<1>3. /\ chars \in Seq(S) /\ Len(chars) = Len(c.chars) + 1 + Len(w)
      /\ chars = c.chars \o (<<Space>> \o w)
  <2>1. c.chars \o <<Space>> \in Seq(S) /\ Len(c.chars \o <<Space>>) = Len(c.chars) + 1
    BY <1>1, ConcatProperties
  <2>2. /\ (c.chars \o <<Space>>) \o w \in Seq(S)
        /\ Len((c.chars \o <<Space>>) \o w) = Len(c.chars \o <<Space>>) + Len(w)
    BY <2>1, ConcatProperties
  <2>3. (c.chars \o <<Space>>) \o w = c.chars \o (<<Space>> \o w)
    <3>1. \A a, b \in Seq(S) : (a \o b) \o w = a \o (b \o w)
      BY ConcatAssociative
    <3> QED
      BY <1>1, <3>1
  <2>4. chars = (c.chars \o <<Space>>) \o w
    OBVIOUS
  <2> HIDE DEF chars
  <2>5. Len(chars) = Len(c.chars) + 1 + Len(w)
    BY <2>1, <2>2, <2>4, Zenon
  <2>6. chars \in Seq(S) /\ chars = c.chars \o (<<Space>> \o w)
    BY <2>2, <2>3, <2>4, Zenon
  <2> QED
    BY <2>5, <2>6
<1>4. /\ offsets \in Seq(Nat) /\ Len(offsets) = m + 1 /\ offsets[1] = Len(c.chars) + 1
      /\ \A n \in 1..m : offsets[n + 1] = c.offsets[n]
  <2>1. <<Len(c.chars) + 1>> \in Seq(Nat) /\ Len(<<Len(c.chars) + 1>>) = 1
        /\ <<Len(c.chars) + 1>>[1] = Len(c.chars) + 1
    BY <1>1
  <2>2. ASSUME NEW o \in Seq(Nat), Len(o) = 1
        PROVE  /\ o \o c.offsets \in Seq(Nat) /\ Len(o \o c.offsets) = m + 1
               /\ (o \o c.offsets)[1] = o[1]
               /\ \A n \in 1..m : (o \o c.offsets)[n + 1] = c.offsets[n]
    <3> DEFINE r == o \o c.offsets
    <3>1. /\ r \in Seq(Nat) /\ Len(r) = Len(o) + Len(c.offsets)
          /\ \A i \in 1..Len(o) + Len(c.offsets) :
               r[i] = IF i <= Len(o) THEN o[i] ELSE c.offsets[i - Len(o)]
      BY <1>1, <2>2, ConcatProperties
    <3> HIDE DEF r
    <3>2. /\ Len(r) = 1 + m
          /\ \A i \in 1..1 + m : r[i] = IF i <= 1 THEN o[i] ELSE c.offsets[i - 1]
      BY <1>1, <2>2, <3>1, Zenon
    <3>3. 1 + m = m + 1 /\ 1 \in 1..1 + m /\ 1 <= 1
          /\ \A n \in 1..m : n + 1 \in 1..1 + m /\ ~(n + 1 <= 1) /\ (n + 1) - 1 = n
      BY <1>1
    <3>4. r[1] = o[1] /\ \A n \in 1..m : r[n + 1] = c.offsets[n]
      BY <3>2, <3>3
    <3> QED
      BY <3>1, <3>2, <3>3, <3>4 DEF r
  <2> QED
    BY <2>1, <2>2
<1> HIDE DEF chars, offsets
<1>5. /\ u \in Chains(S) /\ u.chars = chars /\ u.offsets = offsets
      /\ u.state = c.state /\ u.token = c.token
  <2>1. u = [c EXCEPT !.offsets = offsets, !.chars = chars]
    BY DEF WithWord, chars, offsets
  <2> QED
    BY <1>3, <1>4, <2>1 DEF Chains
<1> HIDE DEF u
<1>6. ASSUME NEW n \in 1..(m + 1)
      PROVE  offsets[n] \in 0..Len(chars) /\ Behind(chars, offsets[n]) = PhraseAt(vs, k + 1, n)
  <2>0. Len(w) \in Nat /\ n \in 1..(k + 1) /\ k + 1 \in 1..Len(vs)
    BY <1>1, <1>2
  <2>1. CASE n = 1
    <3>1. offsets[n] = Len(c.chars) + 1 /\ offsets[n] \in 0..Len(chars)
      BY <1>1, <1>3, <1>4, <2>0, <2>1
    <3>2. Behind(chars, Len(c.chars) + 1) = w
      <4>1. c.chars \o <<Space>> \in Seq(S) /\ Len(c.chars \o <<Space>>) = Len(c.chars) + 1
            /\ chars = (c.chars \o <<Space>>) \o w
        <5>1. chars = (c.chars \o <<Space>>) \o w
          BY DEF chars
        <5> QED
          BY <1>1, <5>1, ConcatProperties
      <4>2. \A a \in Seq(S) : Behind(a \o w, Len(a)) = Behind(a, Len(a)) \o w
        BY BehindJoined
      <4>3. \A a \in Seq(S) : Len(a) \in 0..Len(a) /\ Len(a) - Len(a) = 0
        OBVIOUS
      <4>4. \A a \in Seq(S) : Behind(a, Len(a)) \in Seq(S) /\ Len(Behind(a, Len(a))) = 0
        BY <4>3, BehindType
      <4>5. \A a \in Seq(S) : Behind(a, Len(a)) = <<>>
        BY <4>4, EmptySeq
      <4>6. <<>> \o w = w
        OBVIOUS
      <4> QED
        BY <4>1, <4>2, <4>5, <4>6
    <3>3. PhraseAt(vs, k + 1, 1) = w
      <4>1. 1 \in 1..(k + 1)
        BY <1>1
      <4> QED
        BY <1>2, <2>0, <4>1, PhraseFacts
    <3> QED
      BY <2>1, <3>1, <3>2, <3>3
  <2>2. CASE n # 1
    <3>1. n - 1 \in 1..m /\ offsets[n] = c.offsets[n - 1] /\ k \in 1..Len(ks) /\ n - 1 \in 1..k
      <4>1. n - 1 \in 1..m /\ (n - 1) + 1 = n /\ k \in 1..Len(ks) /\ n - 1 \in 1..k
        BY <1>1, <2>2
      <4> QED
        BY <1>4, <4>1
    <3>2. c.offsets[n - 1] \in 0..Len(c.chars) /\ Behind(c.chars, c.offsets[n - 1]) = PhraseAt(ks, k, n - 1)
      BY <3>1 DEF Reaches
    <3>3. Behind(chars, c.offsets[n - 1]) = PhraseAt(ks, k, n - 1) \o (<<Space>> \o w)
      <4>1. <<Space>> \o w \in Seq(S)
        BY <1>1
      <4> QED
        BY <1>1, <1>3, <3>2, <4>1, BehindJoined
    <3>4. PhraseAt(vs, k + 1, n) = PhraseAt(vs, k, n - 1) \o (<<Space>> \o w)
      <4>1. (k + 1) - 1 = k
        BY <1>1
      <4> QED
        BY <1>2, <2>0, <2>2, <4>1, PhraseFacts
    <3>5. PhraseAt(vs, k, n - 1) = PhraseAt(ks, k, n - 1)
      <4>1. ks \in Seq(T) /\ w \in T
        BY DEF IsWords
      <4> QED
        BY <3>1, <4>1, PhraseSame
    <3>6. c.offsets[n - 1] \in 0..Len(chars)
      BY <1>1, <1>3, <2>0, <3>2
    <3> QED
      BY <3>1, <3>3, <3>4, <3>5, <3>6
  <2> QED
    BY <2>1, <2>2
<1>7. Reaches(u, vs, m + 1)
  BY <1>2, <1>4, <1>5, <1>6 DEF Reaches
<1> QED
  BY <1>2, <1>5, <1>7 DEF u

\* A word that the filter lets pass joins the window.
LEMMA WindowAdd ==
  ASSUME NEW S, NEW t \in Chains(S), NEW ks, IsWords(S, ks), Window(t, ks),
         NEW w \in Seq(S), w # <<>>
  PROVE  /\ AddWord(t, w) \in Chains(S) /\ IsWords(S, Append(ks, w))
         /\ Window(AddWord(t, w), Append(ks, w))
         /\ AddWord(t, w).state = t.state /\ AddWord(t, w).token = t.token
<1> DEFINE m == IF Len(ks) < MaxWordsInList THEN Len(ks) ELSE MaxWordsInList - 1
           u == [t EXCEPT !.offsets = KeptOffsets(t)]
           c == CompactChars(u)
<1>1. /\ u \in Chains(S) /\ m \in 0..Len(ks) /\ Reaches(u, ks, m)
      /\ u.state = t.state /\ u.token = t.token
  BY KeptReaches
<1>2. AddWord(t, w) = WithWord(c, w)
  BY DEF AddWord, WithWord
<1> HIDE DEF u, m
<1>3. /\ c \in Chains(S) /\ Reaches(c, ks, m)
      /\ c.state = t.state /\ c.token = t.token
  BY <1>1, CompactReaches
<1> HIDE DEF c
<1>4. /\ WithWord(c, w) \in Chains(S) /\ Reaches(WithWord(c, w), Append(ks, w), m + 1)
      /\ IsWords(S, Append(ks, w)) /\ Len(Append(ks, w)) = Len(ks) + 1
      /\ WithWord(c, w).state = t.state /\ WithWord(c, w).token = t.token
  BY <1>1, <1>3, WordReaches
<1>5. m + 1 = IF Len(ks) + 1 < MaxWordsInList THEN Len(ks) + 1 ELSE MaxWordsInList
  <2>1. Len(ks) \in Nat /\ MaxWordsInList \in Nat \ {0}
    BY Limits DEF IsWords
  <2> QED
    BY <2>1 DEF m
<1> QED
  BY <1>2, <1>4, <1>5 DEF Window

----------------------------------------------------------------------------
(* The phrases that end in one word *)

LEMMA MaxPair == ASSUME NEW a \in Int, NEW b \in Int
                 PROVE  Max({a, b}) = IF a <= b THEN b ELSE a
<1> DEFINE c == IF a <= b THEN b ELSE a
<1>1. c \in {a, b} /\ \A y \in {a, b} : c >= y
  OBVIOUS
<1>2. \A d \in {a, b} : (\A y \in {a, b} : d >= y) => d = c
  OBVIOUS
<1> QED
  BY <1>1, <1>2 DEF Max

LEMMA MinOf == ASSUME NEW T, T \subseteq Nat, T # {}
               PROVE  Min(T) \in T /\ \A j \in T : Min(T) <= j
<1>1. \E x \in T : \A y \in T : x <= y
  BY Smallest
<1> QED
  BY <1>1 DEF Min

\* A list whose first L entries hold one phrase each, and the others none.
IsCut(ss, p, T, L, N) ==
  /\ N \in Nat /\ L \in 0..N
  /\ \A i \in 1..L : p[i] \in T
  /\ \A i \in 1..N : ss[i] = IF i <= L THEN <<p[i]>> ELSE <<>>

Leading(p, L) == [i \in 1..L |-> p[i]]

LEMMA FlatCut ==
  ASSUME NEW T, NEW ss, NEW p, NEW N, NEW L, IsCut(ss, p, T, L, N)
  PROVE  First(ss, N) = Leading(p, L)
<1> USE DEF IsCut, Leading
<1> DEFINE cut(j) == IF j <= L THEN j ELSE L
           list(j) == [i \in 1..cut(j) |-> p[i]]
           Wrong == {j \in 0..N : First(ss, j) # list(j)}
<1> SUFFICES ASSUME Wrong # {} PROVE FALSE
  <2>1. N \in 0..N /\ N \notin Wrong /\ cut(N) = L
    OBVIOUS
  <2> QED
    BY <2>1
<1>1. PICK j \in Wrong : \A i \in Wrong : j <= i
  <2>1. Wrong \subseteq Nat
    OBVIOUS
  <2> HIDE DEF Wrong
  <2> QED
    BY <2>1, Smallest
<1>2. j \in 0..N /\ First(ss, j) # list(j)
  OBVIOUS
<1>3. j # 0
  <2>1. cut(0) = 0
    OBVIOUS
  <2>2. list(0) = <<>>
    BY <2>1
  <2>3. First(ss, 0) = <<>>
    BY FirstNone
  <2> QED
    BY <1>2, <2>2, <2>3
<1> DEFINE m == j - 1
<1>4. m \in 0..N /\ m \in Nat /\ m + 1 = j /\ ~(j <= m) /\ j \in 1..N
  BY <1>2, <1>3
<1>5. First(ss, m) = list(m)
  BY <1>1, <1>4
<1>6. ss[m + 1] = IF m + 1 <= L THEN <<p[m + 1]>> ELSE <<>>
  BY <1>4
<1>7. ss[m + 1] \in Seq(T)
  <2>1. CASE m + 1 <= L
    <3>1. p[m + 1] \in T
      BY <1>4, <2>1
    <3> QED
      BY <1>6, <2>1, <3>1
  <2>2. CASE ~(m + 1 <= L)
    BY <1>6, <2>2
  <2> QED
    BY <2>1, <2>2
<1>8. First(ss, j) = First(ss, m) \o ss[m + 1]
  BY <1>4, <1>7, FirstNext
<1>9. CASE m + 1 <= L
  <2>1. cut(m) = m /\ cut(j) = m + 1
    BY <1>4, <1>9
  <2>2. list(m) = [i \in 1..m |-> p[i]] /\ list(j) = [i \in 1..m + 1 |-> p[i]]
    BY <2>1
  <2>3. p[m + 1] \in T /\ \A i \in 1..m : p[i] \in T
    BY <1>4, <1>9
  <2> HIDE DEF m
  <2>4. [i \in 1..m |-> p[i]] \o <<p[m + 1]>> = [i \in 1..m + 1 |-> p[i]]
    BY <1>4, <2>3
  <2> QED
    BY <1>2, <1>5, <1>6, <1>8, <1>9, <2>2, <2>4
<1>10. CASE ~(m + 1 <= L)
  <2>1. cut(m) = L /\ cut(j) = L
    BY <1>4, <1>10
  <2>2. list(m) = [i \in 1..L |-> p[i]] /\ list(j) = [i \in 1..L |-> p[i]]
    BY <2>1
  <2>3. [i \in 1..L |-> p[i]] \in Seq(T)
    OBVIOUS
  <2>4. [i \in 1..L |-> p[i]] \o <<>> = [i \in 1..L |-> p[i]]
    BY <2>3, ConcatEmptySeq
  <2> QED
    BY <1>2, <1>5, <1>6, <1>8, <1>10, <2>2, <2>4
<1> QED
  BY <1>9, <1>10

\* The longest phrase that is wanted decides about all.
LEMMA WantedUpTo ==
  ASSUME NEW S, NEW t \in Chains(S), NEW ks, IsWords(S, ks), Len(ks) >= 1, Window(t, ks),
         MinPhraseChars # 0 => MaxPhraseTerms <= MinPhraseChars
  PROVE  LET k == Len(ks)
             stops == {n \in 1..Len(t.offsets) : PhraseTooLong(t, n)}
             limit == IF stops = {} THEN Len(t.offsets) ELSE Min(stops) - 1
         IN  /\ limit \in 0..k /\ limit <= Len(t.offsets)
             /\ \A n \in 1..Len(t.offsets) : PhraseFrom(t, n) = PhraseAt(ks, k, n)
             /\ \A n \in 1..k : Wanted(PhraseAt(ks, k, n), n) <=> n <= limit
<1> DEFINE k == Len(ks)
           l == Len(t.offsets)
           phrase(n) == PhraseAt(ks, k, n)
           stops == {n \in 1..l : PhraseTooLong(t, n)}
           limit == IF stops = {} THEN l ELSE Min(stops) - 1
<1>0. /\ MaxWordsInList \in Nat \ {0} /\ MinPhraseTerms \in Nat \ {0}
      /\ MaxPhraseTerms \in Nat \ {0} /\ MinPhraseChars \in Nat
      /\ MaxPhraseChars \in Nat
  BY Limits
<1>1. k \in Nat /\ k >= 1 /\ k \in 1..Len(ks)
  BY DEF IsWords
<1>2. l = (IF k < MaxWordsInList THEN k ELSE MaxWordsInList) /\ l \in 1..k
  BY <1>0, <1>1 DEF Window, Reaches
<1>3. ASSUME NEW n \in 1..k
      PROVE  Len(phrase(n)) \in Nat /\ Len(phrase(n)) >= 2 * n - 1
  BY <1>1, PhraseFacts
<1>4. ASSUME NEW n \in 1..k, NEW j \in 1..k, n < j
      PROVE  Len(phrase(n)) < Len(phrase(j))
  BY <1>1, <1>4, PhraseGrows
<1>5. ASSUME NEW n \in 1..l
      PROVE  /\ PhraseFrom(t, n) = phrase(n)
             /\ PhraseTooLong(t, n) <=> ~Wanted(phrase(n), n)
  <2>1. t.offsets[n] \in 0..Len(t.chars) /\ Behind(t.chars, t.offsets[n]) = phrase(n)
    BY <1>2 DEF Window, Reaches
  <2>2. PhraseFrom(t, n) = phrase(n)
    BY <2>1 DEF PhraseFrom, Behind
  <2>3. Len(phrase(n)) = Len(t.chars) - t.offsets[n]
    <3>1. t.chars \in Seq(S)
      BY DEF Chains
    <3> QED
      BY <2>1, <3>1, BehindType
  <2> HIDE DEF phrase
  <2>4. PhraseTooLong(t, n) <=> ~Wanted(phrase(n), n)
    <3>1. n \in Nat /\ Len(phrase(n)) \in Nat
      BY <1>1, <1>2, <1>3
    <3> QED
      BY <1>0, <2>3, <3>1 DEF PhraseTooLong, Wanted
  <2> QED
    BY <2>2, <2>4
<1>6. ASSUME NEW n \in 1..k, NEW j \in 1..k, n <= j, ~Wanted(phrase(n), n)
      PROVE  ~Wanted(phrase(j), j)
  <2>1. n = j \/ Len(phrase(n)) < Len(phrase(j))
    BY <1>1, <1>4, <1>6
  <2>2. Len(phrase(n)) \in Nat /\ Len(phrase(j)) \in Nat
    BY <1>3
  <2> HIDE DEF phrase
  <2> QED
    BY <1>0, <1>1, <1>6, <2>1, <2>2 DEF Wanted
<1>7. ASSUME NEW j \in 1..k, j > l
      PROVE  ~Wanted(phrase(j), j)
  <2>1. l = MaxWordsInList
    BY <1>0, <1>1, <1>2, <1>7
  <2>2. j > MaxPhraseTerms /\ (MinPhraseChars = 0 \/ j > MinPhraseChars)
    BY <1>0, <1>1, <1>7, <2>1 DEF MaxWordsInList
  <2>3. Len(phrase(j)) \in Nat /\ Len(phrase(j)) >= 2 * j - 1
    BY <1>3
  <2> HIDE DEF phrase
  <2> QED
    BY <1>0, <1>1, <2>2, <2>3 DEF Wanted
<1> HIDE DEF phrase
<1>8. CASE stops = {}
  <2>1. limit = l
    BY <1>8
  <2>2. \A n \in 1..l : Wanted(phrase(n), n)
    BY <1>5, <1>8
  <2> HIDE DEF limit, stops
  <2>3. ASSUME NEW n \in 1..k PROVE Wanted(phrase(n), n) <=> n <= limit
    BY <1>1, <1>2, <1>7, <2>1, <2>2
  <2> USE DEF limit, stops, phrase
  <2> QED
    BY <1>1, <1>2, <1>5, <2>1, <2>3
<1>9. CASE stops # {}
  <2>1. Min(stops) \in stops /\ \A j \in stops : Min(stops) <= j
    <3>1. stops \subseteq Nat
      OBVIOUS
    <3> HIDE DEF stops
    <3> QED
      BY <1>9, <3>1, MinOf
  <2>2. limit = Min(stops) - 1
    BY <1>9
  <2> DEFINE s == Min(stops)
  <2>3. s \in 1..l /\ PhraseTooLong(t, s) /\ \A j \in 1..l : PhraseTooLong(t, j) => s <= j
    BY <2>1
  <2> HIDE DEF limit, stops, s
  <2>4. limit = s - 1
    BY <2>2 DEF s
  <2>5. limit \in 0..k /\ limit <= l /\ s \in 1..k
    BY <1>1, <1>2, <2>3, <2>4
  <2>6. ~Wanted(phrase(s), s)
    BY <1>5, <2>3
  <2>7. ASSUME NEW n \in 1..k PROVE Wanted(phrase(n), n) <=> n <= limit
    <3>1. CASE s <= n
      BY <1>6, <2>4, <2>5, <2>6, <3>1
    <3>2. CASE n < s
      <4>1. n \in 1..l /\ ~(s <= n) /\ n <= limit
        BY <1>1, <2>3, <2>4, <3>2
      <4> QED
        BY <1>5, <2>3, <4>1
    <3> QED
      BY <2>5, <3>1, <3>2
  <2> USE DEF limit, stops, phrase
  <2> QED
    BY <1>5, <2>5, <2>7
<1> QED
  BY <1>8, <1>9

\* What one number of words contributes to the phrases that end in the k-th word.
Lists(ks, k) ==
  [m \in Int |-> IF Wanted(PhraseAt(ks, k, m + MinPhraseTerms - 1), m + MinPhraseTerms - 1)
                 THEN <<PhraseAt(ks, k, m + MinPhraseTerms - 1)>> ELSE <<>>]

LEMMA WantedIsFirst ==
  ASSUME NEW ks, NEW k \in Nat
  PROVE  WantedAt(ks, k) = First(Lists(ks, k), k - MinPhraseTerms + 1)
<1>1. MinPhraseTerms \in Nat \ {0}
  BY Limits
<1>2. [m \in 1..(k - MinPhraseTerms + 1) |-> Lists(ks, k)[m]]
        = [m \in 1..(k - MinPhraseTerms + 1) |->
            IF Wanted(PhraseAt(ks, k, m + MinPhraseTerms - 1), m + MinPhraseTerms - 1)
            THEN <<PhraseAt(ks, k, m + MinPhraseTerms - 1)>> ELSE <<>>]
  BY <1>1 DEF Lists
<1> QED
  BY <1>2, Zenon DEF WantedAt, First

LEMMA WantedType ==
  ASSUME NEW S, NEW ks, IsWords(S, ks), NEW k \in 1..Len(ks)
  PROVE  WantedAt(ks, k) \in Seq(Seq(S))
<1> DEFINE T == Seq(S)
           N == k - MinPhraseTerms + 1
           ss == Lists(ks, k)
<1>1. MinPhraseTerms \in Nat \ {0} /\ k \in Nat /\ N \in Int
  BY Limits DEF IsWords
<1>2. WantedAt(ks, k) = First(ss, N)
  BY <1>1, WantedIsFirst
<1>3. CASE N <= 0
  <2>1. First(ss, N) = <<>>
    BY <1>1, <1>3, FirstNone
  <2>2. <<>> \in Seq(T)
    OBVIOUS
  <2> QED
    BY <1>2, <2>1, <2>2
<1>4. CASE N > 0
  <2>1. N \in Nat
    BY <1>1, <1>4
  <2>2. ASSUME NEW m \in 1..N PROVE ss[m] \in Seq(T)
    <3>1. m \in Int /\ m + MinPhraseTerms - 1 \in 1..k
      BY <1>1
    <3>2. PhraseAt(ks, k, m + MinPhraseTerms - 1) \in T
      BY <3>1, PhraseFacts
    <3>3. ss[m] = <<PhraseAt(ks, k, m + MinPhraseTerms - 1)>> \/ ss[m] = <<>>
      BY <3>1 DEF Lists
    <3> HIDE DEF T, ss
    <3>4. \A x \in T : <<x>> \in Seq(T) /\ <<>> \in Seq(T)
      OBVIOUS
    <3> QED
      BY <3>2, <3>3, <3>4
  <2> HIDE DEF T, ss, N
  <2>3. First(ss, N) \in Seq(T)
    BY <2>1, <2>2, FirstType
  <2> QED
    BY <1>2, <2>3 DEF T
<1> QED
  BY <1>1, <1>3, <1>4

\* The phrases of the last word, from the window over the last words.
LEMMA PhrasesOfWindow ==
  ASSUME NEW S, NEW t \in Chains(S), NEW ks, IsWords(S, ks), Len(ks) >= 1, Window(t, ks),
         MinPhraseChars # 0 => MaxPhraseTerms <= MinPhraseChars
  PROVE  Phrases(t) = WantedAt(ks, Len(ks))
<1> DEFINE k == Len(ks)
           stops == {n \in 1..Len(t.offsets) : PhraseTooLong(t, n)}
           limit == IF stops = {} THEN Len(t.offsets) ELSE Min(stops) - 1
           T == Seq(S)
           N == k - MinPhraseTerms + 1
           room == limit - MinPhraseTerms + 1
           L == IF room <= 0 THEN 0 ELSE room
           ss == Lists(ks, k)
           p == [m \in 1..L |-> PhraseAt(ks, k, m + MinPhraseTerms - 1)]
<1>1. /\ limit \in 0..k /\ limit <= Len(t.offsets)
      /\ \A n \in 1..Len(t.offsets) : PhraseFrom(t, n) = PhraseAt(ks, k, n)
      /\ \A n \in 1..k : Wanted(PhraseAt(ks, k, n), n) <=> n <= limit
  BY WantedUpTo
<1>2. Phrases(t) = [n \in 1..(Max({room, 0})) |-> PhraseFrom(t, n + MinPhraseTerms - 1)]
  BY DEF Phrases
<1> HIDE DEF limit, stops
<1>3. /\ MinPhraseTerms \in Nat \ {0} /\ k \in Nat /\ N \in Int /\ limit \in Nat /\ limit <= k
      /\ room \in Int /\ room <= N /\ Len(t.offsets) \in Nat /\ L \in Nat
      /\ k \in 1..Len(ks)
  <2>1. Len(t.offsets) \in Nat /\ Len(ks) \in Nat
    BY DEF IsWords, Chains
  <2>2. MinPhraseTerms \in Nat \ {0}
    BY Limits
  <2> QED
    BY <1>1, <2>1, <2>2
<1>4. Max({room, 0}) = L
  BY <1>3, MaxPair
<1>5. ASSUME NEW n \in 1..L
      PROVE  n + MinPhraseTerms - 1 \in 1..k /\ n + MinPhraseTerms - 1 \in 1..Len(t.offsets)
             /\ n + MinPhraseTerms - 1 <= limit
  BY <1>1, <1>3
<1>6. [n \in 1..L |-> PhraseFrom(t, n + MinPhraseTerms - 1)] = p
  BY <1>1, <1>5
<1>7. Phrases(t) = p
  BY <1>2, <1>4, <1>6
<1>8. WantedAt(ks, k) = First(ss, N)
  BY <1>3, WantedIsFirst
<1>9. CASE N <= 0
  <2>1. First(ss, N) = <<>>
    BY <1>3, <1>9, FirstNone
  <2>2. L = 0
    BY <1>3, <1>9
  <2>3. p = <<>>
    BY <2>2
  <2> QED
    BY <1>7, <1>8, <2>1, <2>3
<1>10. CASE N > 0
  <2>1. N \in Nat /\ L \in 0..N
    BY <1>3, <1>10
  <2>2. ASSUME NEW n \in 1..L PROVE p[n] \in T
    <3>1. PhraseAt(ks, k, n + MinPhraseTerms - 1) \in T
      BY <1>3, <1>5, PhraseFacts
    <3> QED
      BY <3>1
  <2>3. ASSUME NEW n \in 1..N PROVE ss[n] = IF n <= L THEN <<p[n]>> ELSE <<>>
    <3>1. n \in Int /\ n + MinPhraseTerms - 1 \in 1..k /\ (n <= L <=> n + MinPhraseTerms - 1 <= limit)
      BY <1>3, <1>10
    <3>2. n <= L => p[n] = PhraseAt(ks, k, n + MinPhraseTerms - 1)
      BY <2>1
    <3>3. Wanted(PhraseAt(ks, k, n + MinPhraseTerms - 1), n + MinPhraseTerms - 1) <=> n <= L
      BY <1>1, <3>1
    <3>4. ss[n] = IF Wanted(PhraseAt(ks, k, n + MinPhraseTerms - 1), n + MinPhraseTerms - 1)
                  THEN <<PhraseAt(ks, k, n + MinPhraseTerms - 1)>> ELSE <<>>
      BY <3>1 DEF Lists
    <3> HIDE DEF L, p, ss
    <3> QED
      BY <3>2, <3>3, <3>4
  <2>4. p = Leading(p, L)
    BY DEF Leading
  <2> HIDE DEF T, N, L, ss, p
  <2>5. First(ss, N) = Leading(p, L)
    <3>1. IsCut(ss, p, T, L, N)
      BY <2>1, <2>2, <2>3 DEF IsCut
    <3> QED
      BY <3>1, FlatCut
  <2> QED
    BY <1>7, <1>8, <2>4, <2>5
<1> QED
  BY <1>3, <1>9, <1>10

\* What has been said about the earlier words stays as it is.
LEMMA WantedSame ==
  ASSUME NEW S, NEW ks \in Seq(S), NEW w \in S, NEW k \in 1..Len(ks)
  PROVE  WantedAt(Append(ks, w), k) = WantedAt(ks, k)
<1> DEFINE N == k - MinPhraseTerms + 1
           vs == Append(ks, w)
<1>1. MinPhraseTerms \in Nat \ {0} /\ k \in Nat
  BY Limits
<1>2. ASSUME NEW m \in 1..N PROVE Lists(vs, k)[m] = Lists(ks, k)[m]
  <2>1. m \in Int /\ m + MinPhraseTerms - 1 \in 1..k
    BY <1>1
  <2>2. PhraseAt(vs, k, m + MinPhraseTerms - 1) = PhraseAt(ks, k, m + MinPhraseTerms - 1)
    BY <2>1, PhraseSame
  <2> QED
    BY <2>1, <2>2 DEF Lists
<1>3. First(Lists(vs, k), N) = First(Lists(ks, k), N)
  BY <1>2, FirstSame
<1> QED
  BY <1>1, <1>3, WantedIsFirst

\* All phrases of a list of words.
Heard(ks) == FlattenSeq([k \in 1..Len(ks) |-> WantedAt(ks, k)])

LEMMA HeardNext ==
  ASSUME NEW S, NEW ks, IsWords(S, ks), NEW w \in Seq(S), IsWords(S, Append(ks, w))
  PROVE  Heard(Append(ks, w)) = Heard(ks) \o WantedAt(Append(ks, w), Len(ks) + 1)
<1> DEFINE T == Seq(S)
           vs == Append(ks, w)
           n == Len(ks)
           ss == [k \in 1..n + 1 |-> WantedAt(vs, k)]
<1>1. n \in Nat /\ Len(vs) = n + 1 /\ ks \in Seq(T) /\ w \in T
  BY DEF IsWords
<1>2. ss[n + 1] = WantedAt(vs, n + 1) /\ ss[n + 1] \in Seq(Seq(S))
  <2>1. n + 1 \in 1..n + 1
    BY <1>1
  <2>2. n + 1 \in 1..Len(vs)
    BY <1>1
  <2> QED
    BY <2>1, <2>2, WantedType
<1>3. Heard(vs) = First(ss, n + 1)
  <2>1. ss = [k \in 1..n + 1 |-> ss[k]]
    OBVIOUS
  <2>2. Heard(vs) = FlattenSeq(ss)
    BY <1>1 DEF Heard
  <2> HIDE DEF ss
  <2> QED
    BY <2>1, <2>2, Zenon DEF First
<1>4. Heard(ks) = First(ss, n)
  <2>1. ASSUME NEW k \in 1..n PROVE ss[k] = WantedAt(ks, k)
    <3>1. k \in 1..n + 1
      BY <1>1
    <3>2. WantedAt(vs, k) = WantedAt(ks, k)
      <4> HIDE DEF T
      <4> QED
        BY <1>1, <2>1, WantedSame
    <3> QED
      BY <3>1, <3>2
  <2>2. [k \in 1..n |-> ss[k]] = [k \in 1..n |-> WantedAt(ks, k)]
    BY <2>1
  <2> QED
    BY <2>2, Zenon DEF Heard, First
<1> HIDE DEF ss
<1>5. First(ss, n + 1) = First(ss, n) \o ss[n + 1]
  BY <1>1, <1>2, FirstNext
<1> QED
  BY <1>2, <1>3, <1>4, <1>5

----------------------------------------------------------------------------
(* The chain of the text, character by character *)

\* The list has room for as many words as a phrase may have. (The defaults and
\* each test case by itself satisfy this; a configuration file need not.)
PhrasesFit == MinPhraseChars # 0 => MaxPhraseTerms <= MinPhraseChars

\* A word is begun exactly in the states in which it can go on.
OnWord(t) == (t.token = <<>>) <=> (t.state \in {"START", "WAITING"})

\* What a character may change of a chain.
With(t, state, token, pending) ==
  [t EXCEPT !.state = state, !.token = token, !.pending = pending]

LEMMA WithFits ==
  ASSUME NEW R, NEW t \in Chains(R), NEW state \in States, NEW token \in Seq(R),
         NEW pending \in Seq(R)
  PROVE  /\ With(t, state, token, pending) \in Chains(R)
         /\ With(t, state, token, pending).state = state
         /\ With(t, state, token, pending).token = token
         /\ With(t, state, token, pending).chars = t.chars
         /\ With(t, state, token, pending).offsets = t.offsets
  BY DEF With, Chains

LEMMA CharStep ==
  ASSUME NEW S, NEW t \in Chains(S), OnWord(t), NEW c
  PROVE  LET u == ProcessCharForState(t, c)
         IN  /\ u \in Chains(S \cup {ToLower(c)})
             /\ u.chars = t.chars /\ u.offsets = t.offsets
             /\ IF EndsWord(u) THEN u.token # <<>> ELSE OnWord(u)
<1> DEFINE R == S \cup {ToLower(c)}
           l == ToLower(c)
<1>1. t \in Chains(R)
  <2>1. \A s \in Seq(S) : s \in Seq(R)
    <3>1. ASSUME NEW s \in Seq(S) PROVE s \in Seq(R)
      <4>1. s \in [1..Len(s) -> R] /\ Len(s) \in Nat
        OBVIOUS
      <4> QED
        BY <4>1, SeqDef
    <3> QED
      BY <3>1
  <2> HIDE DEF R
  <2> QED
    BY <2>1 DEF Chains
<1>2. l \in R
  OBVIOUS
<1> HIDE DEF R, l
<1>3. \A a, b \in Seq(R) : /\ Append(a, l) \in Seq(R) /\ Append(a, l) # <<>>
                           /\ a \o <<l>> \in Seq(R) /\ a \o <<l>> # <<>>
                           /\ a \o b \o <<l>> \in Seq(R) /\ a \o b \o <<l>> # <<>>
  <2>1. ASSUME NEW a \in Seq(R)
        PROVE  /\ Append(a, l) \in Seq(R) /\ Append(a, l) # <<>>
               /\ a \o <<l>> = Append(a, l)
    BY <1>2
  <2> QED
    BY <2>1, ConcatProperties
<1>4. <<>> \in Seq(R)
  OBVIOUS
<1>5. ASSUME NEW v \in Chains(R), v.state \in {"START", "WAITING"}, v.token = <<>>
      PROVE  LET u == ProcessWaiting(v, c)
             IN  /\ u \in Chains(R) /\ u.chars = v.chars /\ u.offsets = v.offsets
                 /\ u.state # "START" /\ OnWord(u)
  <2>1. v.token \o <<l>> \in Seq(R) /\ v.token \o <<l>> # <<>>
    BY <1>3, <1>5 DEF Chains
  <2> DEFINE n == v.token \o <<l>>
  <2>2. CASE c = Dollar \/ IsLetterChar(c)
    <3>1. ProcessWaiting(v, c) = [v EXCEPT !.state = "IN_WORD", !.token = n]
      BY <2>2 DEF ProcessWaiting, l
    <3> HIDE DEF n
    <3> QED
      BY <2>1, <3>1 DEF Chains, OnWord, States, n
  <2>3. CASE ~(c = Dollar \/ IsLetterChar(c))
    <3>1. ProcessWaiting(v, c) = [v EXCEPT !.state = "WAITING"]
      BY <2>3 DEF ProcessWaiting
    <3> QED
      BY <1>5, <3>1 DEF Chains, OnWord, States
  <2> QED
    BY <2>2, <2>3
<1>6. ASSUME NEW state \in States \ {"WAITING"}, NEW token \in Seq(R), NEW pending \in Seq(R),
              token # <<>>, ProcessCharForState(t, c) = With(t, state, token, pending)
       PROVE  LET u == ProcessCharForState(t, c)
              IN  /\ u \in Chains(S \cup {ToLower(c)})
                  /\ u.chars = t.chars /\ u.offsets = t.offsets
                  /\ IF EndsWord(u) THEN u.token # <<>> ELSE OnWord(u)
  <2> DEFINE u == ProcessCharForState(t, c)
  <2>1. /\ u \in Chains(R) /\ u.state = state /\ u.token = token
        /\ u.chars = t.chars /\ u.offsets = t.offsets
    BY <1>1, <1>6, WithFits
  <2> HIDE DEF u
  <2>2. IF EndsWord(u) THEN u.token # <<>> ELSE OnWord(u)
    BY <1>6, <2>1 DEF EndsWord, OnWord
  <2> USE DEF u
  <2> QED
    BY <2>1, <2>2 DEF R
<1>7. CASE t.state = "START"
  <2> DEFINE v == [t EXCEPT !.token = <<>>, !.pending = <<>>]
  <2>1. /\ v \in Chains(R) /\ v.state = "START" /\ v.token = <<>>
        /\ v.chars = t.chars /\ v.offsets = t.offsets
    BY <1>1, <1>4, <1>7 DEF Chains
  <2>2. ProcessCharForState(t, c) = ProcessWaiting(v, c)
    BY <1>7 DEF ProcessCharForState, ProcessStart
  <2> HIDE DEF v
  <2> QED
    BY <1>5, <2>1, <2>2 DEF EndsWord, R
<1>8. CASE t.state = "WAITING"
  <2>1. t.token = <<>>
    BY <1>8 DEF OnWord
  <2>2. ProcessCharForState(t, c) = ProcessWaiting(t, c)
    BY <1>8 DEF ProcessCharForState
  <2> QED
    BY <1>1, <1>5, <1>8, <2>1, <2>2 DEF EndsWord, R
<1>9. CASE t.state = "IN_WORD"
  <2>1. t.token # <<>> /\ t.token \in Seq(R) /\ t.pending \in Seq(R)
    BY <1>1, <1>9 DEF OnWord, Chains
  <2>2. ProcessCharForState(t, c) = ProcessInWord(t, c)
    BY <1>9 DEF ProcessCharForState
  <2> DEFINE n == Append(t.token, l)
             q == Append(t.pending, l)
  <2>3. n \in Seq(R) /\ n # <<>> /\ q \in Seq(R)
    BY <1>3, <2>1
  <2>4. \/ ProcessInWord(t, c) = With(t, "IN_WORD", n, t.pending)
        \/ ProcessInWord(t, c) = With(t, "PENDING", t.token, q)
        \/ ProcessInWord(t, c) = With(t, "START", t.token, t.pending)
    BY <1>1, <1>9 DEF ProcessInWord, With, Chains, l
  <2> HIDE DEF n, q
  <2>5. {"IN_WORD", "PENDING", "START"} \subseteq States \ {"WAITING"}
    BY DEF States
  <2> QED
    BY <1>6, <2>1, <2>2, <2>3, <2>4, <2>5
<1>10. CASE t.state = "PENDING"
  <2>1. t.token # <<>> /\ t.token \in Seq(R) /\ t.pending \in Seq(R)
    BY <1>1, <1>10 DEF OnWord, Chains
  <2>2. ProcessCharForState(t, c) = ProcessPending(t, c)
    BY <1>10 DEF ProcessCharForState
  <2> DEFINE n == t.token \o t.pending \o <<l>>
             q == Append(t.pending, l)
  <2>3. n \in Seq(R) /\ n # <<>> /\ q \in Seq(R)
    BY <1>3, <2>1
  <2>4. \/ ProcessPending(t, c) = With(t, "IN_WORD", n, <<>>)
        \/ ProcessPending(t, c) = With(t, "PENDING", t.token, q)
        \/ ProcessPending(t, c) = With(t, "START", t.token, <<>>)
    BY <1>1, <1>10 DEF ProcessPending, With, Chains, l
  <2> HIDE DEF n, q
  <2>5. {"IN_WORD", "PENDING", "START"} \subseteq States \ {"WAITING"}
    BY DEF States
  <2> QED
    BY <1>4, <1>6, <2>1, <2>2, <2>3, <2>4, <2>5
<1>11. t.state \in States
  BY DEF Chains
<1> QED
  BY <1>7, <1>8, <1>9, <1>10, <1>11 DEF States, R

LEMMA HeardType ==
  ASSUME NEW S, NEW ks, IsWords(S, ks)
  PROVE  Heard(ks) \in Seq(Seq(S))
<1> DEFINE n == Len(ks)
           ss == [k \in 1..n |-> WantedAt(ks, k)]
<1>1. n \in Nat
  BY DEF IsWords
<1>2. \A k \in 1..n : ss[k] \in Seq(Seq(S))
  BY WantedType
<1>3. Heard(ks) = First(ss, n)
  <2>1. ss = [k \in 1..n |-> ss[k]]
    OBVIOUS
  <2>2. Heard(ks) = FlattenSeq(ss)
    BY DEF Heard
  <2> HIDE DEF ss
  <2> QED
    BY <2>1, <2>2, Zenon DEF First
<1> HIDE DEF ss, n
<1> QED
  BY <1>1, <1>2, <1>3, FirstType

\* The words that have passed the filter when one more has been found.
Passed(ks, w) == IF Accepts(w) THEN Append(ks, w) ELSE ks

LEMMA WordSent ==
  ASSUME PhrasesFit, NEW S, NEW t \in Chains(S), t.token # <<>>,
         NEW ks, IsWords(S, ks), Window(t, ks)
  PROVE  /\ SendToken(t) \in Chains(S)
         /\ SendToken(t).state = t.state /\ SendToken(t).token = <<>>
         /\ IsWords(S, Passed(ks, t.token))
         /\ Window(SendToken(t), Passed(ks, t.token))
         /\ Heard(Passed(ks, t.token)) = Heard(ks) \o SentPhrases(t)
<1> DEFINE v == [t EXCEPT !.token = <<>>]
           w == t.token
           vs == Append(ks, w)
           u == AddWord(v, w)
<1>1. /\ v \in Chains(S) /\ v.state = t.state /\ v.token = <<>>
      /\ v.chars = t.chars /\ v.offsets = t.offsets /\ w \in Seq(S)
  <2>1. <<>> \in Seq(S)
    OBVIOUS
  <2> QED
    BY <2>1 DEF Chains
<1>2. SendToken(t) = IF Accepts(w) THEN u ELSE v
  BY DEF SendToken
<1>3. SentPhrases(t) = IF Accepts(w) THEN Phrases(SendToken(t)) ELSE <<>>
  BY DEF SentPhrases
<1>4. Passed(ks, w) = IF Accepts(w) THEN vs ELSE ks
  BY DEF Passed
<1> HIDE DEF v
<1>5. Window(v, ks)
  <2>1. \A m : Reaches(t, ks, m) => Reaches(v, ks, m)
    BY <1>1, Zenon DEF Reaches
  <2> QED
    BY <2>1, Zenon DEF Window
<1>6. CASE Accepts(w)
  <2>1. /\ u \in Chains(S) /\ IsWords(S, vs) /\ Window(u, vs)
        /\ u.state = v.state /\ u.token = v.token
    BY <1>1, <1>5, WindowAdd
  <2>2. Len(vs) = Len(ks) + 1 /\ Len(ks) \in Nat
    BY <1>1 DEF IsWords
  <2>3. Len(vs) >= 1
    BY <2>2
  <2> HIDE DEF u, vs
  <2>4. Phrases(u) = WantedAt(vs, Len(vs))
    BY <2>1, <2>3, PhrasesOfWindow DEF PhrasesFit
  <2>5. Heard(vs) = Heard(ks) \o WantedAt(vs, Len(ks) + 1)
    BY <1>1, <2>1, HeardNext DEF vs
  <2> QED
    BY <1>1, <1>2, <1>3, <1>4, <1>6, <2>1, <2>2, <2>4, <2>5
<1>7. CASE ~Accepts(w)
  <2>1. Heard(ks) \o <<>> = Heard(ks)
    BY HeardType, ConcatEmptySeq
  <2> QED
    BY <1>1, <1>2, <1>3, <1>4, <1>5, <1>7, <2>1
<1> QED
  BY <1>6, <1>7

\* What the text's chain remembers is the window over the words that passed, and
\* what has been heard are the phrases of all of them.
TextIn(S) ==
  /\ text \in Chains(S)
  /\ words \in Seq(Seq(S))
  /\ IsWords(S, Kept(words))
  /\ Window(text, Kept(words))
  /\ heard = Heard(Kept(words))
  /\ scan # "idle" => OnWord(text)

TextInv == \E S : TextIn(S)

LEMMA StartFits == Start \in Chains({Space}) /\ OnWord(Start) /\ IsWords({Space}, <<>>)
                   /\ Window(Start, <<>>) /\ Kept(<<>>) = <<>> /\ Heard(<<>>) = <<>>
<1>1. Start \in Chains({Space})
  <2>1. <<>> \in Seq({Space}) /\ <<>> \in Seq(Nat)
    OBVIOUS
  <2> QED
    BY <2>1 DEF Start, Chains, States
<1>2. OnWord(Start)
  BY DEF OnWord, Start
<1>3. IsWords({Space}, <<>>)
  BY DEF IsWords
<1>4. Window(Start, <<>>)
  <2>1. MaxWordsInList \in Nat \ {0} /\ Len(<<>>) = 0
    BY Limits
  <2>2. Reaches(Start, <<>>, 0)
    BY DEF Reaches, Start
  <2> QED
    BY <2>1, <2>2 DEF Window
<1>5. Kept(<<>>) = <<>>
  <2>1. <<>> \in Seq(Seq({Space})) /\ <<>> \in Seq({Space})
    OBVIOUS
  <2> QED
    BY <2>1, KeptNext
<1>6. Heard(<<>>) = <<>>
  <2>1. [k \in 1..Len(<<>>) |-> WantedAt(<<>>, k)] = <<>>
    OBVIOUS
  <2> QED
    BY <2>1, FlatNothing DEF Heard
<1> QED
  BY <1>1, <1>2, <1>3, <1>4, <1>5, <1>6

\* A word of the text is complete.
LEMMA WordStep ==
  ASSUME PhrasesFit, NEW S, NEW t \in Chains(S), t.token # <<>>,
         words \in Seq(Seq(S)), IsWords(S, Kept(words)), Window(t, Kept(words)),
         heard = Heard(Kept(words)), TextWord(t)
  PROVE  /\ text' \in Chains(S) /\ text'.state = t.state /\ text'.token = <<>>
         /\ words' \in Seq(Seq(S)) /\ IsWords(S, Kept(words'))
         /\ Window(text', Kept(words')) /\ heard' = Heard(Kept(words'))
<1> DEFINE T == Seq(S)
<1>1. t.token \in Seq(S)
  BY DEF Chains
<1>2. /\ text' = SendToken(t) /\ words' = Append(words, t.token)
      /\ heard' = heard \o SentPhrases(t)
  BY DEF TextWord
<1>3. words' \in Seq(Seq(S))
  <2>1. t.token \in T /\ words \in Seq(T)
    BY <1>1
  <2> HIDE DEF T
  <2>2. words' \in Seq(T)
    BY <1>2, <2>1
  <2> QED
    BY <2>2 DEF T
<1>4. Kept(words') = Passed(Kept(words), t.token)
  BY <1>1, <1>2, KeptNext DEF Passed
<1>5. /\ SendToken(t) \in Chains(S)
      /\ SendToken(t).state = t.state /\ SendToken(t).token = <<>>
      /\ IsWords(S, Passed(Kept(words), t.token))
      /\ Window(SendToken(t), Passed(Kept(words), t.token))
      /\ Heard(Passed(Kept(words), t.token)) = Heard(Kept(words)) \o SentPhrases(t)
  BY WordSent
<1> QED
  BY <1>2, <1>3, <1>4, <1>5

\* More characters may be used than are.
LEMMA MoreChars ==
  ASSUME NEW S, NEW R, S \subseteq R
  PROVE  /\ \A ks \in Seq(Seq(S)) : ks \in Seq(Seq(R))
         /\ \A ks : IsWords(S, ks) => IsWords(R, ks)
<1>1. ASSUME NEW A, NEW B, A \subseteq B, NEW s \in Seq(A) PROVE s \in Seq(B)
  <2>1. s \in [1..Len(s) -> B] /\ Len(s) \in Nat
    BY <1>1
  <2> QED
    BY <2>1, SeqDef
<1>2. Seq(S) \subseteq Seq(R)
  BY <1>1
<1>3. \A ks \in Seq(Seq(S)) : ks \in Seq(Seq(R))
  BY <1>1, <1>2
<1> QED
  BY <1>3 DEF IsWords

LEMMA TextStep == ASSUME PhrasesFit, TextInv, [Next]_vars PROVE TextInv'
<1>1. PICK S : TextIn(S)
  BY DEF TextInv
<1> DEFINE Same == UNCHANGED <<text, words, heard>>
<1>2. ASSUME Same, scan' # "idle" => scan # "idle" PROVE TextInv'
  <2>1. TextIn(S)'
    BY <1>1, <1>2 DEF TextIn
  <2> QED
    BY <2>1 DEF TextInv
<1>3. CASE StartPart
  <2>1. text' = Start /\ words' = <<>> /\ heard' = <<>>
    BY <1>3 DEF StartPart
  <2>2. TextIn({Space})'
    <3>1. <<>> \in Seq(Seq({Space}))
      OBVIOUS
    <3> QED
      BY <2>1, <3>1, StartFits DEF TextIn
  <2> QED
    BY <2>2 DEF TextInv
<1>4. CASE ReadChar
  BY <1>2, <1>4 DEF ReadChar, chainVars
<1>5. CASE ReadEntity
  BY <1>2, <1>5 DEF ReadEntity, chainVars
<1>6. CASE ReadTag
  BY <1>2, <1>6 DEF ReadTag
<1>7. CASE TokenizeChar
  <2> DEFINE c == CurrentChar(ch)
             t == ProcessCharForState(text, c)
  <2>1. /\ scan = "char" /\ scan' = "read"
        /\ IF EndsWord(t) THEN TextWord(t) ELSE text' = t /\ UNCHANGED <<words, heard, queue>>
    BY <1>7 DEF TokenizeChar
  <2>2. text \in Chains(S) /\ OnWord(text)
    BY <1>1, <2>1 DEF TextIn
  <2>0. PICK R : R = S \cup {ToLower(c)}
    OBVIOUS
  <2>3. /\ t \in Chains(R) /\ t.chars = text.chars /\ t.offsets = text.offsets
        /\ IF EndsWord(t) THEN t.token # <<>> ELSE OnWord(t)
    BY <2>2, <2>0, CharStep
  <2>4. words \in Seq(Seq(R)) /\ IsWords(R, Kept(words)) /\ heard = Heard(Kept(words))
    <3>1. S \subseteq R
      BY <2>0
    <3> QED
      BY <1>1, <3>1, MoreChars DEF TextIn
  <2> HIDE DEF t
  <2>5. Window(t, Kept(words))
    <3>1. \A ks, m : Reaches(text, ks, m) => Reaches(t, ks, m)
      BY <2>3, Zenon DEF Reaches
    <3>2. Window(text, Kept(words))
      BY <1>1 DEF TextIn
    <3> QED
      BY <3>1, <3>2, Zenon DEF Window
  <2>6. CASE EndsWord(t)
    <3>1. TextWord(t) /\ t.token # <<>>
      BY <2>1, <2>3, <2>6
    <3>2. /\ text' \in Chains(R) /\ text'.state = t.state /\ text'.token = <<>>
          /\ words' \in Seq(Seq(R)) /\ IsWords(R, Kept(words'))
          /\ Window(text', Kept(words')) /\ heard' = Heard(Kept(words'))
      BY <2>3, <2>4, <2>5, <3>1, WordStep
    <3>3. OnWord(text')
      BY <2>6, <3>2 DEF OnWord, EndsWord
    <3>4. TextIn(R)'
      BY <3>2, <3>3 DEF TextIn, OnWord
    <3> QED
      BY <3>4 DEF TextInv
  <2>7. CASE ~EndsWord(t)
    <3>1. text' = t /\ words' = words /\ heard' = heard /\ OnWord(t)
      BY <2>1, <2>3, <2>7
    <3>2. TextIn(R)'
      BY <2>3, <2>4, <2>5, <3>1 DEF TextIn
    <3> QED
      BY <3>2 DEF TextInv
  <2> QED
    BY <2>6, <2>7
<1>8. CASE EndOfText
  <2>1. /\ scan' = "idle"
        /\ IF text.token # <<>> THEN TextWord(text) ELSE UNCHANGED <<text, words, heard, queue>>
    BY <1>8 DEF EndOfText
  <2>2. CASE text.token # <<>>
    <3>1. /\ text \in Chains(S) /\ words \in Seq(Seq(S)) /\ IsWords(S, Kept(words))
          /\ Window(text, Kept(words)) /\ heard = Heard(Kept(words)) /\ TextWord(text)
      BY <1>1, <2>1, <2>2 DEF TextIn
    <3>2. /\ text' \in Chains(S) /\ words' \in Seq(Seq(S)) /\ IsWords(S, Kept(words'))
          /\ Window(text', Kept(words')) /\ heard' = Heard(Kept(words'))
      BY <2>2, <3>1, WordStep
    <3>3. TextIn(S)'
      BY <2>1, <3>2 DEF TextIn
    <3> QED
      BY <3>3 DEF TextInv
  <2>3. CASE text.token = <<>>
    BY <1>2, <2>1, <2>3
  <2> QED
    BY <2>2, <2>3
<1>9. CASE TagChar
  BY <1>2, <1>9 DEF TagChar, htmlVars
<1>10. CASE TagEnd
  BY <1>2, <1>10 DEF TagEnd, htmlVars
<1>11. CASE AddTerm
  BY <1>2, <1>11 DEF AddTerm, htmlVars, chainVars
<1>12. CASE UNCHANGED vars
  BY <1>2, <1>12 DEF vars, htmlVars, chainVars
<1> QED
  BY <1>3, <1>4, <1>5, <1>6, <1>7, <1>8, <1>9, <1>10, <1>11, <1>12 DEF Next, Stop

LEMMA TextInit == ASSUME Init PROVE TextInv
<1>1. <<>> \in Seq(Seq({Space}))
  OBVIOUS
<1>2. TextIn({Space})
  BY <1>1, StartFits DEF Init, TextIn
<1> QED
  BY <1>2 DEF TextInv

(* Whatever the text, and wherever its tags and its ends of lines are, the  *)
(* parser receives exactly the phrases of the words that pass the filter,   *)
(* when the list has room for the words of a phrase. (PhrasingTokenizer)    *)
THEOREM PhrasesAlwaysExact == ASSUME PhrasesFit PROVE TextSpec => []PhrasesExact
<1>1. Init => TextInv
  BY TextInit
<1>2. TextInv /\ [Next]_vars => TextInv'
  BY TextStep
<1>3. TextInv => PhrasesExact
  BY Zenon DEF TextInv, TextIn, PhrasesExact, Heard
<1> QED
  BY <1>1, <1>2, <1>3, PTL DEF TextSpec

----------------------------------------------------------------------------
(* The terms of a message *)

\* The terms of a list that are in a set, in their order.
Filtered(d, F) == FlattenSeq([i \in 1..Len(d) |-> IF d[i] \in F THEN <<d[i]>> ELSE <<>>])

\* One more term in a list is one more in what is left of it, or none.
FilteredWith(d, x, F) ==
  Filtered(Append(d, x), F) = IF x \in F THEN Append(Filtered(d, F), x) ELSE Filtered(d, F)

LEMMA FilteredNext ==
  ASSUME NEW S, NEW d \in Seq(S), NEW x \in S, NEW F
  PROVE  FilteredWith(d, x, F)
<1> DEFINE e == Append(d, x)
           ss == [i \in 1..Len(e) |-> IF e[i] \in F THEN <<e[i]>> ELSE <<>>]
           n == Len(d)
<1>1. /\ n \in Nat /\ e \in Seq(S) /\ Len(e) = n + 1 /\ e[n + 1] = x
      /\ \A i \in 1..n : e[i] = d[i]
      /\ \A i \in 1..n + 1 : e[i] \in S
  OBVIOUS
<1> HIDE DEF e
<1>2. \A i \in 1..n + 1 : ss[i] = IF e[i] \in F THEN <<e[i]>> ELSE <<>>
  BY <1>1
<1>3. \A y \in S : <<y>> \in Seq(S) /\ <<>> \in Seq(S)
  OBVIOUS
<1>4. \A i \in 1..n + 1 : ss[i] \in Seq(S)
  BY <1>1, <1>2, <1>3
<1>5. Filtered(e, F) = First(ss, n + 1)
  <2>1. ss = [i \in 1..n + 1 |-> ss[i]]
    BY <1>1
  <2> QED
    BY <2>1, Zenon DEF Filtered, First
<1>6. Filtered(d, F) = First(ss, n)
  <2>1. [i \in 1..n |-> ss[i]] = [i \in 1..n |-> IF d[i] \in F THEN <<d[i]>> ELSE <<>>]
    BY <1>1, <1>2
  <2> QED
    BY <2>1, Zenon DEF Filtered, First
<1> HIDE DEF ss
<1>7. n + 1 \in 1..n + 1 /\ \A i \in 1..n : i \in 1..n + 1
  BY <1>1
<1>8. First(ss, n) \in Seq(S)
  <2>1. \A i \in 1..n : ss[i] \in Seq(S)
    BY <1>4, <1>7
  <2> QED
    BY <1>1, <2>1, FirstType
<1>9. First(ss, n + 1) = First(ss, n) \o ss[n + 1]
  BY <1>1, <1>4, <1>7, FirstNext
<1>10. \A y : First(ss, n) \o <<y>> = Append(First(ss, n), y) /\ First(ss, n) \o <<>> = First(ss, n)
  BY <1>8
<1> QED
  BY <1>1, <1>2, <1>5, <1>6, <1>7, <1>8, <1>9, <1>10 DEF e, FilteredWith

LEMMA FilteredSame ==
  ASSUME NEW d, NEW F, NEW G, \A i \in 1..Len(d) : d[i] \in F <=> d[i] \in G
  PROVE  Filtered(d, F) = Filtered(d, G)
<1>1. [i \in 1..Len(d) |-> IF d[i] \in F THEN <<d[i]>> ELSE <<>>]
        = [i \in 1..Len(d) |-> IF d[i] \in G THEN <<d[i]>> ELSE <<>>]
  OBVIOUS
<1> QED
  BY <1>1, Zenon DEF Filtered

\* The places where a term comes for the first time.
News(d, i) == {j \in 1..i : NewAt(d, j)}

LEMMA NewsFinite ==
  ASSUME NEW d, NEW i \in Nat
  PROVE  /\ IsFiniteSet(News(d, i)) /\ Cardinality(News(d, i)) \in Nat
         /\ RankAt(d, i) = Cardinality(News(d, i))
         /\ \A j \in 0..i : RankAt(d, j) \in Nat /\ RankAt(d, j) <= RankAt(d, i)
<1>1. \A j \in Nat : IsFiniteSet(1..j)
  BY FS_Interval
<1>2. \A j \in Nat : IsFiniteSet(News(d, j)) /\ Cardinality(News(d, j)) \in Nat
  <2>1. \A j \in Nat : News(d, j) \subseteq 1..j
    BY DEF News
  <2> QED
    BY <1>1, <2>1, FS_Subset, FS_CardinalityType
<1>3. \A j : RankAt(d, j) = Cardinality(News(d, j))
  BY DEF RankAt, News
<1>4. ASSUME NEW j \in 0..i PROVE Cardinality(News(d, j)) <= Cardinality(News(d, i))
  <2>1. News(d, j) \subseteq News(d, i)
    BY DEF News
  <2> QED
    BY <1>2, <2>1, FS_Subset
<1> QED
  BY <1>2, <1>3, <1>4

\* Every term has come for the first time somewhere.
LEMMA FirstPlace ==
  ASSUME NEW d, NEW i \in Nat, i # 0
  PROVE  \E j \in 1..i : d[j] = d[i] /\ NewAt(d, j)
<1> DEFINE P == {j \in 1..i : d[j] = d[i]}
<1>1. PICK j \in P : \A k \in P : j <= k
  <2>1. P \subseteq Nat /\ i \in P
    OBVIOUS
  <2> HIDE DEF P
  <2> QED
    BY <2>1, Smallest
<1>2. j \in 1..i /\ d[j] = d[i]
  OBVIOUS
<1>3. ASSUME NEW k \in 1..(j - 1) PROVE d[k] # d[j]
  <2>1. k \in 1..i /\ ~(j <= k)
    BY <1>2
  <2> QED
    BY <1>1, <1>2, <2>1
<1> QED
  BY <1>2, <1>3 DEF NewAt

\* One more term.
LEMMA NewsNext ==
  ASSUME NEW S, NEW d \in Seq(S), NEW x \in S
  PROVE  LET e == Append(d, x)
             n == Len(d)
             new == \A i \in 1..n : d[i] # x
         IN  /\ \A i \in 1..n : (NewAt(e, i) <=> NewAt(d, i)) /\ RankAt(e, i) = RankAt(d, i)
             /\ NewAt(e, n + 1) <=> new
             /\ RankAt(e, n + 1) = RankAt(d, n) + (IF new THEN 1 ELSE 0)
<1> DEFINE e == Append(d, x)
           n == Len(d)
           new == \A i \in 1..n : d[i] # x
<1>1. /\ n \in Nat /\ e[n + 1] = x /\ \A i \in 1..n : e[i] = d[i]
  OBVIOUS
<1> HIDE DEF e, n
<1>2. ASSUME NEW i \in 1..n PROVE NewAt(e, i) <=> NewAt(d, i)
  <2>1. \A j \in 1..(i - 1) : j \in 1..n
    BY <1>1
  <2> QED
    BY <1>1, <2>1 DEF NewAt
<1>3. ASSUME NEW i \in 0..n PROVE News(e, i) = News(d, i)
  <2>1. \A j \in 1..i : j \in 1..n
    BY <1>1
  <2> QED
    BY <1>2, <2>1 DEF News
<1>4. \A i \in 0..n : RankAt(e, i) = RankAt(d, i)
  BY <1>3 DEF RankAt, News
<1>5. NewAt(e, n + 1) <=> new
  <2>1. 1..((n + 1) - 1) = 1..n
    BY <1>1
  <2> QED
    BY <1>1, <2>1 DEF NewAt
<1>6. RankAt(e, n + 1) = RankAt(d, n) + (IF new THEN 1 ELSE 0)
  <2>1. /\ IsFiniteSet(News(d, n)) /\ Cardinality(News(d, n)) \in Nat
        /\ RankAt(d, n) = Cardinality(News(d, n))
    BY <1>1, NewsFinite
  <2>2. RankAt(e, n + 1) = Cardinality(News(e, n + 1))
    BY <1>1, NewsFinite
  <2>3. News(e, n) = News(d, n) /\ n + 1 \notin News(e, n)
    <3>1. n \in 0..n /\ n + 1 \notin 1..n
      BY <1>1
    <3> QED
      BY <1>3, <3>1 DEF News
  <2>4. News(e, n + 1) = IF new THEN News(e, n) \cup {n + 1} ELSE News(e, n)
    <3>1. 1..(n + 1) = (1..n) \cup {n + 1}
      BY <1>1
    <3> HIDE DEF new
    <3> QED
      BY <1>5, <3>1 DEF News
  <2>5. Cardinality(News(d, n) \cup {n + 1}) = Cardinality(News(d, n)) + 1
    BY <2>1, <2>3, FS_AddElement
  <2> HIDE DEF new
  <2>6. CASE new
    BY <2>1, <2>2, <2>3, <2>4, <2>5, <2>6
  <2>7. CASE ~new
    BY <2>1, <2>2, <2>3, <2>4, <2>7
  <2> QED
    BY <2>6, <2>7
<1>7. \A i \in 1..n : RankAt(e, i) = RankAt(d, i)
  BY <1>1, <1>4
<1> USE DEF e, n
<1> QED
  BY <1>2, <1>5, <1>6, <1>7

\* How many different terms there are in a list.
Different(d) == RankAt(d, Len(d))

\* Either all terms are among the first ones, or as many as there may be.
TermsIn(S) ==
  /\ delivered \in Seq(S) /\ order \in Seq(S)
  /\ order = Filtered(delivered, FirstTerms(delivered))
  /\ ToSet(order) = FirstTerms(delivered)
  /\ IsFiniteSet(FirstTerms(delivered))
  /\ Cardinality(FirstTerms(delivered)) =
       IF MaxTermsPerMessage = 0 \/ Different(delivered) <= MaxTermsPerMessage
       THEN Different(delivered) ELSE MaxTermsPerMessage

TermsInv == \E S : TermsIn(S)

\* The first terms when one more has come.
LEMMA FirstTermsNext ==
  ASSUME NEW S, NEW d \in Seq(S), NEW x \in S
  PROVE  LET e == Append(d, x)
             new == \A i \in 1..Len(d) : d[i] # x
         IN  /\ Different(d) \in Nat
             /\ Different(e) = Different(d) + (IF new THEN 1 ELSE 0)
             /\ FirstTerms(e) =
                  IF new /\ (MaxTermsPerMessage = 0 \/ Different(d) + 1 <= MaxTermsPerMessage)
                  THEN FirstTerms(d) \cup {x} ELSE FirstTerms(d)
<1> DEFINE e == Append(d, x)
           n == Len(d)
           new == \A i \in 1..n : d[i] # x
           D == Different(d)
           M == MaxTermsPerMessage
           early(c, i) == NewAt(c, i) /\ (M = 0 \/ RankAt(c, i) <= M)
<1>1. /\ n \in Nat /\ e \in Seq(S) /\ Len(e) = n + 1 /\ e[n + 1] = x
      /\ \A i \in 1..n : e[i] = d[i]
  OBVIOUS
<1>2. /\ \A i \in 1..n : (NewAt(e, i) <=> NewAt(d, i)) /\ RankAt(e, i) = RankAt(d, i)
      /\ NewAt(e, n + 1) <=> new
      /\ RankAt(e, n + 1) = RankAt(d, n) + (IF new THEN 1 ELSE 0)
  BY NewsNext
<1>3. D \in Nat /\ D = RankAt(d, n) /\ Different(e) = RankAt(e, n + 1)
  <2>1. D = RankAt(d, n) /\ Different(e) = RankAt(e, n + 1)
    BY <1>1 DEF Different
  <2>2. RankAt(d, n) \in Nat
    BY <1>1, NewsFinite
  <2> QED
    BY <2>1, <2>2
<1>4. /\ FirstTerms(d) = {d[i] : i \in {i \in 1..n : early(d, i)}}
      /\ FirstTerms(e) = {e[i] : i \in {i \in 1..n + 1 : early(e, i)}}
  BY <1>1 DEF FirstTerms
<1> HIDE DEF e, new, n, D, M
<1>5. \A i \in 1..n : early(e, i) <=> early(d, i)
  BY <1>2
<1>6. early(e, n + 1) <=> new /\ (M = 0 \/ D + 1 <= M)
  BY <1>2, <1>3
<1> HIDE DEF early
<1>7. 1..n + 1 = (1..n) \cup {n + 1}
  BY <1>1
<1>8. FirstTerms(e) = IF new /\ (M = 0 \/ D + 1 <= M)
                      THEN FirstTerms(d) \cup {x} ELSE FirstTerms(d)
  <2>1. ASSUME NEW y
        PROVE  y \in FirstTerms(e) <=>
                 y \in FirstTerms(d) \/ (y = x /\ new /\ (M = 0 \/ D + 1 <= M))
    <3>1. y \in FirstTerms(e) <=> \E i \in 1..n + 1 : early(e, i) /\ y = e[i]
      BY <1>4
    <3>2. y \in FirstTerms(d) <=> \E i \in 1..n : early(d, i) /\ y = d[i]
      BY <1>4
    <3>3. (\E i \in 1..n + 1 : early(e, i) /\ y = e[i])
            <=> (\E i \in 1..n : early(e, i) /\ y = e[i]) \/ (early(e, n + 1) /\ y = e[n + 1])
      BY <1>7
    <3>4. (\E i \in 1..n : early(e, i) /\ y = e[i]) <=> (\E i \in 1..n : early(d, i) /\ y = d[i])
      BY <1>1, <1>5
    <3> QED
      BY <1>1, <1>6, <3>1, <3>2, <3>3, <3>4
  <2> QED
    BY <2>1
<1>9. Different(e) = D + (IF new THEN 1 ELSE 0)
  BY <1>2, <1>3
<1> QED
  BY <1>3, <1>8, <1>9 DEF e, new, n, D, M

\* While not too many different terms have come, all of them are first terms.
LEMMA AllFirst ==
  ASSUME NEW S, NEW d \in Seq(S),
         MaxTermsPerMessage = 0 \/ Different(d) <= MaxTermsPerMessage
  PROVE  \A i \in 1..Len(d) : d[i] \in FirstTerms(d)
<1> SUFFICES ASSUME NEW i \in 1..Len(d) PROVE d[i] \in FirstTerms(d)
  OBVIOUS
<1>1. Len(d) \in Nat /\ i \in Nat /\ i # 0 /\ MaxTermsPerMessage \in Nat
  BY TextAssumption
<1>2. PICK j \in 1..i : d[j] = d[i] /\ NewAt(d, j)
  BY <1>1, FirstPlace
<1>3. j \in 0..Len(d) /\ j \in 1..Len(d)
  BY <1>1, <1>2
<1>4. RankAt(d, j) \in Nat /\ RankAt(d, Len(d)) \in Nat /\ RankAt(d, j) <= RankAt(d, Len(d))
  <2>1. Len(d) \in 0..Len(d)
    BY <1>1
  <2> QED
    BY <1>1, <1>3, <2>1, NewsFinite
<1>5. MaxTermsPerMessage = 0 \/ RankAt(d, j) <= MaxTermsPerMessage
  BY <1>1, <1>4 DEF Different
<1>6. d[j] \in FirstTerms(d)
  BY <1>2, <1>3, <1>5 DEF FirstTerms
<1> QED
  BY <1>2, <1>6

LEMMA TermAdded ==
  ASSUME NEW S, TermsIn(S), NEW x \in S,
         order' = Added(order, x), delivered' = Append(delivered, x)
  PROVE  TermsIn(S)'
<1> DEFINE d == delivered
           e == Append(delivered, x)
           F == FirstTerms(delivered)
           G == FirstTerms(Append(delivered, x))
           D == Different(delivered)
           M == MaxTermsPerMessage
           new == \A i \in 1..Len(delivered) : delivered[i] # x
           room == M = 0 \/ Cardinality(F) < M
<1>1. /\ d \in Seq(S) /\ order \in Seq(S) /\ order = Filtered(d, F) /\ ToSet(order) = F
      /\ IsFiniteSet(F) /\ Cardinality(F) = IF M = 0 \/ D <= M THEN D ELSE M
  BY DEF TermsIn
<1>2. /\ D \in Nat /\ Different(e) = D + (IF new THEN 1 ELSE 0)
      /\ G = IF new /\ (M = 0 \/ D + 1 <= M) THEN F \cup {x} ELSE F
  BY <1>1, FirstTermsNext
<1>3. M \in Nat
  BY TextAssumption
<1>4. order' = IF x \in F \/ room THEN Append(order, x) ELSE order
  BY <1>1 DEF Added
<1>5. /\ delivered' = e /\ e \in Seq(S) /\ Append(order, x) \in Seq(S)
      /\ ToSet(Append(order, x)) = F \cup {x}
  <2>1. ToSet(Append(order, x)) = ToSet(order) \cup {x}
    <3>1. /\ DOMAIN order = 1..Len(order) /\ Len(order) \in Nat
          /\ DOMAIN Append(order, x) = (1..Len(order)) \cup {Len(order) + 1}
          /\ \A i \in 1..Len(order) : Append(order, x)[i] = order[i]
          /\ Append(order, x)[Len(order) + 1] = x
      BY <1>1
    <3> QED
      BY <3>1 DEF ToSet
  <2> QED
    BY <1>1, <2>1
<1>6. x \in F => ~new
  BY <1>1 DEF FirstTerms
<1>7. M = 0 \/ D <= M => \A i \in 1..Len(d) : d[i] \in F
  BY <1>1, AllFirst
<1>8. Filtered(e, G) = IF x \in G THEN Append(Filtered(d, G), x) ELSE Filtered(d, G)
  <2>1. FilteredWith(d, x, G)
    BY <1>1, FilteredNext
  <2> QED
    BY <2>1, Zenon DEF FilteredWith
<1> HIDE DEF d, e, F, G, D, M
<1>9. CASE x \in F
  <2>1. G = F /\ Different(e) = D
    BY <1>2, <1>6, <1>9
  <2>2. F \cup {x} = F
    BY <1>9
  <2>3. order' = Append(order, x) /\ order' \in Seq(S) /\ ToSet(order') = F
    BY <1>4, <1>5, <1>9, <2>2
  <2>4. order' = Filtered(e, G)
    BY <1>1, <1>8, <1>9, <2>1, <2>3
  <2>5. /\ e \in Seq(S) /\ order' \in Seq(S) /\ order' = Filtered(e, G) /\ ToSet(order') = G
        /\ IsFiniteSet(G) /\ Cardinality(G) = IF M = 0 \/ Different(e) <= M THEN Different(e) ELSE M
    BY <1>1, <1>5, <2>1, <2>3, <2>4
  <2> QED
    BY <1>5, <2>5 DEF TermsIn, e, G, M
<1>10. CASE x \notin F /\ room
  <2>1. M = 0 \/ D < M
    BY <1>1, <1>2, <1>3, <1>10
  <2>2. \A i \in 1..Len(d) : d[i] \in F
    BY <1>2, <1>3, <1>7, <2>1
  <2>3. new
    BY <1>10, <2>2 DEF d
  <2>4. G = F \cup {x} /\ Different(e) = D + 1 /\ (M = 0 \/ D + 1 <= M)
    BY <1>2, <1>3, <2>1, <2>3
  <2>5. order' = Append(order, x) /\ order' \in Seq(S) /\ ToSet(order') = G
    BY <1>4, <1>5, <1>10, <2>4
  <2>6. Filtered(d, G) = Filtered(d, F)
    <3>1. \A i \in 1..Len(d) : d[i] \in G <=> d[i] \in F
      BY <2>2, <2>4
    <3> QED
      BY <3>1, FilteredSame
  <2>7. order' = Filtered(e, G)
    BY <1>1, <1>8, <2>4, <2>5, <2>6
  <2>8. IsFiniteSet(G) /\ Cardinality(G) = Cardinality(F) + 1
    BY <1>1, <1>10, <2>4, FS_AddElement
  <2>9. Cardinality(F) = D
    BY <1>1, <1>2, <1>3, <2>1
  <2>10. /\ e \in Seq(S) /\ order' \in Seq(S) /\ order' = Filtered(e, G) /\ ToSet(order') = G
         /\ IsFiniteSet(G) /\ Cardinality(G) = IF M = 0 \/ Different(e) <= M THEN Different(e) ELSE M
    BY <1>5, <2>4, <2>5, <2>7, <2>8, <2>9
  <2> QED
    BY <1>5, <2>10 DEF TermsIn, e, G, M
<1>11. CASE x \notin F /\ ~room
  <2>1. M # 0 /\ M <= D /\ Cardinality(F) = M
    BY <1>1, <1>2, <1>3, <1>11
  <2>2. G = F
    BY <1>2, <1>3, <2>1
  <2>3. order' = order
    BY <1>4, <1>11
  <2>4. order' = Filtered(e, G)
    BY <1>1, <1>8, <1>11, <2>2, <2>3
  <2>5. Different(e) \in Nat /\ M <= Different(e)
    BY <1>2, <1>3, <2>1
  <2>6. /\ e \in Seq(S) /\ order' \in Seq(S) /\ order' = Filtered(e, G) /\ ToSet(order') = G
        /\ IsFiniteSet(G) /\ Cardinality(G) = IF M = 0 \/ Different(e) <= M THEN Different(e) ELSE M
    BY <1>1, <1>3, <1>5, <2>1, <2>2, <2>3, <2>4, <2>5
  <2> QED
    BY <1>5, <2>6 DEF TermsIn, e, G, M
<1> QED
  BY <1>9, <1>10, <1>11

LEMMA TermsStep == ASSUME TermsInv, [Next]_vars PROVE TermsInv'
<1>1. PICK S : TermsIn(S)
  BY DEF TermsInv
<1>2. ASSUME UNCHANGED <<order, delivered>> PROVE TermsInv'
  <2>1. TermsIn(S)'
    BY <1>1, <1>2 DEF TermsIn
  <2> QED
    BY <2>1 DEF TermsInv
<1>3. CASE AddTerm
  <2>1. PICK x : x = Head(queue)
    OBVIOUS
  <2>2. PICK R : R = S \cup {x}
    OBVIOUS
  <2>3. order' = Added(order, x) /\ delivered' = Append(delivered, x)
    BY <1>3, <2>1 DEF AddTerm
  <2>4. TermsIn(R)
    <3>1. ASSUME NEW s \in Seq(S) PROVE s \in Seq(R)
      <4>1. s \in [1..Len(s) -> R] /\ Len(s) \in Nat
        BY <2>2
      <4> QED
        BY <4>1, SeqDef
    <3> QED
      BY <1>1, <3>1 DEF TermsIn
  <2>5. TermsIn(R)'
    BY <2>2, <2>3, <2>4, TermAdded
  <2> QED
    BY <2>5 DEF TermsInv
<1>4. CASE StartPart
  BY <1>2, <1>4 DEF StartPart, messageVars
<1>5. CASE ReadChar
  BY <1>2, <1>5 DEF ReadChar, messageVars
<1>6. CASE ReadEntity
  BY <1>2, <1>6 DEF ReadEntity, messageVars
<1>7. CASE ReadTag
  BY <1>2, <1>7 DEF ReadTag, messageVars
<1>8. CASE TokenizeChar
  BY <1>2, <1>8 DEF TokenizeChar
<1>9. CASE EndOfText
  BY <1>2, <1>9 DEF EndOfText
<1>10. CASE TagChar
  BY <1>2, <1>10 DEF TagChar
<1>11. CASE TagEnd
  BY <1>2, <1>11 DEF TagEnd
<1>12. CASE UNCHANGED vars
  BY <1>2, <1>12 DEF vars, messageVars
<1> QED
  BY <1>3, <1>4, <1>5, <1>6, <1>7, <1>8, <1>9, <1>10, <1>11, <1>12 DEF Next, Stop

LEMMA TermsInit == ASSUME Init PROVE TermsInv
<1>1. order = <<>> /\ delivered = <<>>
  BY DEF Init
<1>2. <<>> \in Seq({}) /\ Len(<<>>) = 0 /\ MaxTermsPerMessage \in Nat
  BY TextAssumption
<1>3. FirstTerms(<<>>) = {} /\ ToSet(<<>>) = {}
  BY <1>2 DEF FirstTerms, ToSet
<1>4. Filtered(<<>>, {}) = <<>>
  <2>1. [i \in 1..Len(<<>>) |-> IF <<>>[i] \in {} THEN <<<<>>[i]>> ELSE <<>>] = <<>>
    OBVIOUS
  <2> QED
    BY <2>1, FlatNothing DEF Filtered
<1>5. Different(<<>>) = 0
  <2>1. {j \in 1..0 : NewAt(<<>>, j)} = {}
    OBVIOUS
  <2> QED
    BY <1>2, <2>1, FS_EmptySet DEF Different, RankAt
<1>6. TermsIn({})
  BY <1>1, <1>2, <1>3, <1>4, <1>5, FS_EmptySet DEF TermsIn
<1> QED
  BY <1>6 DEF TermsInv

(* A message takes the first different terms it is given, as many as it may *)
(* have, and counts each of them as often as it comes, whatever the text    *)
(* and whatever the limit. (Message::addToken)                              *)
THEOREM FirstTermsAlwaysCounted == TextSpec => []FirstTermsCounted
<1>1. Init => TermsInv
  BY TermsInit
<1>2. TermsInv /\ [Next]_vars => TermsInv'
  BY TermsStep
<1>3. TermsInv => FirstTermsCounted
  BY Zenon DEF TermsInv, TermsIn, FirstTermsCounted, Filtered
<1> QED
  BY <1>1, <1>2, <1>3, PTL DEF TextSpec

----------------------------------------------------------------------------
(* Recursion: a function that is computed from its values at smaller places *)
Recursive(D, V, v, mu, Step) ==
  /\ v \in V /\ mu \in [D -> Nat] /\ Step \in [D \X [D -> V] -> V]
  /\ \A d \in D : \A g, h \in [D -> V] :
       (\A e \in D : mu[e] < mu[d] => g[e] = h[e]) => Step[<<d, g>>] = Step[<<d, h>>]

LEMMA Recursion ==
  ASSUME NEW D, NEW V, NEW v, NEW mu, NEW Step, Recursive(D, V, v, mu, Step)
  PROVE  \E f \in [D -> V] : \A d \in D : f[d] = Step[<<d, f>>]
<1> USE DEF Recursive
<1> DEFINE Good(f, k) == f \in [D -> V] /\ \A d \in D : mu[d] < k => f[d] = Step[<<d, f>>]
           Lacking == {k \in Nat : ~ \E f : Good(f, k)}
<1>1. ASSUME NEW k \in Nat PROVE \E f : Good(f, k)
  <2> SUFFICES ASSUME Lacking # {} PROVE FALSE
    OBVIOUS
  <2>1. PICK n \in Lacking : \A j \in Lacking : n <= j
    BY Smallest
  <2>2. n \in Nat /\ ~ \E f : Good(f, n)
    OBVIOUS
  <2>3. n # 0
    <3>1. [d \in D |-> v] \in [D -> V] /\ \A d \in D : ~(mu[d] < 0)
      OBVIOUS
    <3>2. Good([d \in D |-> v], 0)
      BY <3>1
    <3> QED
      BY <2>2, <3>2
  <2>4. n - 1 \in Nat /\ n - 1 \notin Lacking
    <3>1. n - 1 \in Nat /\ ~(n <= n - 1)
      BY <2>2, <2>3
    <3> HIDE DEF Lacking
    <3> QED
      BY <2>1, <3>1
  <2>5. PICK f : Good(f, n - 1)
    BY <2>4
  <2> DEFINE g == [d \in D |-> IF mu[d] = n - 1 THEN Step[<<d, f>>] ELSE f[d]]
  <2>6. g \in [D -> V]
    BY <2>5
  <2>7. ASSUME NEW d \in D, mu[d] < n PROVE g[d] = Step[<<d, g>>]
    <3>1. \A e \in D : mu[e] < mu[d] => f[e] = g[e]
      BY <2>2, <2>7
    <3>2. Step[<<d, f>>] = Step[<<d, g>>]
      <4> HIDE DEF g
      <4> QED
        BY <2>5, <2>6, <3>1
    <3>3. mu[d] = n - 1 \/ mu[d] < n - 1
      <4>1. n \in Nat
        BY <2>2
      <4>2. mu[d] \in Nat /\ mu[d] < n
        BY <2>7
      <4> HIDE DEF g
      <4> QED
        BY <4>1, <4>2
    <3>4. mu[d] < n - 1 => f[d] = Step[<<d, f>>]
      BY <2>5
    <3>5. g[d] = Step[<<d, f>>]
      BY <3>3, <3>4
    <3> QED
      BY <3>2, <3>5
  <2> HIDE DEF g
  <2> QED
    BY <2>2, <2>6, <2>7
<1> DEFINE F == [k \in Nat |-> CHOOSE f : Good(f, k)]
<1>2. ASSUME NEW k \in Nat PROVE Good(F[k], k)
  <2>1. F[k] = CHOOSE f : Good(f, k)
    OBVIOUS
  <2> HIDE DEF F, Good
  <2> QED
    BY <1>1, <2>1, Zenon
<1> HIDE DEF F
<1>3. ASSUME NEW k \in Nat PROVE F[k] \in [D -> V] /\ \A d \in D : mu[d] < k => F[k][d] = Step[<<d, F[k]>>]
  BY <1>2
<1> HIDE DEF Good
<1> DEFINE Splits(d) == \E k, l \in Nat : mu[d] < k /\ mu[d] < l /\ F[k][d] # F[l][d]
           Bad == {n \in Nat : \E d \in D : mu[d] = n /\ Splits(d)}
<1>4. ASSUME NEW d \in D PROVE ~Splits(d)
  <2> SUFFICES ASSUME Bad # {} PROVE FALSE
    OBVIOUS
  <2>1. PICK n \in Bad : \A j \in Bad : n <= j
    BY Smallest
  <2>2. PICK b \in D : mu[b] = n /\ Splits(b)
    OBVIOUS
  <2>3. PICK k \in Nat, l \in Nat : mu[b] < k /\ mu[b] < l /\ F[k][b] # F[l][b]
    BY <2>2
  <2>4. ASSUME NEW e \in D, mu[e] < mu[b] PROVE F[k][e] = F[l][e]
    <3>1. mu[e] < k /\ mu[e] < l /\ ~(n <= mu[e]) /\ mu[e] \in Nat
      BY <2>2, <2>3, <2>4
    <3>2. mu[e] \notin Bad
      <4> HIDE DEF Bad
      <4> QED
        BY <2>1, <3>1
    <3> QED
      BY <3>1, <3>2
  <2>5. Step[<<b, F[k]>>] = Step[<<b, F[l]>>]
    <3>1. F[k] \in [D -> V] /\ F[l] \in [D -> V]
      BY <1>3
    <3> QED
      BY <2>4, <3>1
  <2> QED
    BY <1>3, <2>3, <2>5
<1> DEFINE f == [d \in D |-> F[mu[d] + 1][d]]
<1>5. f \in [D -> V]
  BY <1>3
<1>6. ASSUME NEW d \in D PROVE f[d] = Step[<<d, f>>]
  <2>1. mu[d] + 1 \in Nat /\ mu[d] < mu[d] + 1
    OBVIOUS
  <2>2. F[mu[d] + 1][d] = Step[<<d, F[mu[d] + 1]>>] /\ F[mu[d] + 1] \in [D -> V]
    BY <1>3, <2>1
  <2>3. ASSUME NEW e \in D, mu[e] < mu[d] PROVE f[e] = F[mu[d] + 1][e]
    <3>1. mu[e] + 1 \in Nat /\ mu[e] < mu[e] + 1 /\ mu[e] < mu[d] + 1
      BY <2>3
    <3>2. ~Splits(e)
      BY <1>4
    <3> QED
      BY <2>1, <3>1, <3>2
  <2>4. Step[<<d, f>>] = Step[<<d, F[mu[d] + 1]>>]
    <3> HIDE DEF f
    <3> QED
      BY <1>5, <2>2, <2>3
  <2> QED
    BY <2>2, <2>4
<1> HIDE DEF f
<1> QED
  BY <1>5, <1>6

----------------------------------------------------------------------------
(* What the decoders return *)

LEMMA FlatType == ASSUME NEW S, NEW ss \in Seq(Seq(S)) PROVE FlattenSeq(ss) \in Seq(S)
<1> DEFINE T == Seq(S)
<1>1. ss \in Seq(T) /\ Len(ss) \in Nat
  OBVIOUS
<1>2. ss = [i \in 1..Len(ss) |-> ss[i]] /\ \A i \in 1..Len(ss) : ss[i] \in T
  <2> HIDE DEF T
  <2> QED
    BY <1>1
<1>3. FlattenSeq(ss) = First(ss, Len(ss))
  BY <1>2, Zenon DEF First
<1> QED
  BY <1>1, <1>2, <1>3, FirstType

LEMMA JoinType ==
  ASSUME NEW S, NEW ls \in Seq(Seq(S)), NEW terminator \in Seq(S)
  PROVE  JoinLines(ls, terminator) \in Seq(S)
<1> DEFINE T == Seq(S)
           ss == [i \in 1..Len(ls) |-> ls[i] \o terminator]
<1>1. \A x \in T : x \o terminator \in T
  OBVIOUS
<1>2. ls \in Seq(T)
  OBVIOUS
<1>3. ss \in Seq(T)
  <2> HIDE DEF T
  <2> QED
    BY <1>1, <1>2
<1>4. JoinLines(ls, terminator) = FlattenSeq(ss)
  BY DEF JoinLines
<1> HIDE DEF ss
<1> QED
  BY <1>3, <1>4, FlatType

LEMMA CharType ==
  \A c \in Int : SafeChar(c) \in Int /\ HexToInt(c) \in 0..15 /\ Char64(c) \in Int /\ ToLower(c) \in Int
<1> SUFFICES ASSUME NEW c \in Int
             PROVE  SafeChar(c) \in Int /\ HexToInt(c) \in 0..15 /\ Char64(c) \in Int /\ ToLower(c) \in Int
  OBVIOUS
<1>1. SafeChar(c) \in Int /\ Char64(c) \in Int /\ ToLower(c) \in Int
  BY DEF SafeChar, Char64, ToLower, Space
<1>2. \E v \in 0..15 : \/ IsDigit(c) /\ v = c - 48
                       \/ c \in 65..70 /\ v = c - 55
                       \/ c \in 97..102 /\ v = c - 87
                       \/ ~IsXDigit(c) /\ v = 0
  <2>1. CASE IsDigit(c)
    <3>1. c - 48 \in 0..15
      BY <2>1 DEF IsDigit
    <3> QED
      BY <2>1, <3>1
  <2>2. CASE c \in 65..70
    <3>1. c - 55 \in 0..15
      BY <2>2
    <3> QED
      BY <2>2, <3>1
  <2>3. CASE c \in 97..102
    <3>1. c - 87 \in 0..15
      BY <2>3
    <3> QED
      BY <2>3, <3>1
  <2>4. CASE ~IsXDigit(c)
    BY <2>4
  <2> QED
    BY <2>1, <2>2, <2>3, <2>4 DEF IsXDigit
<1> QED
  BY <1>1, <1>2 DEF HexToInt

\* The function UnquoteLine is computed with.
Unquoted(line, underscores, f, i) ==
  IF i > Len(line) THEN <<>>
  ELSE IF line[i] = Equals /\ HexPairAt(line, i)
  THEN <<SafeChar(16 * HexToInt(line[i + 1]) + HexToInt(line[i + 2]))>> \o f[i + 3]
  ELSE IF line[i] = Equals THEN f[i + 1]
  ELSE IF underscores /\ line[i] = 95 THEN <<Space>> \o f[i + 1]
  ELSE <<line[i]>> \o f[i + 1]

LEMMA UnquotedNext ==
  ASSUME NEW line \in Seq(Int), NEW underscores, NEW i \in 1..Len(line) + 1,
         NEW f, NEW g, \A j \in i + 1..Len(line) + 1 : f[j] \in Seq(Int) /\ f[j] = g[j]
  PROVE  /\ Unquoted(line, underscores, f, i) \in Seq(Int)
         /\ Unquoted(line, underscores, f, i) = Unquoted(line, underscores, g, i)
<1> DEFINE T == Seq(Int)
<1>1. \A c \in Int : \A s \in T : <<c>> \o s \in T
  OBVIOUS
<1>2. <<>> \in T /\ Space \in Int /\ Len(line) \in Nat /\ i \in Int
  BY DEF Space
<1>3. CASE i > Len(line)
  BY <1>2, <1>3 DEF Unquoted
<1>4. CASE i <= Len(line)
  <2>1. line[i] \in Int /\ i + 1 \in i + 1..Len(line) + 1 /\ ~(i > Len(line))
    BY <1>4
  <2>2. f[i + 1] \in T /\ f[i + 1] = g[i + 1]
    BY <2>1
  <2>3. CASE line[i] = Equals /\ HexPairAt(line, i)
    <3>1. i + 2 <= Len(line)
      BY <2>3 DEF HexPairAt
    <3>2. i + 1 \in 1..Len(line) /\ i + 2 \in 1..Len(line) /\ i + 3 \in i + 1..Len(line) + 1
      BY <1>2, <3>1
    <3>3. f[i + 3] \in T /\ f[i + 3] = g[i + 3]
      BY <3>2
    <3>4. line[i + 1] \in Int /\ line[i + 2] \in Int
      BY <3>2
    <3>5. HexToInt(line[i + 1]) \in 0..15 /\ HexToInt(line[i + 2]) \in 0..15
      BY <3>4, CharType
    <3>6. 16 * HexToInt(line[i + 1]) + HexToInt(line[i + 2]) \in Int
      <4>1. \A a, b \in 0..15 : 16 * a + b \in Int
        OBVIOUS
      <4> QED
        BY <3>5, <4>1
    <3> DEFINE c == SafeChar(16 * HexToInt(line[i + 1]) + HexToInt(line[i + 2]))
    <3>7. c \in Int
      BY <3>6, CharType
    <3>8. /\ Unquoted(line, underscores, f, i) = <<c>> \o f[i + 3]
          /\ Unquoted(line, underscores, g, i) = <<c>> \o g[i + 3]
      BY <2>1, <2>3, Zenon DEF Unquoted
    <3>9. <<c>> \o f[i + 3] \in T
      <4> HIDE DEF c, T
      <4> QED
        BY <1>1, <3>3, <3>7
    <3> HIDE DEF c
    <3> QED
      BY <3>3, <3>8, <3>9
  <2>4. CASE ~(line[i] = Equals /\ HexPairAt(line, i))
    <3> DEFINE U(h) == IF line[i] = Equals THEN h[i + 1]
                       ELSE IF underscores /\ line[i] = 95 THEN <<Space>> \o h[i + 1]
                       ELSE <<line[i]>> \o h[i + 1]
    <3>1. Unquoted(line, underscores, f, i) = U(f) /\ Unquoted(line, underscores, g, i) = U(g)
      BY <2>1, <2>4, Zenon DEF Unquoted
    <3>2. <<Space>> \o f[i + 1] \in T /\ <<line[i]>> \o f[i + 1] \in T
      <4> HIDE DEF T
      <4> QED
        BY <1>1, <1>2, <2>1, <2>2
    <3>3. U(f) \in T /\ U(f) = U(g)
      <4> HIDE DEF T
      <4> QED
        BY <2>2, <3>2
    <3> QED
      BY <3>1, <3>3
  <2> QED
    BY <2>3, <2>4
<1> QED
  BY <1>2, <1>3, <1>4

LEMMA UnquoteType ==
  ASSUME NEW line \in Seq(Int), NEW underscores
  PROVE  UnquoteLine(line, underscores) \in Seq(Int)
<1> DEFINE n == Len(line)
           D == 1..n + 1
           V == Seq(Int)
           mu == [i \in D |-> n + 1 - i]
           Step == [x \in D \X [D -> V] |-> Unquoted(line, underscores, x[2], x[1])]
           Is(f) == f = [i \in D |-> Unquoted(line, underscores, f, i)]
<1>1. n \in Nat /\ mu \in [D -> Nat] /\ <<>> \in V
  OBVIOUS
<1>2. ASSUME NEW i \in D, NEW g \in [D -> V], NEW h \in [D -> V],
             \A j \in D : mu[j] < mu[i] => g[j] = h[j]
      PROVE  /\ Unquoted(line, underscores, g, i) \in V
             /\ Unquoted(line, underscores, g, i) = Unquoted(line, underscores, h, i)
  <2>1. \A j \in i + 1..n + 1 : j \in D /\ mu[j] < mu[i]
    BY <1>1
  <2>2. \A j \in i + 1..n + 1 : g[j] \in V /\ g[j] = h[j]
    BY <1>2, <2>1
  <2> QED
    BY <2>2, UnquotedNext
<1>3. Step \in [D \X [D -> V] -> V]
  <2>1. ASSUME NEW x \in D \X [D -> V] PROVE Unquoted(line, underscores, x[2], x[1]) \in V
    <3>1. x[1] \in D /\ x[2] \in [D -> V]
      OBVIOUS
    <3> HIDE DEF D, V, mu
    <3> QED
      BY <1>2, <3>1
  <2> HIDE DEF D, V
  <2> QED
    BY <2>1
<1>4. ASSUME NEW i \in D, NEW g \in [D -> V], NEW h \in [D -> V],
             \A j \in D : mu[j] < mu[i] => g[j] = h[j]
      PROVE  Step[<<i, g>>] = Step[<<i, h>>]
  <2> HIDE DEF D, V, mu
  <2> QED
    BY <1>2, <1>4
<1>5. \E f : Is(f)
  <2>1. PICK f \in [D -> V] : \A i \in D : f[i] = Step[<<i, f>>]
    <3> HIDE DEF D, V, mu, Step
    <3>1. \A i \in D : \A g, h \in [D -> V] :
            (\A j \in D : mu[j] < mu[i] => g[j] = h[j]) => Step[<<i, g>>] = Step[<<i, h>>]
      BY <1>4
    <3>2. Recursive(D, V, <<>>, mu, Step)
      BY <1>1, <1>3, <3>1, Zenon DEF Recursive
    <3> QED
      BY <3>2, Recursion
  <2>2. \A i \in D : f[i] = Unquoted(line, underscores, f, i)
    <3> HIDE DEF D, V
    <3> QED
      BY <2>1
  <2>3. f = [i \in D |-> f[i]]
    OBVIOUS
  <2>4. f = [i \in D |-> Unquoted(line, underscores, f, i)]
    <3> HIDE DEF D, V
    <3> QED
      BY <2>2, <2>3
  <2> QED
    BY <2>4
<1> DEFINE f == CHOOSE f : Is(f)
<1>6. Is(f)
  BY <1>5, Zenon
<1>7. UnquoteLine(line, underscores) = f[1]
  BY DEF UnquoteLine, Unquoted
<1> HIDE DEF f
<1> DEFINE Wrong == {k \in 0..n : f[n + 1 - k] \notin V}
<1>8. ASSUME Wrong # {} PROVE FALSE
  <2>1. Wrong \subseteq Nat
    OBVIOUS
  <2>2. PICK k \in Wrong : \A j \in Wrong : k <= j
    <3> HIDE DEF Wrong
    <3> QED
      BY <1>8, <2>1, Smallest
  <2> DEFINE i == n + 1 - k
  <2>3. k \in 0..n /\ i \in D /\ f[i] \notin V
    BY <1>1
  <2>4. ASSUME NEW j \in i + 1..n + 1 PROVE f[j] \in V
    <3>1. n + 1 - j \in 0..n /\ n + 1 - (n + 1 - j) = j /\ ~(k <= n + 1 - j)
      BY <1>1, <2>3
    <3> HIDE DEF i
    <3> QED
      BY <2>2, <3>1
  <2>5. f[i] = Unquoted(line, underscores, f, i)
    BY <1>6, <2>3
  <2> HIDE DEF i
  <2>6. Unquoted(line, underscores, f, i) \in V
    BY <2>3, <2>4, UnquotedNext
  <2> QED
    BY <2>3, <2>5, <2>6
<1>9. n \in 0..n /\ n + 1 - n = 1
  BY <1>1
<1> QED
  BY <1>7, <1>8, <1>9

\* A function that has a type wherever it has it at the places before.
LEMMA TypedByPlaces ==
  ASSUME NEW D, NEW V, NEW mu \in [D -> Nat], NEW f,
         \A d \in D : (\A e \in D : mu[e] < mu[d] => f[e] \in V) => f[d] \in V
  PROVE  \A d \in D : f[d] \in V
<1> DEFINE Wrong == {mu[d] : d \in {d \in D : f[d] \notin V}}
<1> SUFFICES ASSUME Wrong # {} PROVE FALSE
  OBVIOUS
<1>1. PICK k \in Wrong : \A j \in Wrong : k <= j
  <2>1. Wrong \subseteq Nat
    OBVIOUS
  <2> HIDE DEF Wrong
  <2> QED
    BY <2>1, Smallest
<1>2. PICK d \in D : mu[d] = k /\ f[d] \notin V
  OBVIOUS
<1>3. ASSUME NEW e \in D, mu[e] < mu[d] PROVE f[e] \in V
  <2>1. ~(k <= mu[e])
    BY <1>2, <1>3
  <2> QED
    BY <1>1, <2>1
<1> QED
  BY <1>2, <1>3

\* The function FromText is computed with.
LinesFrom(s, f, i) ==
  LET ends == {j \in i..Len(s) : s[j] \in {Newline, Return}}
      e == Min(ends)
      both == s[e] = Return /\ e < Len(s) /\ s[e + 1] = Newline
  IN  IF i > Len(s) THEN <<>>
      ELSE IF ends = {} THEN <<SubSeq(s, i, Len(s))>>
      ELSE <<SubSeq(s, i, e - 1)>> \o f[IF both THEN e + 2 ELSE e + 1]

LEMMA LinesFromNext ==
  ASSUME NEW s \in Seq(Int), NEW i \in 1..Len(s) + 1,
         NEW f, NEW g, \A j \in i + 1..Len(s) + 1 : f[j] \in Texts /\ f[j] = g[j]
  PROVE  LinesFrom(s, f, i) \in Texts /\ LinesFrom(s, f, i) = LinesFrom(s, g, i)
<1> DEFINE T == Seq(Int)
           n == Len(s)
           ends == {j \in i..n : s[j] \in {Newline, Return}}
           e == Min(ends)
           both == s[e] = Return /\ e < n /\ s[e + 1] = Newline
           k == IF both THEN e + 2 ELSE e + 1
<1>1. n \in Nat /\ i \in Int /\ i >= 1
  OBVIOUS
<1>2. \A x \in T : <<x>> \in Seq(T) /\ \A t \in Seq(T) : <<x>> \o t \in Seq(T)
  <2> HIDE DEF T
  <2> QED
    OBVIOUS
<1>3. \A b \in Int : b <= n => SubSeq(s, i, b) \in T
  BY <1>1
<1>4. <<>> \in Seq(T)
  OBVIOUS
<1>5. /\ i > n => LinesFrom(s, f, i) = <<>> /\ LinesFrom(s, g, i) = <<>>
      /\ ~(i > n) /\ ends = {} => /\ LinesFrom(s, f, i) = <<SubSeq(s, i, n)>>
                                  /\ LinesFrom(s, g, i) = <<SubSeq(s, i, n)>>
      /\ ~(i > n) /\ ends # {} => /\ LinesFrom(s, f, i) = <<SubSeq(s, i, e - 1)>> \o f[k]
                                  /\ LinesFrom(s, g, i) = <<SubSeq(s, i, e - 1)>> \o g[k]
  BY Zenon DEF LinesFrom
<1>6. CASE i > n
  BY <1>4, <1>5, <1>6 DEF Texts
<1>7. CASE ~(i > n) /\ ends = {}
  <2>1. <<SubSeq(s, i, n)>> \in Seq(T)
    <3> HIDE DEF T
    <3> QED
      BY <1>1, <1>2, <1>3
  <2> HIDE DEF ends
  <2> QED
    BY <1>5, <1>7, <2>1 DEF Texts
<1>8. CASE ~(i > n) /\ ends # {}
  <2>1. ends \subseteq Nat
    BY <1>1
  <2>2. e \in ends
    <3> HIDE DEF ends
    <3> QED
      BY <1>8, <2>1, MinOf
  <2>3. e \in Int /\ i <= e /\ e <= n
    BY <2>2
  <2>4. k \in i + 1..n + 1 /\ e - 1 \in Int
    <3> HIDE DEF e
    <3> QED
      BY <1>1, <2>3
  <2>5. f[k] \in Seq(T) /\ f[k] = g[k]
    <3> HIDE DEF k
    <3> QED
      BY <2>4 DEF Texts
  <2>6. SubSeq(s, i, e - 1) \in T
    <3>1. e - 1 \in Int /\ e - 1 <= n
      <4> HIDE DEF e
      <4> QED
        BY <1>1, <2>3
    <3> HIDE DEF e, T
    <3> QED
      BY <1>3, <3>1
  <2>7. <<SubSeq(s, i, e - 1)>> \o f[k] \in Seq(T)
    <3> HIDE DEF T, e, k
    <3> QED
      BY <1>2, <2>5, <2>6
  <2> HIDE DEF e, k, ends
  <2> QED
    BY <1>5, <1>8, <2>5, <2>7 DEF Texts
<1> QED
  BY <1>6, <1>7, <1>8

LEMMA FromTextType == ASSUME NEW s \in Seq(Int) PROVE FromText(s) \in Texts
<1> DEFINE n == Len(s)
           D == 1..n + 1
           V == Texts
           mu == [i \in D |-> n + 1 - i]
           Step == [x \in D \X [D -> V] |-> LinesFrom(s, x[2], x[1])]
           Is(f) == f = [i \in D |-> LinesFrom(s, f, i)]
<1>1. n \in Nat /\ mu \in [D -> Nat] /\ <<>> \in V
  BY DEF Texts
<1>2. ASSUME NEW i \in D, NEW g, NEW h,
             \A j \in D : mu[j] < mu[i] => g[j] \in V /\ g[j] = h[j]
      PROVE  LinesFrom(s, g, i) \in V /\ LinesFrom(s, g, i) = LinesFrom(s, h, i)
  <2>1. \A j \in i + 1..n + 1 : j \in D /\ mu[j] < mu[i]
    BY <1>1
  <2>2. \A j \in i + 1..n + 1 : g[j] \in V /\ g[j] = h[j]
    BY <1>2, <2>1
  <2> QED
    BY <2>2, LinesFromNext
<1>3. Step \in [D \X [D -> V] -> V]
  <2>1. ASSUME NEW x \in D \X [D -> V] PROVE LinesFrom(s, x[2], x[1]) \in V
    <3>1. x[1] \in D /\ x[2] \in [D -> V]
      OBVIOUS
    <3> HIDE DEF D, V, mu
    <3> QED
      BY <1>2, <3>1
  <2> HIDE DEF D, V
  <2> QED
    BY <2>1
<1>4. \E f : Is(f)
  <2>1. PICK f \in [D -> V] : \A i \in D : f[i] = Step[<<i, f>>]
    <3> HIDE DEF D, V, mu
    <3>1. \A i \in D : \A g, h \in [D -> V] :
            (\A j \in D : mu[j] < mu[i] => g[j] = h[j]) => Step[<<i, g>>] = Step[<<i, h>>]
      BY <1>2
    <3> HIDE DEF Step
    <3>2. Recursive(D, V, <<>>, mu, Step)
      BY <1>1, <1>3, <3>1, Zenon DEF Recursive
    <3> QED
      BY <3>2, Recursion
  <2>2. f = [i \in D |-> LinesFrom(s, f, i)]
    <3> HIDE DEF D, V
    <3> QED
      BY <2>1
  <2> QED
    BY <2>2
<1> DEFINE f == CHOOSE f : Is(f)
<1>5. Is(f)
  BY <1>4, Zenon
<1>6. FromText(s) = f[1]
  BY DEF FromText, LinesFrom
<1> HIDE DEF f
<1>7. \A i \in D : f[i] \in V
  <2>1. ASSUME NEW i \in D, \A j \in D : mu[j] < mu[i] => f[j] \in V PROVE f[i] \in V
    <3>1. LinesFrom(s, f, i) \in V
      <4> HIDE DEF D, V, mu
      <4> QED
        BY <1>2, <2>1
    <3>2. f[i] = LinesFrom(s, f, i)
      <4> HIDE DEF D
      <4> QED
        BY <1>5
    <3> QED
      BY <3>1, <3>2
  <2> HIDE DEF D, V, mu
  <2> QED
    BY <1>1, <2>1, TypedByPlaces
<1> QED
  BY <1>1, <1>6, <1>7

\* The function UnquoteLines is computed with.
UnquotedLines(ls, underscores, f, k) ==
  LET so == f[k - 1]
      t == so.buffer \o UnquoteLine(ls[k], underscores)
  IN  IF k = 0 THEN [out |-> <<>>, buffer |-> <<>>]
      ELSE IF SoftBreak(ls[k]) THEN [so EXCEPT !.buffer = t]
      ELSE [out |-> Append(so.out, t), buffer |-> <<>>]

LEMMA UnquoteLinesType ==
  ASSUME NEW ls \in Texts, NEW underscores
  PROVE  UnquoteLines(ls, underscores) \in Texts
<1> DEFINE n == Len(ls)
           D == 0..n
           T == Seq(Int)
           V == [out : Seq(T), buffer : T]
           B(f, k) == UnquotedLines(ls, underscores, f, k)
           mu == [k \in D |-> k]
           Step == [x \in D \X [D -> V] |-> B(x[2], x[1])]
           Is(f) == f = [k \in D |-> B(f, k)]
<1>1. n \in Nat /\ mu \in [D -> Nat] /\ ls \in Seq(T) /\ [out |-> <<>>, buffer |-> <<>>] \in V
  BY DEF Texts
<1>2. ASSUME NEW k \in D, NEW g, NEW h,
             \A j \in D : mu[j] < mu[k] => g[j] \in V /\ g[j] = h[j]
      PROVE  B(g, k) \in V /\ B(g, k) = B(h, k)
  <2>1. CASE k = 0
    BY <1>1, <2>1 DEF UnquotedLines
  <2>2. CASE k # 0
    <3>1. k - 1 \in D /\ mu[k - 1] < mu[k] /\ k \in 1..n
      BY <1>1, <2>2
    <3>2. g[k - 1] \in V /\ g[k - 1] = h[k - 1]
      BY <1>2, <3>1
    <3>3. ls[k] \in T
      <4> HIDE DEF T
      <4> QED
        BY <1>1, <3>1
    <3> DEFINE u == UnquoteLine(ls[k], underscores)
               t == g[k - 1].buffer \o u
    <3>4. u \in T
      BY <3>3, UnquoteType
    <3>5. g[k - 1].buffer \in T /\ g[k - 1].out \in Seq(T)
      <4> HIDE DEF T
      <4> QED
        BY <3>2
    <3>6. t \in T
      <4> HIDE DEF u
      <4> QED
        BY <3>4, <3>5
    <3>7. Append(g[k - 1].out, t) \in Seq(T) /\ <<>> \in T
      <4>1. <<>> \in T
        OBVIOUS
      <4> HIDE DEF T, t
      <4> QED
        BY <3>5, <3>6, <4>1
    <3>8. [g[k - 1] EXCEPT !.buffer = t] \in V /\ [out |-> Append(g[k - 1].out, t), buffer |-> <<>>] \in V
      <4> HIDE DEF T, t
      <4> QED
        BY <3>2, <3>6, <3>7
    <3>9. B(g, k) = IF SoftBreak(ls[k]) THEN [g[k - 1] EXCEPT !.buffer = t]
                    ELSE [out |-> Append(g[k - 1].out, t), buffer |-> <<>>]
      BY <2>2, Zenon DEF UnquotedLines
    <3>10. B(h, k) = B(g, k)
      BY <2>2, <3>2, Zenon DEF UnquotedLines
    <3> HIDE DEF V, B, t
    <3> QED
      BY <3>8, <3>9, <3>10
  <2> QED
    BY <2>1, <2>2
<1>3. Step \in [D \X [D -> V] -> V]
  <2>1. ASSUME NEW x \in D \X [D -> V] PROVE B(x[2], x[1]) \in V
    <3>1. x[1] \in D /\ x[2] \in [D -> V]
      OBVIOUS
    <3> HIDE DEF D, V, mu, B
    <3> QED
      BY <1>2, <3>1
  <2> HIDE DEF D, V, B
  <2> QED
    BY <2>1
<1> HIDE DEF B
<1>4. \E f : Is(f)
  <2>1. PICK f \in [D -> V] : \A k \in D : f[k] = Step[<<k, f>>]
    <3> HIDE DEF D, V, mu
    <3>1. \A k \in D : \A g, h \in [D -> V] :
            (\A j \in D : mu[j] < mu[k] => g[j] = h[j]) => Step[<<k, g>>] = Step[<<k, h>>]
      BY <1>2
    <3> HIDE DEF Step
    <3>2. Recursive(D, V, [out |-> <<>>, buffer |-> <<>>], mu, Step)
      BY <1>1, <1>3, <3>1, Zenon DEF Recursive
    <3> QED
      BY <3>2, Recursion
  <2>2. f = [k \in D |-> B(f, k)]
    <3> HIDE DEF D, V
    <3> QED
      BY <2>1
  <2> QED
    BY <2>2
<1> DEFINE f == CHOOSE f : Is(f)
<1>5. Is(f)
  BY <1>4, Zenon
<1>6. UnquoteLines(ls, underscores) = Append(f[n].out, f[n].buffer)
  BY DEF UnquoteLines, UnquotedLines, B
<1> HIDE DEF f
<1>7. \A k \in D : f[k] \in V
  <2>1. ASSUME NEW k \in D, \A j \in D : mu[j] < mu[k] => f[j] \in V PROVE f[k] \in V
    <3>1. B(f, k) \in V
      <4> HIDE DEF D, V, mu
      <4> QED
        BY <1>2, <2>1
    <3>2. f[k] = B(f, k)
      <4> HIDE DEF D
      <4> QED
        BY <1>5
    <3> QED
      BY <3>1, <3>2
  <2> HIDE DEF D, V, mu
  <2> QED
    BY <1>1, <2>1, TypedByPlaces
<1>8. n \in D
  BY <1>1
<1>9. f[n].out \in Seq(T) /\ f[n].buffer \in T
  <2> HIDE DEF D, T, n
  <2> QED
    BY <1>7, <1>8
<1> HIDE DEF T
<1>10. Append(f[n].out, f[n].buffer) \in Seq(T)
  <2> HIDE DEF n
  <2> QED
    BY <1>9
<1> QED
  BY <1>6, <1>10 DEF T, Texts

LEMMA UnquoteStringType ==
  ASSUME NEW ls \in Texts, NEW underscores
  PROVE  UnquoteString(ls, underscores) \in Texts
  BY UnquoteLinesType DEF UnquoteString

LEMMA OctetsType ==
  ASSUME NEW ds \in Seq(Int), NEW k \in Nat, 4 * k + 4 <= Len(ds)
  PROVE  Octets(ds, k) \in Seq(Int)
<1> DEFINE d(j) == ds[4 * k + j]
           u(j) == IF d(j) = Equals THEN 0 ELSE Char64(d(j))
<1>1. \A j \in 1..4 : u(j) \in Int
  <2>1. ASSUME NEW j \in 1..4 PROVE u(j) \in Int
    <3>1. 4 * k + j \in 1..Len(ds)
      OBVIOUS
    <3>2. d(j) \in Int
      BY <3>1
    <3> HIDE DEF d
    <3>3. Char64(d(j)) \in Int
      BY <3>2 DEF Char64
    <3> QED
      BY <3>3
  <2> QED
    BY <2>1
<1>2. u(1) \in Int /\ u(2) \in Int /\ u(3) \in Int /\ u(4) \in Int
  BY <1>1
<1> HIDE DEF u
<1> DEFINE o1 == 4 * u(1) + u(2) \div 16
           o2 == 16 * (u(2) % 16) + u(3) \div 4
           o3 == 64 * (u(3) % 4) + u(4)
<1>3. o1 \in Int /\ o2 \in Int /\ o3 \in Int
  <2>1. \A a, b, c, e \in Int : /\ 4 * a + b \div 16 \in Int
                                /\ 16 * (b % 16) + c \div 4 \in Int
                                /\ 64 * (c % 4) + e \in Int
    OBVIOUS
  <2> QED
    BY <1>2, <2>1
<1>4. Octets(ds, k) \in {<<o1>>, <<o1, o2>>, <<o1, o2, o3>>}
  BY DEF Octets, u
<1> HIDE DEF o1, o2, o3
<1>5. <<o1>> \in Seq(Int) /\ <<o1, o2>> \in Seq(Int) /\ <<o1, o2, o3>> \in Seq(Int)
  BY <1>3
<1> QED
  BY <1>4, <1>5

LEMMA DecodeDataType == ASSUME NEW ls \in Texts PROVE DecodeData(ls) \in Seq(Int)
<1> DEFINE s == JoinLines(ls, <<>>)
           ds == Digits64(s)
           n == Len(ds) \div 4
           os == [k \in 1..n |-> Octets(ds, k - 1)]
<1>1. s \in Seq(Int)
  <2>1. <<>> \in Seq(Int)
    OBVIOUS
  <2>2. ls \in Seq(Seq(Int))
    BY DEF Texts
  <2>3. JoinLines(ls, <<>>) \in Seq(Int)
    BY <2>1, <2>2, JoinType, Zenon
  <2> QED
    BY <2>3
<1>2. ds \in Seq(Int)
  <2> HIDE DEF s
  <2> DEFINE ss == [i \in 1..Len(s) |-> IF s[i] = Equals \/ Char64(s[i]) >= 0 THEN <<s[i]>> ELSE <<>>]
  <2>1. \A i \in 1..Len(s) : ss[i] \in Seq(Int)
    BY <1>1
  <2>2. Len(s) \in Nat /\ ss = [i \in 1..Len(s) |-> ss[i]]
    BY <1>1
  <2>3. ds = First(ss, Len(s))
    BY Zenon DEF First, Digits64
  <2> HIDE DEF ss
  <2> QED
    BY <2>1, <2>2, <2>3, FirstType
<1> HIDE DEF ds
<1>3. n \in Nat /\ \A k \in 1..n : k - 1 \in Nat /\ 4 * (k - 1) + 4 <= Len(ds)
  <2>1. \A m \in Nat : m \div 4 \in Nat /\ \A k \in 1..(m \div 4) : k - 1 \in Nat /\ 4 * (k - 1) + 4 <= m
    OBVIOUS
  <2>2. Len(ds) \in Nat
    BY <1>2
  <2> QED
    BY <2>1, <2>2
<1> HIDE DEF n
<1>4. \A k \in 1..n : os[k] \in Seq(Int)
  BY <1>2, <1>3, OctetsType
<1>5. DecodeData(ls) = First(os, n)
  BY Zenon DEF DecodeData, First, n, ds
<1> HIDE DEF os
<1> QED
  BY <1>3, <1>4, <1>5, FirstType

LEMMA DecodeStringType == ASSUME NEW ls \in Texts PROVE DecodeString(ls) \in Texts
<1> DEFINE octets == DecodeData(ls)
           s == [i \in 1..Len(octets) |-> SafeChar(octets[i])]
<1>1. octets \in Seq(Int)
  BY DecodeDataType
<1> HIDE DEF octets
<1>2. ASSUME NEW i \in 1..Len(octets) PROVE SafeChar(octets[i]) \in Int
  <2>1. octets[i] \in Int
    BY <1>1
  <2> QED
    BY <2>1, CharType
<1>3. s \in Seq(Int)
  <2> DEFINE n == Len(octets)
  <2>1. n \in Nat
    BY <1>1
  <2>2. s \in [1..n -> Int]
    BY <1>2
  <2> HIDE DEF s, n
  <2> QED
    BY <2>1, <2>2
<1> QED
  BY <1>3, FromTextType DEF DecodeString, octets

\* The marks of an encoded word come one after the other, within the text.
LEMMA MarksInOrder ==
  ASSUME NEW s \in Seq(Int), NEW i \in 1..Len(s), IsEncodedWord(s, i),
         NEW q, q = WordMarks(s, i)
  PROVE  \E a, b, c \in Nat : q = <<a, b, c>> /\ i < a /\ a < b /\ b < c /\ c < Len(s)
<1> DEFINE n == Len(s)
           qs(k) == {j \in (k + 1)..n : s[j] = Query}
           next(k) == IF qs(k) = {} THEN n + 1 ELSE Min(qs(k))
<1>1. n \in Nat /\ i \in Nat
  OBVIOUS
<1>2. \A k \in Nat : next(k) \in Nat
  <2>1. ASSUME NEW k \in Nat PROVE next(k) \in Nat
    <3>1. qs(k) \subseteq Nat
      BY <1>1
    <3> HIDE DEF qs
    <3>2. qs(k) # {} => Min(qs(k)) \in Nat
      BY <3>1, MinOf
    <3> QED
      BY <1>1, <3>2
  <2> QED
    BY <2>1
<1>3. q = <<next(i + 1), next(next(i + 1)), next(next(next(i + 1)))>>
  BY Zenon DEF WordMarks
<1> HIDE DEF next
<1> DEFINE a == next(i + 1)
           b == next(next(i + 1))
           c == next(next(next(i + 1)))
<1>4. i + 1 \in Nat
  BY <1>1
<1>5. a \in Nat /\ b \in Nat /\ c \in Nat
  BY <1>2, <1>4
<1>6. q = <<a, b, c>>
  BY <1>3
<1>7. q[3] < n /\ i + 1 < q[1] - 1 /\ q[1] < q[2] - 1 /\ q[2] < q[3] - 1
  BY Zenon DEF IsEncodedWord
<1> HIDE DEF a, b, c
<1>8. c < n /\ i + 1 < a - 1 /\ a < b - 1 /\ b < c - 1
  BY <1>6, <1>7
<1> QED
  BY <1>1, <1>5, <1>6, <1>8

\* The function DecodeWords is computed with.
DecodedFrom(f, d) ==
  LET s == d.header
      starts == {i \in (d.offset + 1)..Len(s) : IsEncodedWord(s, i)}
      i == Min(starts)
      q == WordMarks(s, i)
      method == LowerAll(SubSeq(s, q[1] + 1, q[2] - 1))
      word == <<SubSeq(s, q[2] + 1, q[3] - 1)>>
      ls == IF method = <<113>> THEN UnquoteString(word, TRUE) ELSE DecodeString(word)
      t == d.decoded \o JoinLines(ls, <<>>)
  IN  IF starts = {} THEN s
      ELSE IF method \in {<<113>>, <<98>>}
      THEN f[[header |-> SubSeq(s, 1, i - 1) \o t \o SubSeq(s, q[3] + 2, Len(s)),
              offset |-> d.offset + Len(t), decoded |-> t]]
      ELSE f[[d EXCEPT !.offset = q[3] + 1]]

Undecoded(d) == IF d.offset <= Len(d.header) THEN Len(d.header) - d.offset ELSE 0

LEMMA DecodedFromNext ==
  ASSUME NEW d \in PartlyDecoded, NEW f, NEW g,
         \A e \in PartlyDecoded : Undecoded(e) < Undecoded(d) => f[e] \in Seq(Int) /\ f[e] = g[e]
  PROVE  DecodedFrom(f, d) \in Seq(Int) /\ DecodedFrom(f, d) = DecodedFrom(g, d)
<1> DEFINE s == d.header
           n == Len(s)
           starts == {i \in (d.offset + 1)..Len(s) : IsEncodedWord(s, i)}
           i == Min(starts)
           q == WordMarks(s, i)
           method == LowerAll(SubSeq(s, q[1] + 1, q[2] - 1))
           word == <<SubSeq(s, q[2] + 1, q[3] - 1)>>
           ls == IF method = <<113>> THEN UnquoteString(word, TRUE) ELSE DecodeString(word)
           t == d.decoded \o JoinLines(ls, <<>>)
           before == SubSeq(s, 1, i - 1)
           after == SubSeq(s, q[3] + 2, Len(s))
           e1 == [header |-> before \o t \o after, offset |-> d.offset + Len(t), decoded |-> t]
           e2 == [d EXCEPT !.offset = q[3] + 1]
<1>1. s \in Seq(Int) /\ d.offset \in Nat /\ d.decoded \in Seq(Int) /\ n \in Nat
  BY DEF PartlyDecoded
<1>2. CASE starts = {}
  BY <1>1, <1>2, Zenon DEF DecodedFrom
<1>3. CASE starts # {}
  <2>1. i \in starts
    <3>1. starts \subseteq Nat
      BY <1>1
    <3> HIDE DEF starts
    <3> QED
      BY <1>3, <3>1, MinOf
  <2>2. i \in (d.offset + 1)..n /\ IsEncodedWord(s, i) /\ i \in 1..n
    BY <1>1, <2>1
  <2> HIDE DEF i, starts
  <2>3. PICK a, b, c \in Nat : q = <<a, b, c>> /\ i < a /\ a < b /\ b < c /\ c < n
    BY <1>1, <2>2, MarksInOrder
  <2> HIDE DEF q
  <2>0. q[1] = a /\ q[2] = b /\ q[3] = c
    BY <2>3
  <2>4. t \in Seq(Int)
    <3>1. SubSeq(s, q[2] + 1, q[3] - 1) \in Seq(Int)
      <4>1. \A u, v \in Int : 1 <= u /\ v <= n => SubSeq(s, u, v) \in Seq(Int)
        <5> HIDE DEF s
        <5> QED
          BY <1>1
      <4>2. b + 1 \in Int /\ c - 1 \in Int /\ 1 <= b + 1 /\ c - 1 <= n
        BY <1>1, <2>3
      <4>3. SubSeq(s, b + 1, c - 1) \in Seq(Int)
        <5> HIDE DEF s, n
        <5> QED
          BY <4>1, <4>2
      <4> QED
        BY <2>0, <4>3
    <3>2. word \in Texts
      <4> DEFINE w == SubSeq(s, q[2] + 1, q[3] - 1)
                 T == Seq(Int)
      <4>1. w \in T
        BY <3>1
      <4>2. <<w>> \in Seq(T)
        <5> HIDE DEF w, T
        <5> QED
          BY <4>1
      <4> QED
        BY <4>2 DEF Texts
    <3> HIDE DEF word, method
    <3>3. ls \in Seq(Seq(Int))
      BY <3>2, UnquoteStringType, DecodeStringType DEF Texts
    <3> HIDE DEF ls
    <3>4. <<>> \in Seq(Int)
      OBVIOUS
    <3>5. JoinLines(ls, <<>>) \in Seq(Int)
      BY <3>3, <3>4, JoinType, Zenon
    <3> QED
      BY <1>1, <3>5
  <2>5. before \in Seq(Int) /\ Len(before) = i - 1
    <3> HIDE DEF s
    <3> QED
      BY <1>1, <2>2
  <2>6. after \in Seq(Int) /\ Len(after) = n - c - 1
    <3>1. c + 2 \in Nat /\ c + 2 >= 1 /\ c + 2 <= n + 1 /\ after = SubSeq(s, c + 2, Len(s))
      BY <1>1, <2>3, <2>0
    <3> HIDE DEF s, after
    <3>3. SubSeq(s, c + 2, Len(s)) \in Seq(Int) /\ Len(SubSeq(s, c + 2, Len(s))) = Len(s) - (c + 2) + 1
      BY <1>1, <3>1
    <3> QED
      BY <1>1, <2>3, <3>1, <3>3
  <2>7. e1 \in PartlyDecoded /\ Undecoded(e1) < Undecoded(d)
    <3> DEFINE h == before \o t \o after
               l == Len(t)
               m == Len(h)
               o == d.offset
    <3> HIDE DEF t, before, after, s
    <3>1. h \in Seq(Int) /\ m = (i - 1) + l + (n - c - 1) /\ l \in Nat /\ m \in Nat
      <4>1. \A x, y, z \in Seq(Int) : x \o y \o z \in Seq(Int) /\ Len(x \o y \o z) = Len(x) + Len(y) + Len(z)
                                    /\ Len(y) \in Nat
        OBVIOUS
      <4>2. h \in Seq(Int) /\ m = Len(before) + l + Len(after) /\ l \in Nat
        BY <2>4, <2>5, <2>6, <4>1
      <4>3. m \in Nat
        BY <4>2
      <4> QED
        BY <2>5, <2>6, <4>2, <4>3
    <3>2. e1 = [header |-> h, offset |-> o + l, decoded |-> t]
      BY Zenon
    <3> HIDE DEF h, l
    <3>3. o \in Nat /\ o + l \in Nat
      BY <1>1, <3>1
    <3> HIDE DEF o, e1
    <3>4. e1 \in PartlyDecoded
      BY <2>4, <3>1, <3>2, <3>3 DEF PartlyDecoded
    <3>5. o < i /\ i <= n /\ i \in Nat
      BY <1>1, <2>2 DEF o
    <3> HIDE DEF n, m
    <3>6. o + l <= m /\ m - (o + l) < n - o
      BY <1>1, <2>3, <3>1, <3>3, <3>5
    <3>7. Undecoded(d) = n - o
      BY <1>1, <3>3, <3>5 DEF Undecoded, s, n, o
    <3>8. Undecoded(e1) = m - (o + l)
      BY <3>2, <3>6 DEF Undecoded, m
    <3> QED
      BY <3>4, <3>6, <3>7, <3>8
  <2>8. e2 \in PartlyDecoded /\ Undecoded(e2) < Undecoded(d)
    <3>1. d.offset < c
      BY <1>1, <2>2, <2>3
    <3>2. e2 = [d EXCEPT !.offset = c + 1] /\ c + 1 \in Nat
      BY <2>0, <2>3
    <3> HIDE DEF e2
    <3>3. e2 \in PartlyDecoded /\ e2.offset = c + 1 /\ e2.header = s
      BY <3>2 DEF PartlyDecoded
    <3>4. c + 1 <= n /\ d.offset <= n
      BY <1>1, <2>3, <3>1
    <3>5. Undecoded(e2) = n - (c + 1)
      BY <3>3, <3>4 DEF Undecoded
    <3>6. Undecoded(d) = n - d.offset
      BY <3>4 DEF Undecoded
    <3> HIDE DEF n
    <3> QED
      BY <1>1, <2>3, <3>1, <3>3, <3>5, <3>6
  <2>9. f[e1] \in Seq(Int) /\ f[e1] = g[e1] /\ f[e2] \in Seq(Int) /\ f[e2] = g[e2]
    <3> HIDE DEF e1, e2
    <3> QED
      BY <2>7, <2>8
  <2>10. /\ DecodedFrom(f, d) = IF method \in {<<113>>, <<98>>} THEN f[e1] ELSE f[e2]
         /\ DecodedFrom(g, d) = IF method \in {<<113>>, <<98>>} THEN g[e1] ELSE g[e2]
    BY <1>3, Zenon DEF DecodedFrom, starts, i, q
  <2> HIDE DEF e1, e2, method
  <2> QED
    BY <2>9, <2>10
<1> QED
  BY <1>2, <1>3

LEMMA DecodeWordsType == ASSUME NEW s \in Seq(Int) PROVE DecodeWords(s) \in Seq(Int)
<1> DEFINE D == PartlyDecoded
           V == Seq(Int)
           mu == [d \in D |-> Undecoded(d)]
           Step == [x \in D \X [D -> V] |-> DecodedFrom(x[2], x[1])]
           Is(f) == f = [d \in D |-> DecodedFrom(f, d)]
           start == [header |-> s, offset |-> 0, decoded |-> <<>>]
<1>1. mu \in [D -> Nat] /\ <<>> \in V
  <2>1. ASSUME NEW d \in D PROVE Undecoded(d) \in Nat
    BY DEF Undecoded, PartlyDecoded
  <2> HIDE DEF D
  <2> QED
    BY <2>1
<1>2. ASSUME NEW d \in D, NEW g, NEW h,
             \A e \in D : mu[e] < mu[d] => g[e] \in V /\ g[e] = h[e]
      PROVE  DecodedFrom(g, d) \in V /\ DecodedFrom(g, d) = DecodedFrom(h, d)
  BY <1>2, DecodedFromNext
<1>3. Step \in [D \X [D -> V] -> V]
  <2>1. ASSUME NEW x \in D \X [D -> V] PROVE DecodedFrom(x[2], x[1]) \in V
    <3>1. x[1] \in D /\ x[2] \in [D -> V]
      OBVIOUS
    <3> HIDE DEF D, V, mu
    <3> QED
      BY <1>2, <3>1
  <2> HIDE DEF D, V
  <2> QED
    BY <2>1
<1>4. \E f : Is(f)
  <2>1. PICK f \in [D -> V] : \A d \in D : f[d] = Step[<<d, f>>]
    <3> HIDE DEF D, V, mu
    <3>1. \A d \in D : \A g, h \in [D -> V] :
            (\A e \in D : mu[e] < mu[d] => g[e] = h[e]) => Step[<<d, g>>] = Step[<<d, h>>]
      BY <1>2
    <3> HIDE DEF Step
    <3>2. Recursive(D, V, <<>>, mu, Step)
      BY <1>1, <1>3, <3>1, Zenon DEF Recursive
    <3> QED
      BY <3>2, Recursion
  <2>2. f = [d \in D |-> DecodedFrom(f, d)]
    <3> HIDE DEF D, V
    <3> QED
      BY <2>1
  <2> QED
    BY <2>2
<1> DEFINE f == CHOOSE f : Is(f)
<1>5. Is(f)
  BY <1>4, Zenon
<1>6. DecodeWords(s) = f[start]
  BY Zenon DEF DecodeWords, DecodedFrom
<1> HIDE DEF f
<1>7. \A d \in D : f[d] \in V
  <2>1. ASSUME NEW d \in D, \A e \in D : mu[e] < mu[d] => f[e] \in V PROVE f[d] \in V
    <3>1. DecodedFrom(f, d) \in V
      <4> HIDE DEF D, V, mu
      <4> QED
        BY <1>2, <2>1
    <3>2. f[d] = DecodedFrom(f, d)
      <4> HIDE DEF D
      <4> QED
        BY <1>5
    <3> QED
      BY <3>1, <3>2
  <2> HIDE DEF D, V, mu
  <2> QED
    BY <1>1, <2>1, TypedByPlaces
<1>8. start \in D
  BY DEF PartlyDecoded
<1> QED
  BY <1>6, <1>7, <1>8

\* Every text that a part is decoded to consists of lines of characters.
LEMMA DecodedType == ASSUME NEW p \in Parts PROVE DecodedLines(p) \in Texts
<1>1. p.lines \in Texts
  BY DEF Parts
<1> DEFINE s == JoinLines(p.lines, <<>>)
<1>2. s \in Seq(Int)
  <2>1. <<>> \in Seq(Int)
    OBVIOUS
  <2>2. p.lines \in Seq(Seq(Int))
    BY <1>1 DEF Texts
  <2>3. JoinLines(p.lines, <<>>) \in Seq(Int)
    BY <2>1, <2>2, JoinType, Zenon
  <2> QED
    BY <2>3
<1> HIDE DEF s
<1>3. DecodeHeaderString(p.lines) \in Texts
  <2>1. DecodeWords(s) \in Seq(Int)
    BY <1>2, DecodeWordsType
  <2>2. FromText(DecodeWords(s)) \in Texts
    BY <2>1, FromTextType
  <2> QED
    BY <1>1, <2>2, Zenon DEF DecodeHeaderString, s
<1>4. DecodeText(p.encoding, p.lines) \in Texts
  BY <1>1, UnquoteStringType, DecodeStringType DEF DecodeText
<1> QED
  BY <1>3, <1>4 DEF DecodedLines

----------------------------------------------------------------------------
(* The reader: a cursor in the lines is a place in the joined text *)

\* The first k lines, joined.
LinesJoined(ls, terminator, k) == First([i \in 1..Len(ls) |-> ls[i] \o terminator], k)

LEMMA LinesJoinedNext ==
  ASSUME NEW ls \in Texts, NEW terminator \in Seq(Int)
  PROVE  /\ \A k \in 0..Len(ls) : LinesJoined(ls, terminator, k) \in Seq(Int)
         /\ \A k \in 0..(Len(ls) - 1) :
              /\ ls[k + 1] \in Seq(Int)
              /\ LinesJoined(ls, terminator, k + 1) = LinesJoined(ls, terminator, k) \o (ls[k + 1] \o terminator)
<1> DEFINE n == Len(ls)
           T == Seq(Int)
           ss == [i \in 1..n |-> ls[i] \o terminator]
<1>1. n \in Nat /\ ls \in Seq(T)
  BY DEF Texts
<1>2. \A x \in T : x \o terminator \in T
  OBVIOUS
<1>3. \A i \in 1..n : ls[i] \in T
  <2> HIDE DEF T
  <2> QED
    BY <1>1
<1>4. \A i \in 1..n : ss[i] \in T /\ ss[i] = ls[i] \o terminator
  <2> HIDE DEF T
  <2> QED
    BY <1>2, <1>3
<1>5. \A k : LinesJoined(ls, terminator, k) = First(ss, k)
  BY DEF LinesJoined
<1> HIDE DEF ss
<1>6. ASSUME NEW k \in 0..n PROVE First(ss, k) \in T
  <2>1. k \in Nat /\ \A i \in 1..k : ss[i] \in T
    BY <1>1, <1>4
  <2> QED
    BY <2>1, FirstType
<1>7. ASSUME NEW k \in 0..(n - 1)
      PROVE  ls[k + 1] \in T /\ First(ss, k + 1) = First(ss, k) \o (ls[k + 1] \o terminator)
  <2>1. k \in Nat /\ k + 1 \in 1..n
    BY <1>1
  <2>2. ss[k + 1] \in T /\ ss[k + 1] = ls[k + 1] \o terminator /\ ls[k + 1] \in T
    <3> HIDE DEF T, n
    <3> QED
      BY <1>3, <1>4, <2>1
  <2>3. First(ss, k + 1) = First(ss, k) \o ss[k + 1]
    BY <2>1, <2>2, FirstNext
  <2> QED
    BY <2>2, <2>3
<1>8. \A k \in 0..n : LinesJoined(ls, terminator, k) \in T
  <2> HIDE DEF T, n
  <2> QED
    BY <1>5, <1>6
<1>9. \A k \in 0..(n - 1) :
        /\ ls[k + 1] \in T
        /\ LinesJoined(ls, terminator, k + 1) = LinesJoined(ls, terminator, k) \o (ls[k + 1] \o terminator)
  <2> HIDE DEF T, n
  <2> QED
    BY <1>5, <1>7
<1> QED
  BY <1>8, <1>9, Zenon

LEMMA LinesJoinedAre ==
  ASSUME NEW ls \in Texts, NEW terminator \in Seq(Int)
  PROVE  /\ LinesJoined(ls, terminator, Len(ls)) = JoinLines(ls, terminator)
         /\ \A k \in 0..Len(ls) : JoinLines(SubSeq(ls, 1, k), terminator) = LinesJoined(ls, terminator, k)
<1> DEFINE n == Len(ls)
           T == Seq(Int)
           ss == [i \in 1..n |-> ls[i] \o terminator]
<1>1. n \in Nat /\ ls \in Seq(T)
  BY DEF Texts
<1>2. [i \in 1..n |-> ss[i]] = ss
  OBVIOUS
<1>3. LinesJoined(ls, terminator, n) = JoinLines(ls, terminator)
  <2>1. First(ss, n) = FlattenSeq(ss)
    BY <1>2 DEF First
  <2> QED
    BY <2>1 DEF LinesJoined, JoinLines
<1>4. ASSUME NEW k \in 0..n
      PROVE  JoinLines(SubSeq(ls, 1, k), terminator) = LinesJoined(ls, terminator, k)
  <2> DEFINE s == SubSeq(ls, 1, k)
  <2>1. Len(s) = k /\ \A i \in 1..k : s[i] = ls[i] /\ i \in 1..n
    <3> HIDE DEF T
    <3> QED
      BY <1>1
  <2> HIDE DEF s
  <2>2. [i \in 1..Len(s) |-> s[i] \o terminator] = [i \in 1..k |-> ss[i]]
    BY <2>1
  <2>3. JoinLines(s, terminator) = First(ss, k)
    BY <2>2, Zenon DEF JoinLines, First
  <2> QED
    BY <2>3, Zenon DEF s, LinesJoined
<1> QED
  BY <1>3, <1>4

Begins(a, b) == Len(a) <= Len(b) /\ \A j \in 1..Len(a) : b[j] = a[j]

LEMMA LinesJoinedBegin ==
  ASSUME NEW ls \in Texts, NEW terminator \in Seq(Int), NEW k \in 0..Len(ls)
  PROVE  Begins(LinesJoined(ls, terminator, k), JoinLines(ls, terminator))
<1> DEFINE n == Len(ls)
           J(m) == LinesJoined(ls, terminator, m)
           Lacking == {m \in k..n : ~Begins(J(k), J(m))}
<1>1. n \in Nat /\ k \in Nat /\ k <= n
  BY DEF Texts
<1>2. /\ \A m \in 0..n : J(m) \in Seq(Int)
      /\ \A m \in 0..(n - 1) : ls[m + 1] \in Seq(Int) /\ J(m + 1) = J(m) \o (ls[m + 1] \o terminator)
  BY LinesJoinedNext, Zenon
<1> HIDE DEF J
<1>3. ASSUME Lacking # {} PROVE FALSE
  <2>0. Lacking \subseteq Nat
    BY <1>1
  <2>1. PICK m \in Lacking : \A j \in Lacking : m <= j
    <3> HIDE DEF Lacking
    <3> QED
      BY <1>3, <2>0, Smallest
  <2>2. m \in k..n /\ ~Begins(J(k), J(m))
    OBVIOUS
  <2>3. m # k
    <3>1. Begins(J(k), J(k))
      <4>1. J(k) \in Seq(Int)
        BY <1>2
      <4> QED
        BY <4>1 DEF Begins
    <3> QED
      BY <2>2, <3>1
  <2>4. m - 1 \in k..n /\ m - 1 \in 0..(n - 1) /\ (m - 1) + 1 = m /\ m - 1 \in 0..n /\ ~(m <= m - 1)
    BY <1>1, <2>2, <2>3
  <2>5. Begins(J(k), J(m - 1))
    <3>1. m - 1 \notin Lacking
      <4> HIDE DEF Lacking
      <4> QED
        BY <2>1, <2>4
    <3> QED
      BY <2>4, <3>1
  <2> DEFINE x == ls[m] \o terminator
  <2>6. x \in Seq(Int) /\ J(m - 1) \in Seq(Int) /\ J(m) = J(m - 1) \o x
    <3>1. J((m - 1) + 1) = J(m - 1) \o (ls[(m - 1) + 1] \o terminator) /\ ls[(m - 1) + 1] \in Seq(Int)
      BY <1>2, <2>4
    <3>2. ls[m] \in Seq(Int) /\ J(m) = J(m - 1) \o x
      BY <2>4, <3>1
    <3> QED
      BY <1>2, <2>4, <3>2
  <2>7. J(k) \in Seq(Int)
    BY <1>2
  <2> HIDE DEF x
  <2>8. ASSUME NEW a \in Seq(Int), NEW b \in Seq(Int), NEW y \in Seq(Int), Begins(a, b)
        PROVE  Begins(a, b \o y)
    <3>1. Len(b) <= Len(b \o y) /\ \A j \in 1..Len(b) : (b \o y)[j] = b[j]
      OBVIOUS
    <3>2. Len(a) \in Nat /\ Len(b) \in Nat /\ Len(b \o y) \in Nat
      BY <2>8
    <3>3. Len(a) <= Len(b) /\ \A j \in 1..Len(a) : b[j] = a[j]
      BY <2>8 DEF Begins
    <3> DEFINE z == b \o y
    <3> HIDE DEF z
    <3>4. Len(a) <= Len(z) /\ \A j \in 1..Len(a) : z[j] = a[j]
      BY <3>1, <3>2, <3>3 DEF z
    <3> QED
      BY <3>4 DEF Begins, z
  <2> QED
    BY <2>2, <2>5, <2>6, <2>7, <2>8
<1>4. n \in k..n /\ J(n) = JoinLines(ls, terminator)
  BY <1>1, LinesJoinedAre DEF J
<1>5. Begins(J(k), J(n))
  BY <1>3, <1>4
<1> QED
  BY <1>4, <1>5 DEF J

\* The characters of a line, and those of the terminator behind it, in the joined text.
LineFrom(x, terminator, o, joined) ==
  /\ \A c \in 0..(Len(x) - 1) : o + c < Len(joined) /\ joined[o + c + 1] = x[c + 1]
  /\ \A c \in 0..(Len(terminator) - 1) :
       o + Len(x) + c < Len(joined) /\ joined[o + Len(x) + c + 1] = terminator[c + 1]

LEMMA LinesJoinedAt ==
  ASSUME NEW ls \in Texts, NEW terminator \in Seq(Int), NEW k \in 0..(Len(ls) - 1)
  PROVE  /\ Len(LinesJoined(ls, terminator, k)) \in Nat /\ ls[k + 1] \in Seq(Int)
         /\ Len(LinesJoined(ls, terminator, k + 1)) =
              Len(LinesJoined(ls, terminator, k)) + Len(ls[k + 1]) + Len(terminator)
         /\ LineFrom(ls[k + 1], terminator, Len(LinesJoined(ls, terminator, k)), JoinLines(ls, terminator))
<1> DEFINE o == Len(LinesJoined(ls, terminator, k))
           joined == JoinLines(ls, terminator)
           n == Len(ls)
           a == LinesJoined(ls, terminator, k)
           x == ls[k + 1]
           b == LinesJoined(ls, terminator, k + 1)
<1>1. n \in Nat /\ k \in 0..n /\ k + 1 \in 0..n
  BY DEF Texts
<1>2. a \in Seq(Int) /\ x \in Seq(Int) /\ b = a \o (x \o terminator) /\ b \in Seq(Int)
  BY <1>1, LinesJoinedNext, Zenon
<1>3. Begins(b, joined)
  BY <1>1, LinesJoinedBegin
<1>4. joined \in Seq(Int)
  <2>1. n \in 0..n
    BY <1>1
  <2>2. LinesJoined(ls, terminator, n) \in Seq(Int)
    BY <2>1, LinesJoinedNext, Zenon
  <2> QED
    BY <2>2, LinesJoinedAre
<1>5. o = Len(a)
  OBVIOUS
<1> HIDE DEF o, joined, a, x, b
<1>6. /\ Len(b) = o + Len(x) + Len(terminator)
      /\ o \in Nat /\ Len(x) \in Nat /\ Len(terminator) \in Nat /\ Len(joined) \in Nat
  BY <1>2, <1>4, <1>5
<1>7. ASSUME NEW c \in 0..(Len(x) - 1)
      PROVE  o + c < Len(joined) /\ joined[o + c + 1] = x[c + 1]
  <2>1. o + c + 1 \in 1..Len(b) /\ b[o + c + 1] = x[c + 1]
    BY <1>2, <1>5, <1>6
  <2> QED
    BY <1>3, <1>6, <2>1 DEF Begins
<1>8. ASSUME NEW c \in 0..(Len(terminator) - 1)
      PROVE  o + Len(x) + c < Len(joined) /\ joined[o + Len(x) + c + 1] = terminator[c + 1]
  <2>1. o + Len(x) + c + 1 \in 1..Len(b) /\ b[o + Len(x) + c + 1] = terminator[c + 1]
    BY <1>2, <1>5, <1>6
  <2> QED
    BY <1>3, <1>6, <2>1 DEF Begins
<1> QED
  <2>1. LineFrom(x, terminator, o, joined)
    BY <1>7, <1>8 DEF LineFrom
  <2> QED
    BY <1>2, <1>6, <2>1, Zenon DEF a, b, x, o, joined

\* How many characters of the joined text lie before the cursor.
Place(ls, terminator, p) ==
  Len(LinesJoined(ls, terminator, p.line)) + (IF p.inTerminator THEN Len(ls[p.line + 1]) ELSE 0) + p.char

OnChar(ls, terminator, p) ==
  /\ p \in Position(ls)
  /\ Place(ls, terminator, p) < Len(JoinLines(ls, terminator))
  /\ p.current = JoinLines(ls, terminator)[Place(ls, terminator, p) + 1]

\* What making the cursor p ready leads to.
ReadyAt(ls, terminator, p, r) ==
  IF Place(ls, terminator, p) < Len(JoinLines(ls, terminator))
  THEN OnChar(ls, terminator, r) /\ Place(ls, terminator, r) = Place(ls, terminator, p)
  ELSE r.atEnd /\ r.current = p.current

Cursors == [line : Nat, char : Nat, inTerminator : BOOLEAN, atEnd : BOOLEAN, current : Int]

\* The function EnsureCharReady is computed with, and the lines left to it.
ReadyFrom(ls, terminator, f, p) ==
  LET here == CurrentLine(ls, terminator, p)
      rest == p.char - Len(here)
      leaves == p.inTerminator \/ terminator = <<>>
      q == [p EXCEPT !.char = rest, !.inTerminator = FALSE, !.line = @ + 1]
  IN  IF rest < 0 THEN [p EXCEPT !.current = here[p.char + 1]]
      ELSE IF ~leaves THEN f[[p EXCEPT !.char = rest, !.inTerminator = TRUE]]
      ELSE IF q.line >= Len(ls) THEN [q EXCEPT !.atEnd = TRUE]
      ELSE f[q]

LinesLeft(ls, p) == 2 * (Len(ls) - p.line) - (IF p.inTerminator THEN 1 ELSE 0)

LEMMA PlaceNow ==
  ASSUME NEW ls \in Texts, NEW terminator \in Seq(Int), NEW p \in Position(ls),
         NEW here, here = CurrentLine(ls, terminator, p),
         NEW joined, joined = JoinLines(ls, terminator),
         NEW o, o = Place(ls, terminator, p)
  PROVE  /\ here \in Seq(Int) /\ o \in Nat
         /\ p.char < Len(here) => o < Len(joined) /\ joined[o + 1] = here[p.char + 1]
         /\ o = Len(LinesJoined(ls, terminator, p.line))
                + (IF p.inTerminator THEN Len(ls[p.line + 1]) ELSE 0) + p.char
         /\ Len(LinesJoined(ls, terminator, p.line + 1)) =
              Len(LinesJoined(ls, terminator, p.line)) + Len(ls[p.line + 1]) + Len(terminator)
         /\ Len(LinesJoined(ls, terminator, p.line)) \in Nat
         /\ Len(ls[p.line + 1]) \in Nat
<1> DEFINE k == p.line
           c == p.char
           b == Len(LinesJoined(ls, terminator, k))
           x == ls[k + 1]
<1>1. k \in 0..(Len(ls) - 1) /\ c \in Nat /\ p.inTerminator \in BOOLEAN
  BY DEF Position
<1>2. o = b + (IF p.inTerminator THEN Len(x) ELSE 0) + c
  BY DEF Place
<1>3. here = IF p.inTerminator THEN terminator ELSE x
  BY DEF CurrentLine
<1> HIDE DEF k, b, x
<1>4. /\ b \in Nat /\ x \in Seq(Int)
      /\ Len(LinesJoined(ls, terminator, k + 1)) = b + Len(x) + Len(terminator)
      /\ \A i \in 0..(Len(x) - 1) : b + i < Len(joined) /\ joined[b + i + 1] = x[i + 1]
      /\ \A i \in 0..(Len(terminator) - 1) :
           b + Len(x) + i < Len(joined) /\ joined[b + Len(x) + i + 1] = terminator[i + 1]
  <2>1. b \in Nat /\ x \in Seq(Int) /\ Len(LinesJoined(ls, terminator, k + 1)) = b + Len(x) + Len(terminator)
        /\ LineFrom(x, terminator, b, joined)
    BY <1>1, LinesJoinedAt, Zenon DEF b, x
  <2> QED
    BY <2>1, Zenon DEF LineFrom
<1>5. Len(x) \in Nat /\ Len(terminator) \in Nat
  BY <1>4
<1> HIDE DEF c
<1>6. CASE p.inTerminator
  <2>1. o = b + Len(x) + c /\ here = terminator
    BY <1>2, <1>3, <1>6
  <2>2. c < Len(here) => c \in 0..(Len(terminator) - 1)
    BY <1>1, <1>5, <2>1
  <2>3. c < Len(here) => o < Len(joined) /\ joined[o + 1] = here[c + 1]
    BY <1>4, <2>1, <2>2
  <2>4. o \in Nat
    BY <1>1, <1>4, <1>5, <2>1
  <2> QED
    BY <1>2, <1>4, <1>5, <2>1, <2>3, <2>4 DEF k, b, x, c
<1>7. CASE ~p.inTerminator
  <2>1. o = b + c /\ here = x
    BY <1>1, <1>2, <1>3, <1>4, <1>7
  <2>2. c < Len(here) => c \in 0..(Len(x) - 1)
    BY <1>1, <1>5, <2>1
  <2>3. c < Len(here) => o < Len(joined) /\ joined[o + 1] = here[c + 1]
    BY <1>4, <2>1, <2>2
  <2>4. o \in Nat
    BY <1>1, <1>4, <2>1
  <2> QED
    BY <1>2, <1>4, <1>5, <2>1, <2>3, <2>4 DEF k, b, x, c
<1> QED
  BY <1>6, <1>7

LEMMA ReadyFromNext ==
  ASSUME NEW ls \in Texts, NEW terminator \in Seq(Int), NEW p \in Position(ls)
  PROVE  \/ \E r \in Cursors : /\ ReadyAt(ls, terminator, p, r)
                               /\ \A f : ReadyFrom(ls, terminator, f, p) = r
         \/ \E q \in Position(ls) : /\ LinesLeft(ls, q) < LinesLeft(ls, p)
                                    /\ Place(ls, terminator, q) = Place(ls, terminator, p)
                                    /\ q.current = p.current
                                    /\ \A f : ReadyFrom(ls, terminator, f, p) = f[q]
<1> DEFINE n == Len(ls)
           here == CurrentLine(ls, terminator, p)
           rest == p.char - Len(here)
           leaves == p.inTerminator \/ terminator = <<>>
           q == [p EXCEPT !.char = rest, !.inTerminator = FALSE, !.line = @ + 1]
           t == [p EXCEPT !.char = rest, !.inTerminator = TRUE]
           joined == JoinLines(ls, terminator)
           o == Place(ls, terminator, p)
           k == p.line
           J(i) == Len(LinesJoined(ls, terminator, i))
           x == Len(ls[k + 1])
           R(f) == ReadyFrom(ls, terminator, f, p)
<1>1. /\ here \in Seq(Int) /\ o \in Nat
      /\ p.char < Len(here) => o < Len(joined) /\ joined[o + 1] = here[p.char + 1]
      /\ o = J(k) + (IF p.inTerminator THEN x ELSE 0) + p.char
      /\ J(k + 1) = J(k) + x + Len(terminator)
      /\ J(k) \in Nat /\ x \in Nat
  BY PlaceNow, Zenon
<1>2. /\ k \in 0..(n - 1) /\ p.char \in Nat /\ p.inTerminator \in BOOLEAN /\ p.current \in Int
      /\ p.atEnd = FALSE /\ n \in Nat /\ Len(terminator) \in Nat /\ Len(here) \in Nat /\ rest \in Int
  <2>1. /\ k \in 0..(n - 1) /\ p.char \in Nat /\ p.inTerminator \in BOOLEAN /\ p.current \in Int
        /\ p.atEnd = FALSE
    BY DEF Position
  <2>2. n \in Nat /\ Len(terminator) \in Nat
    BY DEF Texts
  <2>3. Len(here) \in Nat
    BY <1>1
  <2> HIDE DEF here
  <2>4. rest \in Int
    BY <2>1, <2>3
  <2> QED
    BY <2>1, <2>2, <2>3, <2>4
<1>3. here = IF p.inTerminator THEN terminator ELSE ls[k + 1]
  BY DEF CurrentLine
<1>4. CASE rest < 0
  <2> DEFINE u == [p EXCEPT !.current = here[p.char + 1]]
  <2>1. \A f : R(f) = u
    BY <1>4, Zenon DEF ReadyFrom
  <2>2. p.char < Len(here) /\ here[p.char + 1] \in Int
    <3> HIDE DEF here
    <3>1. p.char < Len(here)
      BY <1>2, <1>4
    <3> QED
      BY <1>1, <1>2, <3>1
  <2>3. u \in Position(ls)
    BY <2>2 DEF Position
  <2>4. u.line = k /\ u.char = p.char /\ u.inTerminator = p.inTerminator /\ u.current = here[p.char + 1]
    BY <2>2 DEF Position
  <2> HIDE DEF u
  <2>5. Place(ls, terminator, u) = o
    BY <2>4 DEF Place
  <2>6. u \in Cursors
    <3>1. \A z \in Position(ls) : z \in Cursors
      <4>1. 0..(n - 1) \subseteq Nat /\ {FALSE} \subseteq BOOLEAN
        BY <1>2
      <4> QED
        BY <4>1 DEF Position, Cursors
    <3> QED
      BY <2>3, <3>1
  <2>7. OnChar(ls, terminator, u) /\ o < Len(joined)
    BY <1>1, <2>2, <2>3, <2>4, <2>5 DEF OnChar
  <2> QED
    BY <2>1, <2>5, <2>6, <2>7 DEF ReadyAt
<1>5. CASE ~(rest < 0) /\ ~leaves
  <2>1. \A f : R(f) = f[t]
    BY <1>5, Zenon DEF ReadyFrom
  <2>2. rest \in Nat /\ ~p.inTerminator
    BY <1>2, <1>5
  <2>3. t \in Position(ls) /\ t.line = k /\ t.char = rest /\ t.inTerminator = TRUE /\ t.current = p.current
    <3> HIDE DEF rest
    <3> QED
      BY <2>2 DEF Position
  <2> HIDE DEF t
  <2>4. Place(ls, terminator, t) = J(k) + x + rest
    BY <2>3 DEF Place
  <2>5. Place(ls, terminator, t) = o
    <3>1. o = J(k) + p.char /\ rest = p.char - x
      BY <1>1, <1>2, <1>3, <2>2
    <3> HIDE DEF rest, x, o, J
    <3> QED
      BY <1>1, <1>2, <2>4, <3>1
  <2>6. LinesLeft(ls, t) < LinesLeft(ls, p)
    <3>1. LinesLeft(ls, t) = 2 * (n - k) - 1 /\ LinesLeft(ls, p) = 2 * (n - k) - 0
      BY <2>2, <2>3 DEF LinesLeft
    <3> QED
      BY <1>2, <3>1
  <2> QED
    BY <2>1, <2>3, <2>5, <2>6
<1>6. CASE ~(rest < 0) /\ leaves
  <2>1. rest \in Nat
    BY <1>2, <1>6
  <2>2. q.line = k + 1 /\ q.char = rest /\ q.inTerminator = FALSE /\ q.current = p.current
        /\ q \in Cursors /\ q.atEnd = FALSE
    <3>1. p \in Cursors
      <4>1. 0..(n - 1) \subseteq Nat /\ {FALSE} \subseteq BOOLEAN
        BY <1>2
      <4> QED
        BY <4>1 DEF Position, Cursors
    <3>2. PICK w : w = [p EXCEPT !.char = rest, !.inTerminator = FALSE, !.line = @ + 1]
      OBVIOUS
    <3>3. q = w
      BY <3>2
    <3>4. PICK m \in Nat : m = rest
      BY <2>1
    <3>5. w = [p EXCEPT !.char = m, !.inTerminator = FALSE, !.line = @ + 1]
      BY <3>2, <3>4
    <3>6. w = [line |-> p.line + 1, char |-> m, inTerminator |-> FALSE, atEnd |-> p.atEnd,
               current |-> p.current]
      BY <3>1, <3>5 DEF Cursors
    <3>7. /\ w.line = p.line + 1 /\ w.char = m /\ w.inTerminator = FALSE /\ w.current = p.current
          /\ w \in Cursors /\ w.atEnd = p.atEnd
      BY <3>1, <3>6 DEF Cursors
    <3> QED
      BY <1>2, <3>3, <3>4, <3>7
  <2> HIDE DEF q
  <2>3. J(k + 1) + rest = o
    <3>1. CASE p.inTerminator
      <4>1. o = J(k) + x + p.char /\ rest = p.char - Len(terminator)
        BY <1>1, <1>3, <3>1
      <4> HIDE DEF rest, x, o, J
      <4> QED
        BY <1>1, <1>2, <4>1
    <3>2. CASE ~p.inTerminator
      <4>1. terminator = <<>>
        BY <1>6, <3>2
      <4>2. Len(terminator) = 0
        BY <4>1
      <4>3. o = J(k) + p.char /\ rest = p.char - x
        BY <1>1, <1>2, <1>3, <3>2
      <4> HIDE DEF rest, x, o, J
      <4> QED
        BY <1>1, <1>2, <4>2, <4>3
    <3> QED
      BY <3>1, <3>2
  <2>4. CASE k + 1 >= n
    <3> DEFINE u == [q EXCEPT !.atEnd = TRUE]
    <3>1. \A f : R(f) = u
      BY <1>6, <2>2, <2>4, Zenon DEF ReadyFrom, q
    <3>2. u \in Cursors /\ u.atEnd /\ u.current = p.current
      BY <2>2 DEF Cursors
    <3> HIDE DEF u
    <3>3. k + 1 = n
      BY <1>2, <2>4
    <3>4. J(n) = Len(joined)
      BY LinesJoinedAre
    <3>5. ~(o < Len(joined))
      <4> HIDE DEF rest, o, J
      <4>1. J(n) + rest = o /\ J(n) = Len(joined)
        BY <2>3, <3>3, <3>4
      <4>2. Len(joined) \in Nat
        <5>1. J(n) = J(k) + x + Len(terminator)
          BY <1>1, <3>3 DEF J
        <5>2. J(k) \in Nat
          BY <1>1 DEF J
        <5> HIDE DEF x, k, n, joined
        <5>3. J(n) \in Nat
          BY <1>1, <1>2, <5>1, <5>2
        <5> QED
          BY <4>1, <5>3
      <4> QED
        BY <2>1, <4>1, <4>2
    <3> QED
      BY <3>1, <3>2, <3>5 DEF ReadyAt
  <2>5. CASE ~(k + 1 >= n)
    <3>1. \A f : R(f) = f[q]
      BY <1>6, <2>2, <2>5, Zenon DEF ReadyFrom, q
    <3>2. q \in Position(ls)
      <4>1. k + 1 \in 0..(n - 1)
        BY <1>2, <2>5
      <4> HIDE DEF rest, k, n
      <4> QED
        BY <1>2, <2>1, <2>2, <4>1 DEF Position, Cursors, n
    <3>3. Place(ls, terminator, q) = J(k + 1) + 0 + rest
      BY <2>2 DEF Place
    <3>4. Place(ls, terminator, q) = o
      <4>1. J(k + 1) \in Nat
        BY <1>1, <1>2
      <4> QED
        BY <2>1, <2>3, <3>3, <4>1
    <3>5. LinesLeft(ls, q) < LinesLeft(ls, p)
      <4>1. /\ LinesLeft(ls, q) = 2 * (n - (k + 1)) - 0
            /\ LinesLeft(ls, p) = 2 * (n - k) - 0 \/ LinesLeft(ls, p) = 2 * (n - k) - 1
        BY <2>2 DEF LinesLeft
      <4> QED
        BY <1>2, <4>1
    <3> QED
      BY <2>2, <3>1, <3>2, <3>4, <3>5
  <2> QED
    BY <2>4, <2>5
<1> QED
  BY <1>4, <1>5, <1>6

LEMMA EnsureReady ==
  ASSUME NEW ls \in Texts, NEW terminator \in Seq(Int), NEW p \in Position(ls)
  PROVE  /\ EnsureCharReady(ls, terminator, p) \in Cursors
         /\ ReadyAt(ls, terminator, p, EnsureCharReady(ls, terminator, p))
<1> DEFINE D == Position(ls)
           V == Cursors
           B(f, q) == ReadyFrom(ls, terminator, f, q)
           mu == [q \in D |-> LinesLeft(ls, q)]
           Step == [x \in D \X [D -> V] |-> B(x[2], x[1])]
           Is(f) == f = [q \in D |-> B(f, q)]
           v == [line |-> 0, char |-> 0, inTerminator |-> FALSE, atEnd |-> FALSE, current |-> 0]
<1>1. mu \in [D -> Nat] /\ v \in V
  <2>1. ASSUME NEW q \in D PROVE LinesLeft(ls, q) \in Nat
    <3>1. Len(ls) \in Nat /\ q.line \in 0..(Len(ls) - 1)
      BY DEF Texts, Position
    <3> QED
      BY <3>1 DEF LinesLeft
  <2>2. v \in V
    BY DEF Cursors
  <2> HIDE DEF D, v, V
  <2> QED
    BY <2>1, <2>2
<1>2. ASSUME NEW d \in D, NEW g, NEW h,
             \A e \in D : mu[e] < mu[d] => g[e] \in V /\ g[e] = h[e]
      PROVE  B(g, d) \in V /\ B(g, d) = B(h, d)
  <2>1. \A e \in D : LinesLeft(ls, e) < LinesLeft(ls, d) => g[e] \in V /\ g[e] = h[e]
    BY <1>2
  <2> HIDE DEF D, V, mu
  <2>2. \/ \E r \in V : \A f : B(f, d) = r
        \/ \E e \in D : LinesLeft(ls, e) < LinesLeft(ls, d) /\ \A f : B(f, d) = f[e]
    BY ReadyFromNext, Zenon DEF D, V
  <2> HIDE DEF B
  <2> QED
    BY <2>1, <2>2
<1>3. Step \in [D \X [D -> V] -> V]
  <2>1. ASSUME NEW x \in D \X [D -> V] PROVE B(x[2], x[1]) \in V
    <3>1. x[1] \in D /\ x[2] \in [D -> V]
      OBVIOUS
    <3> HIDE DEF D, V, mu, B
    <3> QED
      BY <1>2, <3>1
  <2> HIDE DEF D, V, B
  <2> QED
    BY <2>1
<1>4. \E f : Is(f)
  <2>1. PICK f \in [D -> V] : \A d \in D : f[d] = Step[<<d, f>>]
    <3> HIDE DEF D, V, mu, v, B
    <3>1. \A d \in D : \A g, h \in [D -> V] :
            (\A e \in D : mu[e] < mu[d] => g[e] = h[e]) => Step[<<d, g>>] = Step[<<d, h>>]
      BY <1>2
    <3> HIDE DEF Step
    <3>2. Recursive(D, V, v, mu, Step)
      BY <1>1, <1>3, <3>1, Zenon DEF Recursive
    <3> QED
      BY <3>2, Recursion
  <2>2. f = [d \in D |-> B(f, d)]
    <3> HIDE DEF D, V, B
    <3> QED
      BY <2>1
  <2> QED
    BY <2>2
<1> DEFINE f == CHOOSE f : Is(f)
<1>5. Is(f)
  BY <1>4, Zenon
<1>6. EnsureCharReady(ls, terminator, p) = f[p]
  <2>1. ~p.atEnd
    BY DEF Position
  <2> QED
    BY <2>1, Zenon DEF EnsureCharReady, ReadyFrom
<1> HIDE DEF f
<1> DEFINE Good(q) == f[q] \in V /\ ReadyAt(ls, terminator, q, f[q])
           good == [q \in D |-> Good(q)]
<1>7. \A q \in D : good[q] \in {TRUE}
  <2>1. ASSUME NEW q \in D, \A e \in D : mu[e] < mu[q] => Good(e) PROVE Good(q)
    <3>1. f[q] = B(f, q)
      <4> HIDE DEF D, B
      <4> QED
        BY <1>5
    <3>2. CASE \E r \in V : ReadyAt(ls, terminator, q, r) /\ \A h : B(h, q) = r
      <4> HIDE DEF B, V
      <4> QED
        BY <3>1, <3>2
    <3>3. CASE \E e \in D : /\ LinesLeft(ls, e) < LinesLeft(ls, q)
                            /\ Place(ls, terminator, e) = Place(ls, terminator, q)
                            /\ e.current = q.current
                            /\ \A h : B(h, q) = h[e]
      <4>1. PICK e \in D : /\ mu[e] < mu[q]
                           /\ Place(ls, terminator, e) = Place(ls, terminator, q)
                           /\ e.current = q.current
                           /\ \A h : B(h, q) = h[e]
        <5> HIDE DEF B, D
        <5> QED
          BY <3>3
      <4>2. f[q] = f[e]
        <5> HIDE DEF B
        <5> QED
          BY <3>1, <4>1
      <4>3. Good(e)
        BY <2>1, <4>1
      <4> HIDE DEF D, V, B, mu
      <4> QED
        BY <4>1, <4>2, <4>3 DEF ReadyAt
    <3> QED
      BY <3>2, <3>3, ReadyFromNext, Zenon
  <2>2. ASSUME NEW q \in D, \A e \in D : mu[e] < mu[q] => good[e] \in {TRUE} PROVE good[q] \in {TRUE}
    <3>1. \A e \in D : good[e] = Good(e)
      <4> HIDE DEF D, Good
      <4> QED
        OBVIOUS
    <3> HIDE DEF D, mu, Good, good
    <3> QED
      BY <2>1, <2>2, <3>1
  <2> DEFINE T == {TRUE}
  <2>3. \A q \in D : (\A e \in D : mu[e] < mu[q] => good[e] \in T) => good[q] \in T
    BY <2>2
  <2> HIDE DEF D, mu, good, V, v, T
  <2>4. \A q \in D : good[q] \in T
    BY <1>1, <2>3, TypedByPlaces
  <2> QED
    BY <2>4 DEF T
<1>8. good[p] = Good(p)
  <2> HIDE DEF Good
  <2> QED
    OBVIOUS
<1>9. Good(p)
  <2>1. good[p] \in {TRUE}
    BY <1>7
  <2> HIDE DEF good, Good
  <2> QED
    BY <1>8, <2>1
<1> QED
  BY <1>6, <1>9

----------------------------------------------------------------------------
(* The reader of the parser *)

\* Before the first character, on one, or behind the last.
Reading(ls, terminator, p) ==
  \/ p = ResetPosition(ls)
  \/ OnChar(ls, terminator, p)
  \/ p \in Cursors /\ p.atEnd

\* A mark the reader may go back to.
Returnable(ls, terminator, m, p) ==
  OnChar(ls, terminator, m) /\ CharsRead(ls, terminator, m) <= CharsRead(ls, terminator, p)

MarksBehind(ls, terminator, sc, m, em, p) ==
  /\ sc \in {"entity", "tagEntity"} => Returnable(ls, terminator, em, p)
  /\ sc \in {"tag", "tagEntity"} => Returnable(ls, terminator, m, p)
  /\ sc = "tagEntity" => Returnable(ls, terminator, m, em)

(* The cursor is a place in the joined text, and so is every mark that is   *)
(* still to be gone back to; the mark of a tag lies before that of an       *)
(* entity in it.                                                            *)
ReaderInv ==
  /\ message \in Seq(Parts) /\ part \in 0..Len(message) /\ lines \in Texts
  /\ Reading(lines, Terminator, pos)
  /\ MarksBehind(lines, Terminator, scan, mark, entityMark, pos)

\* One character further.
Further(p) == [p EXCEPT !.char = @ + 1]

LEMMA FurtherIn ==
  ASSUME NEW ls \in Texts, NEW p \in Position(ls)
  PROVE  /\ p.line \in 0..Len(ls) /\ p.char \in Nat /\ p.inTerminator \in BOOLEAN /\ p.atEnd = FALSE
         /\ Further(p) \in Position(ls) /\ Further(p).line = p.line /\ Further(p).char = p.char + 1
         /\ Further(p).inTerminator = p.inTerminator /\ Further(p).current = p.current
<1> DEFINE w == Further(p)
<1>1. p.line \in 0..(Len(ls) - 1)
  BY DEF Position
<1>2. p.char \in Nat /\ p.inTerminator \in BOOLEAN /\ p.atEnd = FALSE
  BY DEF Position
<1>3. PICK m \in Nat : m = p.char + 1
  BY <1>2
<1>4. w = [p EXCEPT !.char = m]
  BY <1>3 DEF Further
<1> HIDE DEF w
<1>5. w \in Position(ls)
  BY <1>4 DEF Position
<1>6. w.line = p.line /\ w.char = m /\ w.inTerminator = p.inTerminator /\ w.current = p.current
  BY <1>4 DEF Position
<1>7. Len(ls) \in Nat
  BY DEF Texts
<1> QED
  BY <1>1, <1>2, <1>3, <1>5, <1>6, <1>7 DEF w

LEMMA FurtherAtStart ==
  ASSUME NEW ls
  PROVE  Further(ResetPosition(ls)) =
           [line |-> 0, char |-> 0, inTerminator |-> FALSE, atEnd |-> ls = <<>>, current |-> Space]
<1> DEFINE w == Further(ResetPosition(ls))
<1>1. PICK b \in BOOLEAN : b = (ls = <<>>)
  OBVIOUS
<1>2. PICK p : p = [line |-> 0, char |-> -1, inTerminator |-> FALSE, atEnd |-> b, current |-> Space]
  OBVIOUS
<1>3. w = [p EXCEPT !.char = @ + 1]
  BY <1>1, <1>2 DEF ResetPosition, Further
<1>4. w = [p EXCEPT !.char = 0]
  <2>1. p.char = -1 /\ -1 + 1 = 0
    BY <1>2
  <2>2. p.char + 1 = 0
    BY <2>1
  <2> QED
    BY <1>3, <2>2
<1> HIDE DEF w
<1>5. w = [line |-> 0, char |-> 0, inTerminator |-> FALSE, atEnd |-> b, current |-> Space]
  BY <1>2, <1>4
<1> QED
  BY <1>1, <1>5 DEF w

LEMMA FurtherAtEnd ==
  ASSUME NEW p \in Cursors
  PROVE  Further(p) \in Cursors /\ Further(p).atEnd = p.atEnd /\ Further(p).current = p.current
  BY DEF Cursors, Further

\* On a character, the cursor has read the characters up to that one.
LEMMA OnCharRead ==
  ASSUME NEW ls \in Texts, NEW terminator \in Seq(Int), NEW p, OnChar(ls, terminator, p),
         NEW joined, joined = JoinLines(ls, terminator)
  PROVE  /\ p \in Position(ls) /\ p.atEnd = FALSE /\ Place(ls, terminator, p) \in Nat
         /\ CharsRead(ls, terminator, p) = Place(ls, terminator, p) + 1
         /\ CharsRead(ls, terminator, p) \in 1..Len(joined)
         /\ p.current = joined[CharsRead(ls, terminator, p)]
<1> DEFINE o == Place(ls, terminator, p)
           x == IF p.inTerminator THEN Len(ls[p.line + 1]) ELSE 0
           b == Len(LinesJoined(ls, terminator, p.line))
<1>1. p \in Position(ls) /\ o < Len(joined) /\ p.current = joined[o + 1]
  BY DEF OnChar
<1>2. p.atEnd = FALSE /\ p.line \in 0..Len(ls) /\ p.char \in Nat /\ p.inTerminator \in BOOLEAN
  BY <1>1, FurtherIn
<1>3. /\ o \in Nat /\ b \in Nat /\ Len(ls[p.line + 1]) \in Nat
      /\ o = b + x + p.char
  BY <1>1, PlaceNow, Zenon
<1>4. Len(joined) \in Nat
  <2>1. Len(ls) \in 0..Len(ls)
    BY DEF Texts
  <2>2. LinesJoined(ls, terminator, Len(ls)) \in Seq(Int)
    BY <2>1, LinesJoinedNext, Zenon
  <2> QED
    BY <2>2, LinesJoinedAre
<1>5. CharsRead(ls, terminator, p) = b + x + p.char + 1
  BY <1>2, LinesJoinedAre DEF CharsRead
<1>6. x \in Nat
  BY <1>2, <1>3
<1> HIDE DEF o, b, x
<1>7. CharsRead(ls, terminator, p) = o + 1
  BY <1>2, <1>3, <1>5, <1>6
<1>8. o + 1 \in 1..Len(joined)
  BY <1>1, <1>3, <1>4
<1> QED
  BY <1>1, <1>2, <1>3, <1>7, <1>8 DEF o

\* What skipping one character leads to from a cursor that has read c of them.
Skipped(ls, terminator, p, joined, c, r) ==
  /\ c \in Nat /\ Len(joined) \in Nat /\ c <= Len(joined)
  /\ c < Len(joined) => /\ ~p.atEnd /\ OnChar(ls, terminator, r) /\ r.atEnd = FALSE
                        /\ CharsRead(ls, terminator, r) = c + 1
                        /\ r.current = joined[c + 1]
  /\ ~(c < Len(joined)) => /\ r \in Cursors /\ r.atEnd /\ r.current = p.current
                           /\ CharsRead(ls, terminator, r) = c

LEMMA SkipOne ==
  ASSUME NEW ls \in Texts, NEW terminator \in Seq(Int), NEW p, Reading(ls, terminator, p)
  PROVE  Skipped(ls, terminator, p, JoinLines(ls, terminator), CharsRead(ls, terminator, p),
                 Skip(ls, terminator, p, 1))
<1>a. PICK joined : joined = JoinLines(ls, terminator)
  OBVIOUS
<1>b. PICK c : c = CharsRead(ls, terminator, p)
  OBVIOUS
<1>c. PICK r : r = Skip(ls, terminator, p, 1)
  OBVIOUS
<1> USE <1>a, <1>b, <1>c
<1> SUFFICES /\ c \in Nat /\ Len(joined) \in Nat /\ c <= Len(joined)
             /\ c < Len(joined) => /\ ~p.atEnd /\ OnChar(ls, terminator, r) /\ r.atEnd = FALSE
                                   /\ CharsRead(ls, terminator, r) = c + 1
                                   /\ r.current = joined[c + 1]
             /\ ~(c < Len(joined)) => /\ r \in Cursors /\ r.atEnd /\ r.current = p.current
                                      /\ CharsRead(ls, terminator, r) = c
  BY DEF Skipped
<1> DEFINE n == Len(joined)
           p1 == Further(p)
<1>1. n \in Nat
  <2>1. Len(ls) \in 0..Len(ls)
    BY DEF Texts
  <2>2. LinesJoined(ls, terminator, Len(ls)) \in Seq(Int)
    BY <2>1, LinesJoinedNext, Zenon
  <2> QED
    BY <2>2, LinesJoinedAre
<1>2. r = EnsureCharReady(ls, terminator, p1)
  BY Zenon DEF Skip, Further
<1>3. ASSUME p1 \in Position(ls), Place(ls, terminator, p1) = c, p1.current = p.current,
             p.atEnd = FALSE, c \in Nat, c <= n
      PROVE  /\ c < n => /\ ~p.atEnd /\ OnChar(ls, terminator, r) /\ r.atEnd = FALSE
                         /\ CharsRead(ls, terminator, r) = c + 1
                         /\ r.current = joined[c + 1]
             /\ ~(c < n) => /\ r \in Cursors /\ r.atEnd /\ r.current = p.current
                            /\ CharsRead(ls, terminator, r) = c
  <2> HIDE DEF p1
  <2>1. r \in Cursors /\ ReadyAt(ls, terminator, p1, r)
    BY <1>2, <1>3, EnsureReady
  <2>2. CASE c < n
    <3>1. OnChar(ls, terminator, r) /\ Place(ls, terminator, r) = c
      BY <1>3, <2>1, <2>2 DEF ReadyAt
    <3>2. r.atEnd = FALSE /\ CharsRead(ls, terminator, r) = c + 1
          /\ r.current = joined[CharsRead(ls, terminator, r)]
      BY <3>1, OnCharRead
    <3> QED
      BY <1>3, <2>2, <3>1, <3>2
  <2>3. CASE ~(c < n)
    <3>1. r.atEnd /\ r.current = p.current
      BY <1>3, <2>1, <2>3 DEF ReadyAt
    <3>2. CharsRead(ls, terminator, r) = n
      BY <3>1 DEF CharsRead
    <3> QED
      BY <1>1, <1>3, <2>1, <2>3, <3>1, <3>2
  <2> QED
    BY <2>2, <2>3
<1>4. ASSUME p.atEnd, p1 \in Cursors, p1.atEnd = p.atEnd, p1.current = p.current
      PROVE  c = n /\ r \in Cursors /\ r.atEnd /\ r.current = p.current /\ CharsRead(ls, terminator, r) = c
  <2>1. c = n
    BY <1>4 DEF CharsRead
  <2>2. r = p1
    BY <1>2, <1>4, Zenon DEF EnsureCharReady
  <2>3. CharsRead(ls, terminator, r) = n
    BY <1>4, <2>2 DEF CharsRead
  <2> QED
    BY <1>4, <2>1, <2>2, <2>3
<1>5. CASE p = ResetPosition(ls)
  <2>1. p1 = [line |-> 0, char |-> 0, inTerminator |-> FALSE, atEnd |-> ls = <<>>, current |-> Space]
    BY <1>5, FurtherAtStart
  <2>5. p.atEnd = (ls = <<>>) /\ p.current = Space
    BY <1>5 DEF ResetPosition
  <2> HIDE DEF p1
  <2>6. p1.current = p.current /\ p1.atEnd = p.atEnd
    BY <2>1, <2>5
  <2>2. LinesJoined(ls, terminator, 0) = <<>>
    BY FirstNone DEF LinesJoined
  <2>3. CASE ls = <<>>
    <3>1. p1 \in Cursors
      BY <2>1 DEF Cursors, Space
    <3>2. p.atEnd
      BY <2>3, <2>5
    <3>3. c = n /\ r \in Cursors /\ r.atEnd /\ r.current = p.current /\ CharsRead(ls, terminator, r) = c
      BY <1>4, <2>6, <3>1, <3>2
    <3> QED
      BY <1>1, <3>3
  <2>4. CASE ls # <<>>
    <3>1. Len(ls) >= 1 /\ Len(ls) \in Nat
      BY <2>4 DEF Texts
    <3>2. p1 \in Position(ls)
      <4>1. 0 \in 0..(Len(ls) - 1) /\ Space \in Int
        BY <3>1 DEF Space
      <4>2. p1 = [line |-> 0, char |-> 0, inTerminator |-> FALSE, atEnd |-> FALSE, current |-> Space]
        BY <2>1, <2>4
      <4> QED
        BY <4>1, <4>2 DEF Position
    <3>3. Place(ls, terminator, p1) = 0
      BY <2>1, <2>2 DEF Place
    <3>4. c = 0
      <4>1. p.atEnd = FALSE /\ p.line = 0 /\ p.char = -1 /\ p.inTerminator = FALSE
        BY <1>5, <2>4, <2>5 DEF ResetPosition
      <4>3. Len(LinesJoined(ls, terminator, 0)) = 0
        BY <2>2
      <4>2. JoinLines(SubSeq(ls, 1, 0), terminator) = <<>>
        BY <2>2, <3>1, LinesJoinedAre
      <4>4. c = 0 + 0 + (-1) + 1
        BY <2>2, <4>1, <4>2, <4>3 DEF CharsRead
      <4> QED
        BY <4>4
    <3>5. p.atEnd = FALSE
      BY <2>4, <2>5
    <3>6. c \in Nat /\ c <= n
      BY <1>1, <3>4
    <3>7. p1 \in Position(ls) /\ Place(ls, terminator, p1) = c /\ p1.current = p.current
      BY <2>6, <3>2, <3>3, <3>4
    <3> QED
      BY <1>1, <1>3, <3>5, <3>6, <3>7, Zenon
  <2> QED
    BY <2>3, <2>4
<1>6. CASE OnChar(ls, terminator, p)
  <2>1. /\ p \in Position(ls) /\ p.atEnd = FALSE /\ Place(ls, terminator, p) \in Nat
        /\ c = Place(ls, terminator, p) + 1 /\ c \in 1..n
    BY <1>6, OnCharRead
  <2>2. p1 \in Position(ls) /\ p1.current = p.current /\ p1.line = p.line /\ p1.char = p.char + 1
        /\ p1.inTerminator = p.inTerminator /\ p.char \in Nat /\ p.inTerminator \in BOOLEAN
    BY <2>1, FurtherIn
  <2> HIDE DEF p1
  <2>3. Place(ls, terminator, p1) = c
    <3> DEFINE x == IF p.inTerminator THEN Len(ls[p.line + 1]) ELSE 0
               b == Len(LinesJoined(ls, terminator, p.line))
    <3>1. Place(ls, terminator, p) = b + x + p.char /\ Place(ls, terminator, p1) = b + x + (p.char + 1)
      BY <2>2 DEF Place
    <3>2. b \in Nat /\ Len(ls[p.line + 1]) \in Nat
      BY <2>1, PlaceNow, Zenon
    <3>3. x \in Nat
      BY <2>2, <3>2
    <3> HIDE DEF x, b
    <3> QED
      BY <2>1, <2>2, <3>1, <3>2, <3>3
  <2>4. c \in Nat /\ c <= n
    BY <1>1, <2>1
  <2> QED
    BY <1>1, <1>3, <2>1, <2>2, <2>3, <2>4, Zenon
<1>7. CASE p \in Cursors /\ p.atEnd
  <2>1. p1 \in Cursors /\ p1.atEnd = p.atEnd /\ p1.current = p.current
    BY <1>7, FurtherAtEnd
  <2> HIDE DEF p1
  <2>2. c = n /\ r \in Cursors /\ r.atEnd /\ r.current = p.current /\ CharsRead(ls, terminator, r) = c
    BY <1>4, <1>7, <2>1
  <2> QED
    BY <1>1, <2>2
<1> QED
  BY <1>5, <1>6, <1>7 DEF Reading

LEMMA TerminatorType == Terminator \in Seq(Int)
<1>1. <<>> \in Seq(Int) /\ <<Space>> \in Seq(Int)
  BY DEF Space
<1> QED
  BY <1>1 DEF Terminator

\* A character is read.
LEMMA Moving ==
  ASSUME ReaderInv, pos' = Next1, UNCHANGED <<lines, message, part>>
  PROVE  /\ Terminator' = Terminator
         /\ Reading(lines, Terminator, Next1)
         /\ ~Next1.atEnd => Returnable(lines, Terminator, Next1, Next1)
         /\ \A m : Returnable(lines, Terminator, m, pos) => Returnable(lines, Terminator, m, Next1)
         /\ Flat!Forward
<1> DEFINE t == Terminator
           joined == JoinLines(lines, t)
           c == CharsRead(lines, t, pos)
           r == Skip(lines, t, pos, 1)
<1>1. t' = t
  BY DEF Terminator, Part
<1>2. lines \in Texts /\ t \in Seq(Int) /\ Reading(lines, t, pos)
  BY TerminatorType DEF ReaderInv
<1>3. r = Next1 /\ pos' = r
  BY DEF Next1
<1>4. joined' = joined /\ CharsRead(lines, t, pos)' = CharsRead(lines, t, r)
  BY <1>1, <1>3
<1> DEFINE d == CharsRead(lines, t, r)
<1>5. Skipped(lines, t, pos, joined, c, r)
  <2> HIDE DEF t
  <2> QED
    BY <1>2, SkipOne, Zenon
<1>7. Flat!Forward <=>
        /\ joined' = joined
        /\ IF c < Len(joined)
           THEN ~pos.atEnd /\ d = c + 1 /\ r.current = joined[c + 1] /\ r.atEnd = FALSE
           ELSE d = c /\ r.atEnd = TRUE /\ r.current = pos.current
  BY <1>3, <1>4 DEF Flat!Forward, FlatText
<1> HIDE DEF joined, c, r, t
<1>8. /\ c \in Nat /\ Len(joined) \in Nat /\ c <= Len(joined)
      /\ c < Len(joined) => /\ ~pos.atEnd /\ OnChar(lines, t, r) /\ r.atEnd = FALSE
                            /\ d = c + 1
                            /\ r.current = joined[c + 1]
      /\ ~(c < Len(joined)) => /\ r \in Cursors /\ r.atEnd /\ r.current = pos.current
                               /\ d = c
  BY <1>5, Zenon DEF Skipped
<1>9. Reading(lines, t, r)
  BY <1>8 DEF Reading
<1>10. d \in Nat /\ c <= d
  BY <1>8
<1>11. r.atEnd \in BOOLEAN
  BY <1>8 DEF Cursors
<1>12. Flat!Forward
  <2> HIDE DEF d
  <2>1. CASE c < Len(joined)
    BY <1>4, <1>7, <1>8, <2>1
  <2>2. CASE ~(c < Len(joined))
    BY <1>4, <1>7, <1>8, <1>11, <2>2
  <2> QED
    BY <2>1, <2>2
<1>13. ~r.atEnd => Returnable(lines, t, r, r)
  BY <1>8, <1>10 DEF Returnable
<1>14. ASSUME NEW m, Returnable(lines, t, m, pos) PROVE Returnable(lines, t, m, r)
  <2>1. OnChar(lines, t, m) /\ CharsRead(lines, t, m) <= c
    BY <1>14 DEF Returnable, c
  <2> DEFINE e == CharsRead(lines, t, m)
  <2>2. e \in 1..Len(JoinLines(lines, t))
    BY <1>2, <2>1, OnCharRead
  <2>3. e <= d
    <3> HIDE DEF e, d
    <3>1. e \in Int
      BY <2>2
    <3>2. e <= c
      BY <2>1 DEF e
    <3> QED
      BY <1>8, <1>10, <3>1, <3>2
  <2> QED
    BY <2>1, <2>3 DEF Returnable
<1> QED
  BY <1>1, <1>3, <1>9, <1>12, <1>13, <1>14, Zenon DEF t

\* The reader goes back to a mark.
LEMMA Returning ==
  ASSUME ReaderInv, NEW m, Returnable(lines, Terminator, m, pos), pos' = m, UNCHANGED <<lines, message, part>>
  PROVE  /\ Terminator' = Terminator
         /\ Reading(lines, Terminator, m)
         /\ Flat!ReturnToMark
<1> DEFINE t == Terminator
           joined == JoinLines(lines, t)
           c == CharsRead(lines, t, pos)
           d == CharsRead(lines, t, m)
<1>1. t' = t
  BY DEF Terminator, Part
<1>2. lines \in Texts /\ t \in Seq(Int) /\ Reading(lines, t, pos)
  BY TerminatorType DEF ReaderInv
<1>3. OnChar(lines, t, m) /\ d <= c
  BY DEF Returnable
<1>4. m.atEnd = FALSE /\ d \in 1..Len(joined) /\ m.current = joined[d]
  <2> HIDE DEF t
  <2> QED
    BY <1>2, <1>3, OnCharRead
<1>5. c \in Nat
  <2> HIDE DEF t
  <2>1. Skipped(lines, t, pos, joined, c, Skip(lines, t, pos, 1))
    BY <1>2, SkipOne, Zenon
  <2> QED
    BY <2>1, Zenon DEF Skipped
<1>6. joined' = joined /\ CharsRead(lines, t, pos)' = d
  BY <1>1
<1>7. Flat!ReturnToMark <=>
        joined' = joined /\ d \in 1..c /\ m.current = joined[d] /\ m.atEnd = FALSE
  BY <1>6 DEF Flat!ReturnToMark, FlatText
<1> HIDE DEF joined, c
<1>9. d \in 1..c
  <2> HIDE DEF d
  <2> QED
    BY <1>3, <1>4, <1>5
<1>10. Flat!ReturnToMark
  BY <1>4, <1>6, <1>7, <1>9
<1>11. Reading(lines, t, m)
  BY <1>3 DEF Reading
<1> QED
  BY <1>1, <1>10, <1>11

LEMMA ResetRead ==
  ASSUME NEW ls \in Texts, NEW terminator \in Seq(Int)
  PROVE  /\ CharsRead(ls, terminator, ResetPosition(ls)) = 0
         /\ ResetPosition(ls).atEnd => JoinLines(ls, terminator) = <<>>
<1> DEFINE p == ResetPosition(ls)
<1>1. /\ p.line = 0 /\ p.char = -1 /\ p.inTerminator = FALSE /\ (p.atEnd <=> ls = <<>>)
  BY DEF ResetPosition
<1> HIDE DEF p
<1>2. LinesJoined(ls, terminator, 0) = <<>>
  BY FirstNone DEF LinesJoined
<1>3. Len(ls) \in Nat
  BY DEF Texts
<1>4. JoinLines(SubSeq(ls, 1, 0), terminator) = <<>>
  <2>1. 0 \in 0..Len(ls)
    BY <1>3
  <2> QED
    BY <1>2, <2>1, LinesJoinedAre
<1>5. ls = <<>> => JoinLines(ls, terminator) = <<>>
  <2>1. ls = <<>> => Len(ls) = 0
    OBVIOUS
  <2> QED
    BY <1>2, <2>1, LinesJoinedAre
<1>6. CharsRead(ls, terminator, p) = 0
  <2>1. CASE p.atEnd
    BY <1>1, <1>5, <2>1 DEF CharsRead
  <2>2. CASE ~p.atEnd
    <3>1. CharsRead(ls, terminator, p) = Len(<<>>) + 0 + (-1) + 1
      BY <1>1, <1>4, <2>2 DEF CharsRead
    <3> QED
      BY <3>1
  <2> QED
    BY <2>1, <2>2
<1> QED
  BY <1>1, <1>5, <1>6 DEF p

\* The marks of a reader that has moved, or has not.
LEMMA MarksKept ==
  ASSUME ReaderInv, UNCHANGED <<lines, message, part>>, Terminator' = Terminator,
         Reading(lines, Terminator, pos'),
         MarksBehind(lines, Terminator, scan', mark', entityMark', pos')
  PROVE  ReaderInv'
<1>1. Reading(lines, Terminator, pos)' /\ MarksBehind(lines, Terminator, scan, mark, entityMark, pos)'
  BY Zenon DEF Reading, MarksBehind
<1> QED
  BY <1>1, Zenon DEF ReaderInv

FlatStep == [Flat!Forward \/ Flat!ReturnToMark \/ Flat!Reopen]_(Flat!flatVars)

\* What does not concern the reader.
LEMMA ReaderRests ==
  ASSUME ReaderInv, UNCHANGED <<lines, pos, message, part>>,
         \/ scan' \notin {"entity", "tag", "tagEntity"}
         \/ UNCHANGED <<scan, mark, entityMark>>
  PROVE  ReaderInv' /\ FlatStep
<1>1. Terminator' = Terminator
  BY DEF Terminator, Part
<1>2. MarksBehind(lines, Terminator, scan', mark', entityMark', pos')
  <2>1. CASE scan' \notin {"entity", "tag", "tagEntity"}
    BY <2>1, Zenon DEF MarksBehind
  <2>2. CASE UNCHANGED <<scan, mark, entityMark>>
    BY <2>2, Zenon DEF ReaderInv
  <2> QED
    BY <2>1, <2>2
<1>3. ReaderInv'
  <2>1. Reading(lines, Terminator, pos')
    BY DEF ReaderInv
  <2> QED
    BY <1>1, <1>2, <2>1, MarksKept
<1>4. UNCHANGED Flat!flatVars
  BY <1>1 DEF Flat!flatVars, FlatText
<1> QED
  BY <1>3, <1>4 DEF FlatStep

LEMMA ReaderReads ==
  ASSUME ReaderInv, ReadChar \/ ReadEntity \/ ReadTag
  PROVE  ReaderInv' /\ FlatStep
<1> DEFINE Moves == pos' = Next1 /\ UNCHANGED <<lines, message, part>>
           B(m, p) == Returnable(lines, Terminator, m, p)
           M(sc, m, em, p) == MarksBehind(lines, Terminator, sc, m, em, p)
<1>1. M(scan, mark, entityMark, pos)
  BY DEF ReaderInv
<1>2. ASSUME Moves, (~Next1.atEnd => B(Next1, Next1)) /\ (\A m : B(m, pos) => B(m, Next1))
                      => M(scan', mark', entityMark', Next1)
      PROVE  ReaderInv' /\ FlatStep
  <2>1. /\ Terminator' = Terminator /\ Reading(lines, Terminator, Next1) /\ Flat!Forward
        /\ ~Next1.atEnd => B(Next1, Next1)
        /\ \A m : B(m, pos) => B(m, Next1)
    BY <1>2, Moving
  <2>2. M(scan', mark', entityMark', pos') /\ Reading(lines, Terminator, pos')
    <3> HIDE DEF B, M
    <3> QED
      BY <1>2, <2>1
  <2>3. ReaderInv'
    BY <1>2, <2>1, <2>2, MarksKept
  <2> QED
    BY <2>1, <2>3 DEF FlatStep
<1>3. ASSUME NEW m, B(m, pos), pos' = m, UNCHANGED <<lines, message, part>>,
             M(scan', mark', entityMark', m)
      PROVE  ReaderInv' /\ FlatStep
  <2>1. Terminator' = Terminator /\ Reading(lines, Terminator, m) /\ Flat!ReturnToMark
    BY <1>3, Returning
  <2>2. M(scan', mark', entityMark', pos') /\ Reading(lines, Terminator, pos')
    BY <1>3, <2>1
  <2>3. ReaderInv'
    BY <1>3, <2>1, <2>2, MarksKept
  <2> QED
    BY <2>1, <2>3 DEF FlatStep
<1>4. CASE ReadChar
  <2>1. Moves
    BY <1>4 DEF ReadChar, inputVars
  <2>2. CASE scan' \notin {"entity", "tag", "tagEntity"}
    BY <1>2, <2>1, <2>2 DEF MarksBehind
  <2>3. CASE scan' = "entity" /\ entityMark' = Next1 /\ ~Next1.atEnd
    BY <1>2, <2>1, <2>3 DEF MarksBehind
  <2>4. CASE scan' = "tag" /\ mark' = Next1 /\ ~Next1.atEnd
    BY <1>2, <2>1, <2>4 DEF MarksBehind
  <2> QED
    BY <1>4, <2>2, <2>3, <2>4 DEF ReadChar, Yield, CreateMark
<1>5. CASE ReadEntity
  <2>1. /\ UNCHANGED <<lines, mark, entityMark, message, part>> /\ scan \in {"entity", "tagEntity"}
        /\ \/ pos' = Next1 /\ scan' = scan
           \/ pos' = Next1 /\ \E c : AfterEntity(c)
           \/ pos' = entityMark /\ \E c : AfterEntity(c)
    BY <1>5, Zenon DEF ReadEntity, inputVars
  <2>2. ASSUME NEW c, AfterEntity(c)
        PROVE  \/ scan = "entity" /\ scan' = "char"
               \/ scan = "tagEntity" /\ scan' = "tag"
    BY <2>1, <2>2 DEF AfterEntity, Yield
  <2>3. /\ B(entityMark, pos)
        /\ scan = "tagEntity" => B(mark, pos) /\ B(mark, entityMark)
    BY <1>1, <2>1 DEF MarksBehind
  <2>4. CASE pos' = Next1 /\ scan' = scan
    <3>1. (\A m : B(m, pos) => B(m, Next1)) => M(scan', mark', entityMark', Next1)
      BY <2>1, <2>3, <2>4 DEF MarksBehind
    <3> HIDE DEF M, B
    <3> QED
      BY <1>2, <2>1, <2>4, <3>1
  <2>5. CASE pos' = Next1 /\ \E c : AfterEntity(c)
    <3>1. (\A m : B(m, pos) => B(m, Next1)) => M(scan', mark', entityMark', Next1)
      BY <2>1, <2>2, <2>3, <2>5 DEF MarksBehind
    <3> HIDE DEF M, B
    <3> QED
      BY <1>2, <2>1, <2>5, <3>1
  <2>6. CASE pos' = entityMark /\ \E c : AfterEntity(c)
    <3>1. M(scan', mark', entityMark', entityMark)
      BY <2>1, <2>2, <2>3, <2>6 DEF MarksBehind
    <3> HIDE DEF M, B
    <3> QED
      BY <1>3, <2>1, <2>3, <2>6, <3>1
  <2> QED
    BY <2>1, <2>4, <2>5, <2>6
<1>6. CASE ReadTag
  <2>1. /\ UNCHANGED <<lines, mark, message, part>> /\ scan = "tag"
        /\ \/ pos' = Next1 /\ scan' \in {"read", "char"}
           \/ pos' = mark /\ scan' = "char"
           \/ pos' = Next1 /\ scan' = "tagEntity" /\ entityMark' = Next1 /\ ~Next1.atEnd
           \/ pos' = Next1 /\ scan' = scan
    BY <1>6 DEF ReadTag, CloseTag, RewindTag, Yield, CreateMark, inputVars
  <2>2. B(mark, pos)
    BY <1>1, <2>1 DEF MarksBehind
  <2>3. CASE pos' = Next1 /\ scan' \in {"read", "char"}
    <3>1. M(scan', mark', entityMark', Next1)
      BY <2>3 DEF MarksBehind
    <3> HIDE DEF M, B
    <3> QED
      BY <1>2, <2>1, <2>3, <3>1
  <2>4. CASE pos' = mark /\ scan' = "char"
    <3>1. M(scan', mark', entityMark', mark)
      BY <2>4 DEF MarksBehind
    <3> HIDE DEF M, B
    <3> QED
      BY <1>3, <2>1, <2>2, <2>4, <3>1
  <2>5. CASE pos' = Next1 /\ scan' = "tagEntity" /\ entityMark' = Next1 /\ ~Next1.atEnd
    <3>1. (~Next1.atEnd => B(Next1, Next1)) /\ (\A m : B(m, pos) => B(m, Next1))
            => M(scan', mark', entityMark', Next1)
      BY <2>1, <2>2, <2>5 DEF MarksBehind
    <3> HIDE DEF M, B
    <3> QED
      BY <1>2, <2>1, <2>5, <3>1
  <2>6. CASE pos' = Next1 /\ scan' = scan
    <3>1. (\A m : B(m, pos) => B(m, Next1)) => M(scan', mark', entityMark', Next1)
      BY <2>1, <2>2, <2>6 DEF MarksBehind
    <3> HIDE DEF M, B
    <3> QED
      BY <1>2, <2>1, <2>6, <3>1
  <2> QED
    BY <2>1, <2>3, <2>4, <2>5, <2>6
<1> QED
  BY <1>4, <1>5, <1>6

LEMMA ReaderReopens == ASSUME ReaderInv, StartPart PROVE ReaderInv' /\ FlatStep
<1>1. /\ message' = message /\ part' = part + 1 /\ part < Len(message)
      /\ lines' = DecodedLines(message[part']) /\ pos' = ResetPosition(lines') /\ scan' = "read"
  BY DEF StartPart
<1>2. part' \in 1..Len(message) /\ part' \in 0..Len(message') /\ message' \in Seq(Parts)
  BY <1>1 DEF ReaderInv
<1>3. message[part'] \in Parts
  BY <1>2, <1>1
<1>4. lines' \in Texts
  BY <1>1, <1>3, DecodedType
<1>5. Terminator' \in Seq(Int)
  <2>1. <<>> \in Seq(Int) /\ <<Space>> \in Seq(Int)
    BY DEF Space
  <2> QED
    BY <2>1 DEF Terminator
<1>6. Reading(lines', Terminator', pos')
  BY <1>1 DEF Reading
<1>7. MarksBehind(lines', Terminator', scan', mark', entityMark', pos')
  BY <1>1, Zenon DEF MarksBehind
<1>8. ReaderInv'
  BY <1>2, <1>4, <1>6, <1>7, Zenon DEF ReaderInv, Reading, MarksBehind
<1>9. /\ CharsRead(lines', Terminator', ResetPosition(lines')) = 0
      /\ ResetPosition(lines').atEnd => JoinLines(lines', Terminator') = <<>>
  BY <1>4, <1>5, ResetRead
<1>10. Flat!Reopen
  BY <1>1, <1>9 DEF Flat!Reopen, FlatText
<1> QED
  BY <1>8, <1>10 DEF FlatStep

LEMMA ReaderStep == ASSUME ReaderInv, [Next]_vars PROVE ReaderInv' /\ FlatStep
<1>1. CASE TagChar \/ TagEnd \/ AddTerm \/ Stop \/ UNCHANGED vars
  <2>1. UNCHANGED <<lines, pos, message, part, scan, mark, entityMark>>
    BY <1>1 DEF TagChar, TagEnd, AddTerm, Stop, vars, readerVars, htmlVars, chainVars, inputVars
  <2> QED
    BY <2>1, ReaderRests
<1>2. CASE TokenizeChar \/ EndOfText
  <2>1. UNCHANGED <<lines, pos, message, part>> /\ scan' \in {"read", "idle"}
    BY <1>2 DEF TokenizeChar, EndOfText, readerVars, inputVars
  <2> QED
    BY <2>1, ReaderRests
<1> QED
  BY <1>1, <1>2, ReaderReads, ReaderReopens DEF Next

LEMMA ReaderStart == Init => ReaderInv /\ Flat!FlatInit
<1> SUFFICES ASSUME Init PROVE ReaderInv /\ Flat!FlatInit
  OBVIOUS
<1>1. message \in Seq(Parts) /\ part = 0 /\ lines = <<>> /\ pos = ResetPosition(<<>>) /\ scan = "idle"
  BY TextAssumption DEF Init
<1>2. Len(message) \in Nat /\ lines \in Texts
  BY <1>1 DEF Texts
<1>3. Reading(lines, Terminator, pos) /\ MarksBehind(lines, Terminator, scan, mark, entityMark, pos)
  BY <1>1 DEF Reading, MarksBehind
<1>4. ReaderInv
  BY <1>1, <1>2, <1>3 DEF ReaderInv
<1>5. /\ CharsRead(lines, Terminator, ResetPosition(lines)) = 0
      /\ ResetPosition(lines).atEnd => JoinLines(lines, Terminator) = <<>>
  BY <1>2, TerminatorType, ResetRead
<1> QED
  BY <1>1, <1>4, <1>5 DEF Flat!FlatInit, FlatText

(* Whatever a message consists of and however its texts are divided into    *)
(* lines, the parser reads each of them like one string: every forward      *)
(* gives the character after the last one, each terminator as if it were    *)
(* part of the text, and going back to a mark reads again what is behind    *)
(* it. (SimpleMultiLineStringCharReader)                                    *)
THEOREM ReadsLikeOne == TextSpec => ReadsLikeOneString
<1>1. ReaderInv /\ [Next]_vars => ReaderInv' /\ FlatStep
  BY ReaderStep
<1> QED
  BY <1>1, ReaderStart, PTL DEF TextSpec, ReadsLikeOneString, Flat!FlatSpec, FlatStep
=============================================================================
