------------------------- MODULE MessageCountsProofs -------------------------
(***************************************************************************)
(* Proofs about MessageCounts, for every set of messages, terms, limits    *)
(* and number of interrupts.                                               *)
(***************************************************************************)
EXTENDS MessageCounts, FiniteSetTheorems, TLAPS

-----------------------------------------------------------------------------
(* Finite sums, as MapThenSumSet computes them *)

\* A set of subsets of a finite set has one without a smaller one.
LEMMA SmallestSubset ==
  ASSUME NEW S, IsFiniteSet(S), NEW B, B \subseteq SUBSET S, B # {}
  PROVE  \E T \in B : \A U \in B : U \subseteq T => U = T
<1>1. IsWellFoundedOn(StrictSubsetOrdering(S), SUBSET S)
  BY FS_StrictSubsetOrderingWellFounded, FS_FiniteSubsetsOfFinite
<1>2. \E T \in B : \A U \in B : ~(<<U, T>> \in StrictSubsetOrdering(S))
  BY <1>1, WFMin
<1> QED
  BY <1>2 DEF StrictSubsetOrdering

\* The recursion of MapThenSumSet, over the subsets of S.
Pick(s) == CHOOSE x \in s : TRUE

IsSum(iter, g, S) ==
  iter = [s \in SUBSET S |->
            IF s = {} THEN 0
            ELSE LET x == CHOOSE x \in s : TRUE IN g[x] + iter[s \ {x}]]

SumOf(g, S) == (CHOOSE iter : IsSum(iter, g, S))[S]

\* What the recursion says of each set.
Splits(iter, g, s) ==
  IF s = {} THEN iter[s] = 0
  ELSE Pick(s) \in s /\ iter[s] = g[Pick(s)] + iter[s \ {Pick(s)}]

LEMMA SumSplits ==
  ASSUME NEW S, NEW g, NEW iter, IsSum(iter, g, S), NEW s \in SUBSET S
  PROVE  Splits(iter, g, s)
<1>1. CASE s = {}
  BY <1>1 DEF IsSum, Splits
<1>2. CASE s # {}
  <2>1. Pick(s) \in s
    BY <1>2 DEF Pick
  <2>2. iter[s] = g[Pick(s)] + iter[s \ {Pick(s)}]
    BY <1>2 DEF IsSum, Pick
  <2> QED
    BY <1>2, <2>1, <2>2 DEF Splits
<1> QED
  BY <1>1, <1>2

\* Two sums of the same numbers agree where both are defined.
LEMMA SumUnique ==
  ASSUME NEW S, IsFiniteSet(S), NEW T \in SUBSET S, NEW g, NEW i, NEW j,
         IsSum(i, g, S), IsSum(j, g, T)
  PROVE  \A s \in SUBSET T : i[s] = j[s]
<1> DEFINE Wrong == {s \in SUBSET T : i[s] # j[s]}
<1> SUFFICES ASSUME Wrong # {} PROVE FALSE
  OBVIOUS
<1>1. Wrong \subseteq SUBSET S
  OBVIOUS
<1>2. PICK s \in Wrong : \A u \in Wrong : u \subseteq s => u = s
  <2> HIDE DEF Wrong
  <2> QED
    BY <1>1, SmallestSubset
<1>3. s \in SUBSET T /\ s \in SUBSET S /\ i[s] # j[s]
  OBVIOUS
<1> HIDE DEF Wrong
<1>4. Splits(i, g, s) /\ Splits(j, g, s)
  BY <1>3, SumSplits
<1>5. s # {} /\ Pick(s) \in s
  BY <1>3, <1>4 DEF Splits
<1>6. i[s \ {Pick(s)}] = j[s \ {Pick(s)}]
  BY <1>2, <1>3, <1>5 DEF Wrong
<1> QED
  BY <1>3, <1>4, <1>5, <1>6 DEF Splits

LEMMA SumExists ==
  ASSUME NEW S, IsFiniteSet(S), NEW g
  PROVE  \E iter : IsSum(iter, g, S)
<1> DEFINE Lacking == {T \in SUBSET S : ~ \E iter : IsSum(iter, g, T)}
<1> SUFFICES ASSUME Lacking # {} PROVE FALSE
  OBVIOUS
<1>0. Lacking \subseteq SUBSET S
  OBVIOUS
<1>1. PICK T \in Lacking : \A U \in Lacking : U \subseteq T => U = T
  <2> HIDE DEF Lacking
  <2> QED
    BY <1>0, SmallestSubset
<1>a. T \in SUBSET S /\ ~ \E iter : IsSum(iter, g, T)
  OBVIOUS
<1>b. ASSUME NEW s \in SUBSET T, s # T
      PROVE  \E iter : IsSum(iter, g, s)
  BY <1>1, <1>a, <1>b
<1> DEFINE Sum(s) == CHOOSE iter : IsSum(iter, g, s)
           iter == [s \in SUBSET T |->
                      IF s = {} THEN 0
                      ELSE g[Pick(s)] + Sum(s \ {Pick(s)})[s \ {Pick(s)}]]
<1>2. ASSUME NEW s \in SUBSET T, s # T
      PROVE  iter[s] = Sum(s)[s]
  <2>1. IsFiniteSet(s)
    <3>1. s \in SUBSET S
      BY <1>a
    <3> QED
      BY <3>1, FS_Subset
  <2>2. IsSum(Sum(s), g, s)
    BY <1>b, <1>2
  <2>s. Splits(Sum(s), g, s)
    <3> HIDE DEF Sum
    <3> QED
      BY <2>2, SumSplits
  <2>3. CASE s = {}
    <3>1. Sum(s)[s] = 0
      <4> HIDE DEF Sum
      <4> QED
        BY <2>s, <2>3 DEF Splits
    <3> QED
      BY <2>3, <3>1
  <2>4. CASE s # {}
    <3> DEFINE u == s \ {Pick(s)}
    <3>1. Sum(s)[s] = g[Pick(s)] + Sum(s)[u] /\ Pick(s) \in s
      <4> HIDE DEF Sum
      <4> QED
        BY <2>s, <2>4 DEF Splits
    <3>2. u \in SUBSET s /\ u \in SUBSET T /\ u # T
      BY <3>1
    <3>3. IsSum(Sum(u), g, u)
      <4> HIDE DEF u
      <4> QED
        BY <1>b, <3>2
    <3>4. Sum(s)[u] = Sum(u)[u]
      <4> HIDE DEF Sum, u
      <4>1. u \in SUBSET u
        OBVIOUS
      <4> QED
        BY <2>1, <2>2, <3>2, <3>3, <4>1, SumUnique
    <3> HIDE DEF Sum
    <3> QED
      BY <2>4, <3>1, <3>4
  <2> QED
    BY <2>3, <2>4
<1>4. IsSum(iter, g, T)
  <2>1. ASSUME NEW s \in SUBSET T, s # {}
        PROVE  iter[s] = g[Pick(s)] + iter[s \ {Pick(s)}]
    <3>1. Pick(s) \in s
      BY <2>1 DEF Pick
    <3>2. s \ {Pick(s)} \in SUBSET T /\ s \ {Pick(s)} # T
      BY <3>1
    <3>3. iter[s \ {Pick(s)}] = Sum(s \ {Pick(s)})[s \ {Pick(s)}]
      <4> HIDE DEF iter, Sum
      <4> QED
        BY <1>2, <3>2
    <3>4. iter[s] = g[Pick(s)] + Sum(s \ {Pick(s)})[s \ {Pick(s)}]
      <4> HIDE DEF Sum
      <4> QED
        BY <2>1
    <3> HIDE DEF iter, Sum
    <3> QED
      BY <3>3, <3>4
  <2>2. {} \in SUBSET T => iter[{}] = 0
    OBVIOUS
  <2>3. iter = [s \in SUBSET T |-> iter[s]]
    OBVIOUS
  <2> HIDE DEF iter
  <2>4. iter = [s \in SUBSET T |->
                  IF s = {} THEN 0 ELSE g[Pick(s)] + iter[s \ {Pick(s)}]]
    BY <2>1, <2>2, <2>3
  <2> QED
    BY <2>4 DEF IsSum, Pick
<1> QED
  BY <1>a, <1>4

\* The sum is an integer, and natural if all its terms are.
LEMMA SumType ==
  ASSUME NEW S, IsFiniteSet(S), NEW N \in {Nat, Int}, NEW g \in [S -> N]
  PROVE  SumOf(g, S) \in N
<1>1. PICK iter : iter = (CHOOSE i : IsSum(i, g, S)) /\ IsSum(iter, g, S)
  BY SumExists
<1> DEFINE Wrong == {s \in SUBSET S : iter[s] \notin N}
<1>0. Wrong \subseteq SUBSET S
  OBVIOUS
<1>2. ASSUME Wrong # {} PROVE FALSE
  <2>1. PICK s \in Wrong : \A u \in Wrong : u \subseteq s => u = s
    <3> HIDE DEF Wrong
    <3> QED
      BY <1>0, <1>2, SmallestSubset
  <2>2. s \in SUBSET S /\ iter[s] \notin N
    OBVIOUS
  <2>3. Splits(iter, g, s)
    BY <1>1, <2>2, SumSplits
  <2>4. Pick(s) \in s /\ iter[s] = g[Pick(s)] + iter[s \ {Pick(s)}]
    BY <2>2, <2>3 DEF Splits
  <2>5. iter[s \ {Pick(s)}] \in N
    BY <2>1, <2>2, <2>4
  <2>6. g[Pick(s)] \in N
    BY <2>2, <2>4
  <2> HIDE DEF Wrong
  <2> QED
    BY <2>2, <2>4, <2>5, <2>6
<1>3. SumOf(g, S) = iter[S]
  BY <1>1 DEF SumOf
<1> QED
  BY <1>2, <1>3

\* A sum moves with any one of its terms.
LEMMA SumChange ==
  ASSUME NEW S, IsFiniteSet(S), NEW g \in [S -> Int], NEW h \in [S -> Int],
         NEW m \in S, \A n \in S : n # m => h[n] = g[n]
  PROVE  SumOf(h, S) = SumOf(g, S) + (h[m] - g[m])
<1>1. PICK i : i = (CHOOSE k : IsSum(k, g, S)) /\ IsSum(i, g, S)
  BY SumExists
<1>2. PICK j : j = (CHOOSE k : IsSum(k, h, S)) /\ IsSum(j, h, S)
  BY SumExists
<1> DEFINE Right(s) == /\ i[s] \in Int
                       /\ j[s] = i[s] + IF m \in s THEN h[m] - g[m] ELSE 0
           Wrong == {s \in SUBSET S : ~Right(s)}
<1>0. Wrong \subseteq SUBSET S
  OBVIOUS
<1>3. ASSUME Wrong # {} PROVE FALSE
  <2>1. PICK s \in Wrong : \A u \in Wrong : u \subseteq s => u = s
    <3> HIDE DEF Wrong
    <3> QED
      BY <1>0, <1>3, SmallestSubset
  <2>a. s \in SUBSET S /\ ~Right(s)
    OBVIOUS
  <2>b. Splits(i, g, s) /\ Splits(j, h, s)
    <3> HIDE DEF Right, Wrong
    <3> QED
      BY <1>1, <1>2, <2>a, SumSplits
  <2>2. s # {}
    BY <2>a, <2>b DEF Splits
  <2> DEFINE x == Pick(s)
             u == s \ {x}
  <2>3. x \in s /\ i[s] = g[x] + i[u] /\ j[s] = h[x] + j[u]
    BY <2>2, <2>b DEF Splits
  <2>5. i[u] \in Int /\ j[u] = i[u] + IF m \in u THEN h[m] - g[m] ELSE 0
    BY <2>1, <2>3
  <2>6. m \in s <=> m = x \/ m \in u
    BY <2>3
  <2>7. x \notin u /\ x \in S
    BY <2>3
  <2>8. g[x] \in Int /\ h[x] \in Int /\ g[m] \in Int /\ h[m] \in Int
    BY <2>7
  <2>9. ~Right(s)
    OBVIOUS
  <2> HIDE DEF x, u
  <2>10. CASE x = m
    BY <2>3, <2>5, <2>6, <2>7, <2>8, <2>9, <2>10
  <2>11. CASE x # m
    BY <2>3, <2>5, <2>6, <2>7, <2>8, <2>9, <2>11
  <2> QED
    BY <2>10, <2>11
<1>4. SumOf(g, S) = i[S] /\ SumOf(h, S) = j[S]
  BY <1>1, <1>2 DEF SumOf
<1> QED
  BY <1>3, <1>4

\* No term is greater than a sum of naturals.
LEMMA SumCovers ==
  ASSUME NEW S, IsFiniteSet(S), NEW g \in [S -> Nat], NEW m \in S
  PROVE  g[m] <= SumOf(g, S)
<1> DEFINE h == [g EXCEPT ![m] = 0]
<1>1. h \in [S -> Nat] /\ h \in [S -> Int] /\ g \in [S -> Int] /\ h[m] = 0
  OBVIOUS
<1>2. SumOf(h, S) \in Nat /\ SumOf(g, S) \in Nat
  <2> HIDE DEF h
  <2> QED
    BY <1>1, SumType
<1>3. SumOf(h, S) = SumOf(g, S) + (0 - g[m])
  <2>1. \A n \in S : n # m => h[n] = g[n]
    OBVIOUS
  <2> HIDE DEF h
  <2> QED
    BY <1>1, <2>1, SumChange
<1>4. g[m] \in Nat
  OBVIOUS
<1> HIDE DEF h
<1> QED
  BY <1>2, <1>3, <1>4

LEMMA SumOfZeros ==
  ASSUME NEW S, IsFiniteSet(S), NEW g, \A m \in S : g[m] = 0
  PROVE  SumOf(g, S) = 0
<1>1. PICK iter : iter = (CHOOSE i : IsSum(i, g, S)) /\ IsSum(iter, g, S)
  BY SumExists
<1> DEFINE Wrong == {s \in SUBSET S : iter[s] # 0}
<1>0. Wrong \subseteq SUBSET S
  OBVIOUS
<1>2. ASSUME Wrong # {} PROVE FALSE
  <2>1. PICK s \in Wrong : \A u \in Wrong : u \subseteq s => u = s
    <3> HIDE DEF Wrong
    <3> QED
      BY <1>0, <1>2, SmallestSubset
  <2>2. s \in SUBSET S /\ iter[s] # 0
    OBVIOUS
  <2>a. Splits(iter, g, s)
    BY <1>1, <2>2, SumSplits
  <2>3. Pick(s) \in s /\ iter[s] = g[Pick(s)] + iter[s \ {Pick(s)}]
    BY <2>2, <2>a DEF Splits
  <2>4. iter[s \ {Pick(s)}] = 0
    BY <2>1, <2>2, <2>3
  <2> HIDE DEF Wrong
  <2> QED
    BY <2>2, <2>3, <2>4
<1>3. SumOf(g, S) = iter[S]
  BY <1>1 DEF SumOf
<1> QED
  BY <1>2, <1>3

\* What the digests say of one term and class, one number for each message.
Owed(t, c) == [m \in Message |-> digest[m][c] * TokenCount[m][t]]

LEMMA TaughtIsSum ==
  \A t, c : Taught(t, c) = SumOf(Owed(t, c), Message)
<1> SUFFICES ASSUME NEW t, NEW c
             PROVE  Taught(t, c) = SumOf(Owed(t, c), Message)
  OBVIOUS
<1> QED
  BY DEF Taught, Owed, SumOf, IsSum, MapThenSumSet, MapThenFoldSet

LEMMA TaughtIsSumNext ==
  (\A t, c : Taught(t, c) = SumOf(Owed(t, c), Message))'
  BY TaughtIsSum, PTL

LEMMA ProductType ==
  ASSUME NEW a \in Nat, NEW b \in Nat
  PROVE  a * b \in Nat
  OBVIOUS

LEMMA ProductNext ==
  ASSUME NEW a \in Nat, NEW b \in Nat
  PROVE  (a + 1) * b = a * b + b
  OBVIOUS

LEMMA ProductGrows ==
  ASSUME NEW a \in Nat, NEW b \in Nat, NEW c \in Nat, NEW d \in Nat,
         a <= c, b <= d
  PROVE  a * b <= c * d
<1>1. PICK e \in Nat : c = a + e
  <2>1. c - a \in Nat /\ c = a + (c - a)
    OBVIOUS
  <2> QED
    BY <2>1
<1>2. PICK f \in Nat : d = b + f
  <2>1. d - b \in Nat /\ d = b + (d - b)
    OBVIOUS
  <2> QED
    BY <2>1
<1>3. c * d = a * b + (a * f + e * b + e * f)
  BY <1>1, <1>2
<1>4. a * f \in Nat /\ e * b \in Nat /\ e * f \in Nat /\ a * b \in Nat
  BY ProductType
<1> QED
  BY <1>3, <1>4

\* A finite set of numbers has a greatest one.
LEMMA MaxExists ==
  ASSUME NEW S, IsFiniteSet(S)
  PROVE  S \subseteq Nat /\ S # {} => \E x \in S : \A y \in S : x >= y
<1> DEFINE Endless == {T \in SUBSET S : /\ T # {}
                                        /\ ~ \E x \in T : \A y \in T : x >= y}
<1>1. Endless \subseteq SUBSET S
  OBVIOUS
<1>2. Endless = {} \/ \E T \in Endless : \A U \in Endless : U \subseteq T => U = T
  <2> HIDE DEF Endless
  <2> QED
    BY <1>1, SmallestSubset
<1>3. Endless = {} /\ S # {} => \E x \in S : \A y \in S : x >= y
  <2>1. S \in SUBSET S
    OBVIOUS
  <2> QED
    BY <2>1
<1> SUFFICES ASSUME S \subseteq Nat, Endless # {} PROVE FALSE
  BY <1>3
<1>4. PICK T \in Endless : \A U \in Endless : U \subseteq T => U = T
  BY <1>2
<1>5. PICK x \in T : TRUE
  OBVIOUS
<1>6. CASE T \ {x} = {}
  <2>1. \A y \in T : y = x
    BY <1>6
  <2> QED
    BY <2>1
<1>7. CASE T \ {x} # {}
  <2>1. T \ {x} \notin Endless
    BY <1>4
  <2>2. PICK z \in T \ {x} : \A y \in T \ {x} : z >= y
    BY <1>7, <2>1
  <2>3. x \in Nat /\ z \in Nat /\ \A y \in T : y \in Nat
    OBVIOUS
  <2>4. CASE x >= z
    BY <2>2, <2>3, <2>4
  <2>5. CASE z > x
    BY <2>2, <2>3, <2>5
  <2> QED
    BY <2>3, <2>4, <2>5
<1> QED
  BY <1>6, <1>7

USE CountsAssumption

-----------------------------------------------------------------------------
(* Types *)

\* Counts stay natural numbers, whatever is added or subtracted.
LEMMA AdjustedType ==
  ASSUME NEW w \in WordData, NEW c \in Class, NEW delta \in Int
  PROVE  Adjusted(w, c, delta) \in WordData
  BY DEF Adjusted, WordData, Class

LEMMA SweptType ==
  ASSUME NEW w \in WordData, NEW junk \in Nat
  PROVE  Swept(w, junk) \in WordData
  BY DEF Swept, Zero, WordData, Class

\* A message's class and count, as getMessageCount reads them.
LEMMA KnownClassType ==
  ASSUME TypeOK, NEW m \in Message
  PROVE  KnownClass(m) \in Class /\ TimesSeen(m) \in Nat
  BY DEF TypeOK, KnownClass, TimesSeen, WordData, Class

LEMMA BeginRemoveType ==
  ASSUME TypeOK, NEW j \in Job
  PROVE  BeginRemove(j) \in Job
<1>1. j.msg \in Message
  BY DEF Job
<1>2. KnownClass(j.msg) \in Class /\ TimesSeen(j.msg) \in Nat
  BY <1>1, KnownClassType
<1> QED
  BY <1>2 DEF BeginRemove, Job, Stage, TokensOf

LEMMA NewJobType ==
  ASSUME NEW cmd \in {"classify", "remove"}, NEW m \in Message, NEW c \in Class
  PROVE  NewJob(cmd, m, c) \in Job
  BY DEF NewJob, Job, Stage

LEMMA TypeInit == Init => TypeOK
  BY DEF Init, TypeOK, Zero, WordData, Idle

LEMMA TypeNext == TypeOK /\ [Next]_vars => TypeOK'
<1> SUFFICES ASSUME TypeOK, [Next]_vars PROVE TypeOK'
  OBVIOUS
<1>c. ASSUME NEW m \in Message
      PROVE  Contains(m) \in BOOLEAN /\ TokensOf(m) \in SUBSET Term
  BY DEF Contains, TokensOf
<1>b. ASSUME NEW m \in Message PROVE KnownClass(m) \in Class
  BY KnownClassType
<1>a. ASSUME NEW j \in Job PROVE BeginRemove(j) \in Job
  BY BeginRemoveType
<1> USE DEF TypeOK
<1>1. ASSUME NEW m \in Message, NEW c \in Class, StartClassify(m, c)
      PROVE  TypeOK'
  BY <1>1, NewJobType DEF StartClassify
<1>2. ASSUME NEW m \in Message, StartRemove(m) PROVE TypeOK'
  BY <1>a, <1>b, <1>2, NewJobType DEF StartRemove
<1>3. ASSUME NEW junk \in JunkCounts, Sweep(junk) PROVE TypeOK'
  BY <1>3, SweptType DEF Sweep
<1>4. CASE EnsureClass
  <2>1. job \in Job
    BY <1>4 DEF EnsureClass, At, Idle
  <2>2. [job EXCEPT !.stage = "admit"] \in Job
    BY <2>1 DEF Job, Stage
  <2> QED
    BY <1>a, <1>4, <2>1, <2>2 DEF EnsureClass
<1>5. ASSUME NEW t \in Term, SubtractTerm(t) PROVE TypeOK'
  <2>1. job \in Job
    BY <1>5 DEF SubtractTerm, At, Idle
  <2>2. -(job.times * TokenCount[job.msg][t]) \in Int
    BY <2>1 DEF Job
  <2>3. term' \in [Term -> WordData]
    BY <1>5, <2>1, <2>2, AdjustedType DEF SubtractTerm, Job
  <2> QED
    BY <1>5, <2>1, <2>3 DEF SubtractTerm, Job
<1>6. CASE SubtractDigest
  <2>1. job \in Job
    BY <1>6 DEF SubtractDigest, At, Idle
  <2>2. digest' \in [Message -> WordData]
    BY <1>6, <2>1, AdjustedType DEF SubtractDigest, Job
  <2> QED
    BY <1>6, <2>1, <2>2 DEF SubtractDigest, Job, Stage
<1>7. CASE SubtractMessage
  <2>1. job \in Job
    BY <1>7 DEF SubtractMessage, At, Idle
  <2>2. total' \in WordData
    BY <1>7, <2>1, AdjustedType DEF SubtractMessage, Job
  <2> QED
    BY <1>7, <2>1, <2>2 DEF SubtractMessage, Job, Stage
<1>8. CASE Admit
  <2>1. job \in Job
    BY <1>8 DEF Admit, At, Idle
  <2>2. [job EXCEPT !.stage = "score"] \in Job
    BY <2>1 DEF Job, Stage
  <2>3. [job EXCEPT !.stage = "add", !.known = Contains(job.msg),
                    !.todo = TokensOf(job.msg)] \in Job
    BY <2>1, <1>c DEF Job, Stage
  <2> QED
    BY <1>8, <2>2, <2>3 DEF Admit
<1>9. ASSUME NEW t \in Term, AddTerm(t) PROVE TypeOK'
  <2>1. job \in Job
    BY <1>9 DEF AddTerm, At, Idle
  <2>2. term' \in [Term -> WordData]
    BY <1>9, <2>1, AdjustedType DEF AddTerm, Job
  <2> QED
    BY <1>9, <2>1, <2>2 DEF AddTerm, Job
<1>10. CASE AddDigest
  <2>1. job \in Job
    BY <1>10 DEF AddDigest, At, Idle
  <2>2. digest' \in [Message -> WordData]
    BY <1>10, <2>1, AdjustedType DEF AddDigest, Job
  <2> QED
    BY <1>10, <2>1, <2>2 DEF AddDigest, Job, Stage
<1>11. CASE AddMessage
  <2>1. job \in Job
    BY <1>11 DEF AddMessage, At, Idle
  <2>2. total' \in WordData
    BY <1>11, <2>1, AdjustedType DEF AddMessage, Job
  <2> QED
    BY <1>11, <2>1, <2>2 DEF AddMessage, Job, Stage
<1>12. CASE Confident
  BY <1>12 DEF Confident, At, Job, Idle
<1>13. CASE GiveUp
  BY <1>13 DEF GiveUp
<1>14. CASE AnotherAttempt
  <2>1. job \in Job
    BY <1>14 DEF AnotherAttempt, At, Idle
  <2> QED
    BY <1>14, <2>1 DEF AnotherAttempt, Job, Stage
<1>15. CASE Interrupt
  BY <1>15 DEF Interrupt
<1>16. CASE UNCHANGED vars
  BY <1>16 DEF vars
<1> QED
  BY <1>1, <1>2, <1>3, <1>4, <1>5, <1>6, <1>7, <1>8, <1>9, <1>10, <1>11,
     <1>12, <1>13, <1>14, <1>15, <1>16 DEF Next, Step

\* Every variable keeps its type: in particular counts never go negative and a
\* running job only ever names messages, classes and tokens that exist.
THEOREM TypeCorrect == Spec => []TypeOK
  BY TypeInit, TypeNext, PTL DEF Spec

-----------------------------------------------------------------------------
(* Digests *)

\* OneClass alone is not inductive: removeMessage subtracts the count it read
\* when it began, and addMessage adds to the class it found earlier.  JobAgrees
\* says those readings are still true, DigestBounded is carried along by it.
DigestInv == TypeOK /\ OneClass /\ DigestBounded /\ JobAgrees

LEMMA DigestInit == Init => DigestInv
<1> SUFFICES ASSUME Init PROVE DigestInv
  OBVIOUS
<1>1. TypeOK
  BY TypeInit
<1>2. OneClass /\ DigestBounded
  BY DEF Init, OneClass, DigestBounded, Zero, Class
<1>3. JobAgrees
  BY DEF Init, JobAgrees
<1> QED
  BY <1>1, <1>2, <1>3 DEF DigestInv

\* What a job may rely on when it starts to remove its message.
LEMMA BeginRemoveAgrees ==
  ASSUME TypeOK, NEW j \in Job, Contains(j.msg)
  PROVE  LET r == BeginRemove(j)
         IN /\ r \in Job
            /\ r.stage = "subtract"
            /\ r.msg = j.msg
            /\ r.times = digest[j.msg][r.from]
            /\ r.times > 0
<1>1. j.msg \in Message
  BY DEF Job
<1>2. BeginRemove(j) \in Job
  BY BeginRemoveType
<1> QED
  BY <1>1, <1>2 DEF BeginRemove, Job, Contains, TimesSeen

LEMMA DigestNext == DigestInv /\ [Next]_vars => DigestInv'
<1> SUFFICES ASSUME DigestInv, [Next]_vars PROVE DigestInv'
  OBVIOUS
<1>t. TypeOK /\ TypeOK'
  BY TypeNext DEF DigestInv
<1>i. OneClass /\ DigestBounded /\ JobAgrees
  BY DEF DigestInv
<1> SUFFICES OneClass' /\ DigestBounded' /\ JobAgrees'
  BY <1>t DEF DigestInv
\* Only two actions change a digest while a job is running.
<1>u. ASSUME UNCHANGED digest PROVE OneClass' /\ DigestBounded'
  BY <1>i, <1>u DEF OneClass, DigestBounded
<1>idle. ASSUME job' = Idle PROVE JobAgrees'
  BY <1>idle DEF JobAgrees
<1>1. ASSUME NEW m \in Message, NEW c \in Class, StartClassify(m, c)
      PROVE  OneClass' /\ DigestBounded' /\ JobAgrees'
  <2>1. JobAgrees'
    BY <1>1 DEF StartClassify, JobAgrees, NewJob, At
  <2> QED
    BY <1>1, <1>u, <2>1 DEF StartClassify
<1>2. ASSUME NEW m \in Message, StartRemove(m)
      PROVE  OneClass' /\ DigestBounded' /\ JobAgrees'
  <2> DEFINE j == NewJob("remove", m, KnownClass(m))
  <2>1. j \in Job /\ j.msg = m
    BY <1>t, KnownClassType, NewJobType DEF NewJob
  <2> HIDE DEF j
  <2>2. job' = BeginRemove(j) /\ Contains(j.msg) /\ digest' = digest
    BY <1>2, <2>1 DEF StartRemove, j
  <2>3. JobAgrees'
    BY <1>t, <2>1, <2>2, BeginRemoveAgrees DEF JobAgrees, At
  <2> QED
    BY <1>u, <2>2, <2>3
<1>3. ASSUME NEW junk \in JunkCounts, Sweep(junk)
      PROVE  OneClass' /\ DigestBounded' /\ JobAgrees'
  <2>1. job' = Idle
    BY <1>3 DEF Sweep
  <2>2. \A m \in Message, c \in Class :
          digest'[m][c] = digest[m][c] \/ digest'[m][c] = 0
    BY <1>3, <1>t DEF Sweep, Swept, Zero, TypeOK
  <2>3. OneClass' /\ DigestBounded'
    BY <1>i, <1>t, <2>2
       DEF OneClass, DigestBounded, TypeOK, WordData, Class
  <2> QED
    BY <1>idle, <2>1, <2>3
<1>4. CASE EnsureClass
  <2>1. job \in Job /\ job # Idle /\ job.stage = "ensure"
    BY <1>4, <1>t DEF EnsureClass, At, TypeOK, Idle
  <2>2. job.msg \in Message /\ job.class \in Class
    BY <2>1 DEF Job
  <2>3. digest[job.msg] \in WordData
    BY <1>t, <2>2 DEF TypeOK
  <2>4. CASE Contains(job.msg) /\ KnownClass(job.msg) # job.class
    <3>1. job' = BeginRemove(job) /\ digest' = digest
      BY <1>4, <2>4 DEF EnsureClass
    <3>2. JobAgrees'
      BY <1>t, <2>1, <2>4, <3>1, BeginRemoveAgrees DEF JobAgrees, At
    <3> QED
      BY <1>u, <3>1, <3>2
  <2>5. CASE ~(Contains(job.msg) /\ KnownClass(job.msg) # job.class)
    <3>1. job' = [job EXCEPT !.stage = "admit"] /\ digest' = digest
      BY <1>4, <2>5 DEF EnsureClass
    <3>2. digest[job.msg][Other(job.class)] = 0
      BY <1>i, <2>2, <2>3, <2>5
         DEF OneClass, Contains, TimesSeen, KnownClass, Other, WordData, Class
    <3>3. job'.stage = "admit" /\ job'.msg = job.msg /\ job'.class = job.class
          /\ job'.force = job.force
      BY <2>1, <3>1 DEF Job
    <3> QED
      BY <1>i, <1>u, <2>1, <3>1, <3>2, <3>3 DEF JobAgrees, At
  <2> QED
    BY <1>4, <1>u, <2>4, <2>5 DEF EnsureClass
<1>5. ASSUME NEW t \in Term, SubtractTerm(t)
      PROVE  OneClass' /\ DigestBounded' /\ JobAgrees'
  <2>1. job \in Job /\ job # Idle /\ job.stage = "subtract"
    BY <1>5, <1>t DEF SubtractTerm, At, TypeOK, Idle
  <2>2. job'.stage = job.stage /\ job'.msg = job.msg /\ job'.from = job.from
        /\ job'.times = job.times
    BY <1>5, <2>1 DEF SubtractTerm, Job
  <2>3. JobAgrees'
    BY <1>5, <1>i, <2>1, <2>2 DEF SubtractTerm, JobAgrees, At
  <2> QED
    BY <1>5, <1>u, <2>3 DEF SubtractTerm
<1>6. CASE SubtractDigest
  <2>1. job \in Job /\ job # Idle /\ job.stage = "subtract"
    BY <1>6, <1>t DEF SubtractDigest, At, TypeOK, Idle
  <2>2. job.msg \in Message /\ job.from \in Class /\ job.times \in Nat
    BY <2>1 DEF Job
  <2>3. job.times = digest[job.msg][job.from] /\ job.times > 0
    BY <1>i, <2>1 DEF JobAgrees, At
  <2>4. digest[job.msg] \in WordData
    BY <1>t, <2>2 DEF TypeOK
  <2>5. \A c \in Class : Adjusted(digest[job.msg], job.from, -job.times)[c] = 0
    BY <1>i, <2>2, <2>3, <2>4 DEF Adjusted, OneClass, WordData, Class
  <2>6. \A c \in Class : digest'[job.msg][c] = 0
    BY <1>6, <1>t, <2>2, <2>5 DEF SubtractDigest, TypeOK
  <2>7. \A m \in Message : m # job.msg => digest'[m] = digest[m]
    BY <1>6, <1>t, <2>2 DEF SubtractDigest, TypeOK
  <2>8. OneClass' /\ DigestBounded'
    BY <1>i, <2>6, <2>7 DEF OneClass, DigestBounded, Class
  <2>9. job'.stage = "uncount" /\ job'.msg = job.msg
    BY <1>6, <2>1 DEF SubtractDigest, Job
  <2>10. JobAgrees'
    BY <2>6, <2>9 DEF JobAgrees, At
  <2> QED
    BY <2>8, <2>10
<1>7. CASE SubtractMessage
  <2>1. job \in Job /\ job # Idle /\ job.stage = "uncount"
    BY <1>7, <1>t DEF SubtractMessage, At, TypeOK, Idle
  <2>2. job.msg \in Message /\ job.class \in Class
    BY <2>1 DEF Job
  <2>3. \A c \in Class : digest[job.msg][c] = 0
    BY <1>i, <2>1 DEF JobAgrees, At
  <2>4. CASE job.cmd = "remove"
    BY <1>7, <1>idle, <1>u, <2>4 DEF SubtractMessage
  <2>5. CASE job.cmd # "remove"
    <3>1. job'.stage = "admit" /\ job'.msg = job.msg /\ job'.class = job.class
      BY <1>7, <2>1, <2>5 DEF SubtractMessage, Job
    <3>2. digest' = digest
      BY <1>7 DEF SubtractMessage
    <3> QED
      BY <1>u, <2>2, <2>3, <3>1, <3>2 DEF JobAgrees, At, Other, Class
  <2> QED
    BY <1>7, <1>u, <2>4, <2>5 DEF SubtractMessage
<1>8. CASE Admit
  <2>1. job \in Job /\ job # Idle /\ job.stage = "admit"
    BY <1>8, <1>t DEF Admit, At, TypeOK, Idle
  <2>2. job.msg \in Message /\ job.class \in Class
    BY <2>1 DEF Job
  <2>3. digest[job.msg] \in WordData
    BY <1>t, <2>2 DEF TypeOK
  <2>4. digest[job.msg][Other(job.class)] = 0
        /\ (job.force => digest[job.msg][job.class] < MaxClassify)
    BY <1>i, <2>1 DEF JobAgrees, At
  <2>5. Contains(job.msg) = (digest[job.msg][job.class] > 0)
    BY <2>2, <2>3, <2>4
       DEF Contains, TimesSeen, KnownClass, Other, WordData, Class
  <2>6. digest' = digest
    BY <1>8 DEF Admit
  <2>7. CASE Contains(job.msg) /\ ~job.force
    <3>1. job'.stage = "score" /\ job'.msg = job.msg /\ job'.class = job.class
      BY <1>8, <2>1, <2>7 DEF Admit, Job
    <3> QED
      BY <1>u, <2>4, <2>6, <3>1 DEF JobAgrees, At
  <2>8. CASE ~(Contains(job.msg) /\ ~job.force)
    <3>1. job'.stage = "add" /\ job'.msg = job.msg /\ job'.class = job.class
          /\ job'.known = Contains(job.msg)
      BY <1>8, <2>1, <2>8 DEF Admit, Job
    <3>2. digest[job.msg][job.class] < MaxClassify
      <4>1. digest[job.msg][job.class] \in Nat /\ MaxClassify > 0
        BY <2>2, <2>3 DEF WordData
      <4>2. CASE job.force
        BY <2>4, <4>2
      <4>3. CASE ~job.force
        BY <2>2, <2>3, <2>4, <2>8, <4>1, <4>3
           DEF Contains, TimesSeen, KnownClass, Other, WordData, Class
      <4> QED
        BY <4>2, <4>3
    <3> QED
      BY <1>u, <2>4, <2>5, <2>6, <3>1, <3>2 DEF JobAgrees, At
  <2> QED
    BY <1>u, <2>6, <2>7, <2>8
<1>9. ASSUME NEW t \in Term, AddTerm(t)
      PROVE  OneClass' /\ DigestBounded' /\ JobAgrees'
  <2>1. job \in Job /\ job # Idle /\ job.stage = "add"
    BY <1>9, <1>t DEF AddTerm, At, TypeOK, Idle
  <2>2. job'.stage = job.stage /\ job'.msg = job.msg
        /\ job'.class = job.class /\ job'.known = job.known
    BY <1>9, <2>1 DEF AddTerm, Job
  <2>3. JobAgrees'
    BY <1>9, <1>i, <2>1, <2>2 DEF AddTerm, JobAgrees, At
  <2> QED
    BY <1>9, <1>u, <2>3 DEF AddTerm
<1>10. CASE AddDigest
  <2>1. job \in Job /\ job # Idle /\ job.stage = "add"
    BY <1>10, <1>t DEF AddDigest, At, TypeOK, Idle
  <2>2. job.msg \in Message /\ job.class \in Class
    BY <2>1 DEF Job
  <2>3. digest[job.msg] \in WordData
    BY <1>t, <2>2 DEF TypeOK
  <2>4. digest[job.msg][Other(job.class)] = 0
        /\ digest[job.msg][job.class] < MaxClassify
    BY <1>i, <2>1 DEF JobAgrees, At
  <2>5. digest'[job.msg] = Adjusted(digest[job.msg], job.class, 1)
    BY <1>10, <1>t, <2>2 DEF AddDigest, TypeOK
  <2>6. digest'[job.msg][Other(job.class)] = 0
        /\ digest'[job.msg][job.class] \in 1..MaxClassify
    BY <2>2, <2>3, <2>4, <2>5 DEF Adjusted, Other, WordData, Class
  <2>7. \A m \in Message : m # job.msg => digest'[m] = digest[m]
    BY <1>10, <1>t, <2>2 DEF AddDigest, TypeOK
  <2>8. OneClass' /\ DigestBounded'
    BY <1>i, <2>2, <2>6, <2>7 DEF OneClass, DigestBounded, Other, Class
  <2>9. job'.stage \in {"score", "count"} /\ job'.msg = job.msg
        /\ job'.class = job.class
    BY <1>10, <2>1 DEF AddDigest, Job
  <2>10. JobAgrees'
    BY <2>6, <2>9 DEF JobAgrees, At
  <2> QED
    BY <2>8, <2>10
<1>11. CASE AddMessage
  <2>1. job \in Job /\ job # Idle /\ job.stage = "count"
    BY <1>11, <1>t DEF AddMessage, At, TypeOK, Idle
  <2>2. job'.stage = "score" /\ job'.msg = job.msg /\ job'.class = job.class
    BY <1>11, <2>1 DEF AddMessage, Job
  <2>3. JobAgrees'
    BY <1>11, <1>i, <2>1, <2>2 DEF AddMessage, JobAgrees, At
  <2> QED
    BY <1>11, <1>u, <2>3 DEF AddMessage
<1>12. CASE Confident
  BY <1>12, <1>u, <1>idle DEF Confident
<1>13. CASE GiveUp
  BY <1>13, <1>u, <1>idle DEF GiveUp
<1>14. CASE AnotherAttempt
  <2>1. job \in Job /\ job # Idle /\ job.stage = "score"
    BY <1>14, <1>t DEF AnotherAttempt, At, TypeOK, Idle
  <2>2. job.msg \in Message /\ job.class \in Class
    BY <2>1 DEF Job
  <2>3. digest[job.msg] \in WordData
    BY <1>t, <2>2 DEF TypeOK
  <2>4. digest[job.msg][Other(job.class)] = 0
    BY <1>i, <2>1 DEF JobAgrees, At
  <2>5. digest[job.msg][job.class] < MaxClassify
    BY <1>14, <2>2, <2>3, <2>4
       DEF AnotherAttempt, TimesSeen, KnownClass, Other, WordData, Class
  <2>6. job'.stage = "ensure" /\ job'.msg = job.msg /\ job'.class = job.class
    BY <1>14, <2>1 DEF AnotherAttempt, Job
  <2>7. JobAgrees'
    BY <1>14, <2>5, <2>6 DEF AnotherAttempt, JobAgrees, At
  <2> QED
    BY <1>14, <1>u, <2>7 DEF AnotherAttempt
<1>15. CASE Interrupt
  BY <1>15, <1>u, <1>idle DEF Interrupt
<1>16. CASE UNCHANGED vars
  BY <1>16, <1>i, <1>u DEF vars, JobAgrees, At
<1> QED
  BY <1>1, <1>2, <1>3, <1>4, <1>5, <1>6, <1>7, <1>8, <1>9, <1>10, <1>11,
     <1>12, <1>13, <1>14, <1>15, <1>16 DEF Next, Step

\* No history of commands, interrupts and purges makes a digest record count its
\* message in both classes, which getMessageCount could not represent.
THEOREM OneClassAlways == Spec => []OneClass
<1>1. DigestInv => OneClass
  BY DEF DigestInv
<1> QED
  BY <1>1, DigestInit, DigestNext, PTL DEF Spec

\* classifyMessage never counts a message more than MaxClassify times.
THEOREM DigestAlwaysBounded == Spec => []DigestBounded
<1>1. DigestInv => DigestBounded
  BY DEF DigestInv
<1> QED
  BY <1>1, DigestInit, DigestNext, PTL DEF Spec

\* Whatever a job has read of its message's digest still holds when it acts.
THEOREM JobAlwaysAgrees == Spec => []JobAgrees
<1>1. DigestInv => JobAgrees
  BY DEF DigestInv
<1> QED
  BY <1>1, DigestInit, DigestNext, PTL DEF Spec

-----------------------------------------------------------------------------
(* What a command achieves *)

\* A command that removes its message stops there; one that classifies has
\* counted the message by the time it asks for the score.
JobCounted ==
  job # Idle =>
    /\ job.cmd = "remove" => job.stage \in {"subtract", "uncount"}
    /\ job.stage \in {"count", "score"} => digest[job.msg][job.class] > 0

LEMMA JobCountedNext ==
  ASSUME DigestInv, JobCounted, [Next]_vars
  PROVE  JobCounted'
<1>t. TypeOK /\ JobAgrees
  BY DEF DigestInv
<1>idle. ASSUME job' = Idle PROVE JobCounted'
  BY <1>idle DEF JobCounted
<1>1. ASSUME NEW m \in Message, NEW c \in Class, StartClassify(m, c)
      PROVE  JobCounted'
  BY <1>1 DEF StartClassify, NewJob, JobCounted
<1>2. ASSUME NEW m \in Message, StartRemove(m)
      PROVE  JobCounted'
  <2> DEFINE j == NewJob("remove", m, KnownClass(m))
  <2>1. j \in Job
    BY <1>t, KnownClassType, NewJobType
  <2> HIDE DEF j
  <2>2. job'.stage = "subtract"
    BY <1>2, <2>1 DEF StartRemove, BeginRemove, Job, j
  <2> QED
    BY <2>2 DEF JobCounted
<1>3. ASSUME NEW junk \in JunkCounts, Sweep(junk)
      PROVE  JobCounted'
  BY <1>3, <1>idle DEF Sweep
<1>4. CASE EnsureClass
  <2>1. job \in Job /\ job # Idle /\ job.stage = "ensure"
    BY <1>4, <1>t DEF EnsureClass, At, TypeOK, Idle
  <2>2. job'.stage \in {"subtract", "admit"} /\ job'.cmd = job.cmd
    BY <1>4, <2>1 DEF EnsureClass, BeginRemove, Job
  <2> QED
    BY <2>1, <2>2 DEF JobCounted
<1>5. ASSUME NEW t \in Term, SubtractTerm(t)
      PROVE  JobCounted'
  <2>1. job \in Job /\ job.stage = "subtract"
    BY <1>5, <1>t DEF SubtractTerm, At, TypeOK, Idle
  <2>2. job'.stage = "subtract"
    BY <1>5, <2>1 DEF SubtractTerm, Job
  <2> QED
    BY <2>2 DEF JobCounted
<1>6. CASE SubtractDigest
  <2>1. job \in Job /\ job.stage = "subtract"
    BY <1>6, <1>t DEF SubtractDigest, At, TypeOK, Idle
  <2>2. job'.stage = "uncount"
    BY <1>6, <2>1 DEF SubtractDigest, Job
  <2> QED
    BY <2>2 DEF JobCounted
<1>7. CASE SubtractMessage
  <2>1. job \in Job /\ job.stage = "uncount"
    BY <1>7, <1>t DEF SubtractMessage, At, TypeOK, Idle
  <2>2. CASE job.cmd # "remove"
    <3>1. job'.stage = "admit" /\ job'.cmd = job.cmd
      BY <1>7, <2>1, <2>2 DEF SubtractMessage, Job
    <3> QED
      BY <2>2, <3>1 DEF JobCounted
  <2> QED
    BY <1>7, <1>idle, <2>2 DEF SubtractMessage
<1>8. CASE Admit
  <2>1. job \in Job /\ job # Idle /\ job.stage = "admit"
    BY <1>8, <1>t DEF Admit, At, TypeOK, Idle
  <2>2. job.msg \in Message /\ job.class \in Class /\ job.cmd # "remove"
    BY <2>1 DEF Job, JobCounted
  <2>3. digest[job.msg] \in WordData /\ digest[job.msg][Other(job.class)] = 0
    BY <1>t, <2>1, <2>2 DEF TypeOK, JobAgrees
  <2>4. Contains(job.msg) => digest[job.msg][job.class] > 0
    BY <2>2, <2>3 DEF Contains, TimesSeen, KnownClass, Other, WordData, Class
  <2>5. CASE Contains(job.msg) /\ ~job.force
    <3>1. /\ job'.msg = job.msg /\ job'.class = job.class /\ job'.cmd = job.cmd
          /\ digest' = digest
      BY <1>8, <2>1, <2>5 DEF Admit, Job
    <3> QED
      BY <2>2, <2>4, <2>5, <3>1 DEF JobCounted
  <2>6. CASE ~(Contains(job.msg) /\ ~job.force)
    <3>1. job'.stage = "add" /\ job'.cmd = job.cmd
      BY <1>8, <2>1, <2>6 DEF Admit, Job
    <3> QED
      BY <2>2, <3>1 DEF JobCounted
  <2> QED
    BY <2>5, <2>6
<1>9. ASSUME NEW t \in Term, AddTerm(t)
      PROVE  JobCounted'
  <2>1. job \in Job /\ job # Idle /\ job.stage = "add"
    BY <1>9, <1>t DEF AddTerm, At, TypeOK, Idle
  <2>2. job'.stage = "add" /\ job'.cmd = job.cmd
    BY <1>9, <2>1 DEF AddTerm, Job
  <2> QED
    BY <2>1, <2>2 DEF JobCounted
<1>10. CASE AddDigest
  <2>1. job \in Job /\ job # Idle /\ job.stage = "add"
    BY <1>10, <1>t DEF AddDigest, At, TypeOK, Idle
  <2>2. job.msg \in Message /\ job.class \in Class /\ job.cmd # "remove"
    BY <2>1 DEF Job, JobCounted
  <2>3. digest[job.msg] \in WordData
    BY <1>t, <2>2 DEF TypeOK
  <2>4. digest'[job.msg] = Adjusted(digest[job.msg], job.class, 1)
    BY <1>10, <1>t, <2>2 DEF AddDigest, TypeOK
  <2>5. digest'[job.msg][job.class] > 0
    BY <2>2, <2>3, <2>4 DEF Adjusted, WordData
  <2>6. job'.msg = job.msg /\ job'.class = job.class /\ job'.cmd = job.cmd
    BY <1>10, <2>1 DEF AddDigest, Job
  <2> QED
    BY <2>2, <2>5, <2>6 DEF JobCounted
<1>11. CASE AddMessage
  <2>1. job \in Job /\ job # Idle /\ job.stage = "count"
    BY <1>11, <1>t DEF AddMessage, At, TypeOK, Idle
  <2>2. /\ job'.msg = job.msg /\ job'.class = job.class /\ job'.cmd = job.cmd
        /\ digest' = digest
    BY <1>11, <2>1 DEF AddMessage, Job
  <2> QED
    BY <2>1, <2>2 DEF JobCounted
<1>12. CASE Confident
  BY <1>12, <1>idle DEF Confident
<1>13. CASE GiveUp
  BY <1>13, <1>idle DEF GiveUp
<1>14. CASE AnotherAttempt
  <2>1. job \in Job /\ job # Idle /\ job.stage = "score"
    BY <1>14, <1>t DEF AnotherAttempt, At, TypeOK, Idle
  <2>2. job'.stage = "ensure" /\ job'.cmd = job.cmd
    BY <1>14, <2>1 DEF AnotherAttempt, Job
  <2> QED
    BY <2>1, <2>2 DEF JobCounted
<1>15. CASE Interrupt
  BY <1>15, <1>idle DEF Interrupt
<1>16. CASE UNCHANGED vars
  BY <1>16 DEF vars, JobCounted
<1> QED
  BY <1>1, <1>2, <1>3, <1>4, <1>5, <1>6, <1>7, <1>8, <1>9, <1>10, <1>11,
     <1>12, <1>13, <1>14, <1>15, <1>16 DEF Next, Step

\* The step by which a command ends.
Achieves ==
  job # Idle /\ job' = Idle /\ interrupts' = interrupts =>
    LET d == digest'[job.msg]
    IN /\ d[Other(job.class)] = 0
       /\ (d[job.class] > 0) = (job.cmd = "classify")

LEMMA JobAchieves ==
  ASSUME DigestInv, JobCounted, [Next]_vars
  PROVE  Achieves
<1> SUFFICES ASSUME job # Idle, job' = Idle, interrupts' = interrupts
             PROVE  LET d == digest'[job.msg]
                    IN /\ d[Other(job.class)] = 0
                       /\ (d[job.class] > 0) = (job.cmd = "classify")
  BY DEF Achieves
<1>t. TypeOK /\ JobAgrees
  BY DEF DigestInv
<1>j. job \in Job /\ job.class \in Class /\ Other(job.class) \in Class
      /\ job.cmd \in {"classify", "remove"}
  BY <1>t DEF TypeOK, Job, Other, Class
<1>k. ASSUME NEW j \in Job PROVE j # Idle
  BY <1>k DEF Job, Idle, Stage
<1>i. interrupts \in Nat
  BY <1>t DEF TypeOK
<1>z. interrupts # interrupts + 1
  BY <1>i
\* remove ends when the message count has gone down, with no digest left.
<1>1. CASE SubtractMessage
  <2>1. job.stage = "uncount" /\ digest' = digest
    BY <1>1 DEF SubtractMessage, At
  <2>2. \A c \in Class : digest[job.msg][c] = 0
    BY <1>t, <2>1 DEF JobAgrees, At
  <2>3. job.cmd = "remove"
    <3>1. job.cmd # "remove" => [job EXCEPT !.stage = "admit"] = Idle
      BY <1>1 DEF SubtractMessage
    <3>2. [job EXCEPT !.stage = "admit"] \in Job
      BY <1>j DEF Job, Stage
    <3> QED
      BY <1>k, <3>1, <3>2
  <2> QED
    BY <1>j, <2>1, <2>2, <2>3
\* The others end when the score is settled.
<1>2. CASE Confident \/ GiveUp
  <2>1. job.stage = "score" /\ digest' = digest
    BY <1>2 DEF Confident, GiveUp, At
  <2>2. digest[job.msg][Other(job.class)] = 0 /\ digest[job.msg][job.class] > 0
    BY <1>t, <2>1 DEF JobAgrees, JobCounted
  <2>3. job.cmd = "classify"
    BY <1>j, <2>1 DEF JobCounted
  <2> QED
    BY <2>1, <2>2, <2>3
<1>3. CASE Interrupt
  BY <1>3, <1>z DEF Interrupt
\* Every other step leaves a job running.
<1>4. ASSUME NEW m \in Message, NEW c \in Class, StartClassify(m, c)
      PROVE  FALSE
  BY <1>4 DEF StartClassify
<1>5. ASSUME NEW m \in Message, StartRemove(m)
      PROVE  FALSE
  BY <1>5 DEF StartRemove
<1>6. ASSUME NEW junk \in JunkCounts, Sweep(junk)
      PROVE  FALSE
  BY <1>6 DEF Sweep
<1>7. ASSUME EnsureClass \/ Admit \/ AddDigest \/ AddMessage \/ SubtractDigest
             \/ AnotherAttempt \/ \E t \in Term : SubtractTerm(t) \/ AddTerm(t)
      PROVE  FALSE
  <2>1. job'.stage \in Stage
    BY <1>7, <1>j DEF EnsureClass, Admit, AddDigest, AddMessage, SubtractDigest,
       AnotherAttempt, SubtractTerm, AddTerm, BeginRemove, Job, Stage
  <2> QED
    BY <2>1 DEF Idle, Stage
<1>8. CASE UNCHANGED vars
  BY <1>8 DEF vars
<1> QED
  BY <1>1, <1>2, <1>3, <1>4, <1>5, <1>6, <1>7, <1>8 DEF Next, Step

\* However the database was damaged before, a command that runs to its end leaves
\* its message in the class it was asked for and no other, or, for remove, in none.
THEOREM CommandAlwaysAchieved == Spec => CommandAchieved
<1>1. Init => DigestInv /\ JobCounted
  BY DigestInit DEF Init, JobCounted
<1>2. DigestInv /\ JobCounted /\ [Next]_vars => (DigestInv /\ JobCounted)'
  BY DigestNext, JobCountedNext
<1>3. DigestInv /\ JobCounted /\ [Next]_vars => [Achieves]_vars
  BY JobAchieves
<1>4. Init /\ [][Next]_vars => [][Achieves]_vars
  BY <1>1, <1>2, <1>3, PTL
<1> QED
  BY <1>4 DEF Spec, CommandAchieved, Achieves

-----------------------------------------------------------------------------
(* Message counts *)

\* The digest records of one class are finitely many.
LEMMA RecordedFinite ==
  \A c \in Class : IsFiniteSet(Recorded(c)) /\ Cardinality(Recorded(c)) \in Nat
  BY FS_Subset, FS_CardinalityType DEF Recorded

\* Adding or removing one message's digest changes their number by one.
LEMMA RecordedAdd ==
  ASSUME NEW c \in Class, NEW m \in Message, m \notin Recorded(c)
  PROVE  Cardinality(Recorded(c) \cup {m}) = Cardinality(Recorded(c)) + 1
  BY RecordedFinite, FS_AddElement

LEMMA RecordedRemove ==
  ASSUME NEW c \in Class, NEW m \in Recorded(c)
  PROVE  Cardinality(Recorded(c) \ {m}) = Cardinality(Recorded(c)) - 1
  BY RecordedFinite, FS_RemoveElement

\* Only between a digest and __COUNT__ is a change pending.
LEMMA NothingPending ==
  ASSUME job.stage \notin {"uncount", "count"}, NEW c \in Class
  PROVE  PendingTotal(c) = 0
  BY DEF PendingTotal, At

LEMMA DriftInit == Init => TotalDriftBounded
<1> SUFFICES ASSUME Init, NEW c \in Class PROVE TotalDrift(c) = 0
  BY DEF Init, TotalDriftBounded
<1>1. Recorded(c) = {}
  BY DEF Init, Recorded, Zero
<1>2. PendingTotal(c) = 0
  BY NothingPending DEF Init, Idle
<1> QED
  BY <1>1, <1>2, FS_EmptySet DEF Init, TotalDrift, Zero

LEMMA DriftNext ==
  ASSUME ~SweepsDigests, DigestInv, TotalDriftBounded, [Next]_vars
  PROVE  TotalDriftBounded'
<1>t. TypeOK /\ TypeOK' /\ OneClass /\ JobAgrees
  BY TypeNext DEF DigestInv
<1>n. /\ interrupts \in Nat
      /\ \A c \in Class : total[c] \in Nat /\ total'[c] \in Nat
  BY <1>t DEF TypeOK, WordData
<1>c. \A c \in Class : Cardinality(Recorded(c)) \in Nat
  BY RecordedFinite
<1>d. \A c \in Class : TotalDrift(c) \in -interrupts..interrupts
  BY DEF TotalDriftBounded
<1>r. ASSUME UNCHANGED digest
      PROVE  \A c \in Class : Recorded(c)' = Recorded(c)
  BY <1>r DEF Recorded
\* A step that reaches neither record, nor the point between them.
<1>q. ASSUME UNCHANGED <<digest, total, interrupts>>,
             \A c \in Class : PendingTotal(c)' = PendingTotal(c)
      PROVE  TotalDriftBounded'
  BY <1>q, <1>r, <1>d DEF TotalDriftBounded, TotalDrift
<1>z. ASSUME UNCHANGED <<digest, total, interrupts>>,
             job.stage \notin {"uncount", "count"},
             job'.stage \notin {"uncount", "count"}
      PROVE  TotalDriftBounded'
  <2>1. \A c \in Class : PendingTotal(c)' = PendingTotal(c)
    BY <1>z DEF PendingTotal, At
  <2> QED
    BY <1>q, <1>z, <2>1
<1>1. ASSUME NEW m \in Message, NEW c \in Class, StartClassify(m, c)
      PROVE  TotalDriftBounded'
  BY <1>1, <1>z DEF StartClassify, NewJob, Idle
<1>2. ASSUME NEW m \in Message, StartRemove(m)
      PROVE  TotalDriftBounded'
  <2> DEFINE j == NewJob("remove", m, KnownClass(m))
  <2>1. j \in Job
    BY <1>t, KnownClassType, NewJobType
  <2> HIDE DEF j
  <2>2. job.stage = "idle" /\ job'.stage = "subtract"
    BY <1>2, <2>1 DEF StartRemove, BeginRemove, Job, Idle, j
  <2> QED
    BY <1>2, <1>z, <2>2 DEF StartRemove
<1>3. ASSUME NEW junk \in JunkCounts, Sweep(junk)
      PROVE  TotalDriftBounded'
  BY <1>3, <1>z DEF Sweep, Idle
<1>4. CASE EnsureClass
  <2>1. job \in Job /\ job.stage = "ensure"
    BY <1>4, <1>t DEF EnsureClass, At, TypeOK, Idle
  <2>2. job'.stage \in {"subtract", "admit"}
    BY <1>4, <2>1 DEF EnsureClass, BeginRemove, Job
  <2> QED
    BY <1>4, <1>z, <2>1, <2>2 DEF EnsureClass
<1>5. ASSUME NEW t \in Term, SubtractTerm(t)
      PROVE  TotalDriftBounded'
  <2>1. job \in Job /\ job.stage = "subtract"
    BY <1>5, <1>t DEF SubtractTerm, At, TypeOK, Idle
  <2>2. job'.stage = "subtract"
    BY <1>5, <2>1 DEF SubtractTerm, Job
  <2> QED
    BY <1>5, <1>z, <2>1, <2>2 DEF SubtractTerm
<1>6. CASE SubtractDigest
  <2> DEFINE m == job.msg
  <2>1. job \in Job /\ job # Idle /\ job.stage = "subtract"
    BY <1>6, <1>t DEF SubtractDigest, At, TypeOK, Idle
  <2>2. m \in Message /\ job.from \in Class /\ job.times \in Nat
    BY <2>1 DEF Job
  <2>3. job.times = digest[m][job.from] /\ job.times > 0
    BY <1>t, <2>1 DEF JobAgrees, At
  <2>4. digest[m] \in WordData
    BY <1>t, <2>2 DEF TypeOK
  <2>5. /\ \A n \in Message : n # m => digest'[n] = digest[n]
        /\ digest'[m] = [digest[m] EXCEPT ![job.from] = 0]
    <3>1. Adjusted(digest[m], job.from, -job.times)
            = [digest[m] EXCEPT ![job.from] = 0]
      BY <2>2, <2>3, <2>4 DEF Adjusted, WordData
    <3> QED
      BY <1>6, <1>t, <2>2, <3>1 DEF SubtractDigest, TypeOK
  <2>6. m \in Recorded(job.from)
    BY <2>2, <2>3 DEF Recorded
  <2>7. ASSUME NEW c \in Class, c = job.from
        PROVE  Recorded(c)' = Recorded(c) \ {m}
    BY <2>2, <2>4, <2>5, <2>7 DEF Recorded, WordData
  <2>8. ASSUME NEW c \in Class, c # job.from
        PROVE  Recorded(c)' = Recorded(c)
    BY <2>2, <2>4, <2>5, <2>8 DEF Recorded, WordData
  <2>9. job'.stage = "uncount" /\ job'.from = job.from
    BY <1>6, <2>1 DEF SubtractDigest, Job
  <2>10. ASSUME NEW c \in Class PROVE TotalDrift(c)' = TotalDrift(c)
    <3>1. PendingTotal(c) = 0 /\ total' = total
      BY <1>6, <2>1, NothingPending DEF SubtractDigest
    <3>2. CASE c = job.from
      <4>1. PendingTotal(c)' = 1
        BY <2>9, <3>2 DEF PendingTotal, At
      <4>2. Cardinality(Recorded(c)') = Cardinality(Recorded(c)) - 1
        BY <2>6, <2>7, <3>2, RecordedRemove
      <4> QED
        BY <1>n, <1>c, <3>1, <4>1, <4>2 DEF TotalDrift
    <3>3. CASE c # job.from
      <4>1. PendingTotal(c)' = 0
        BY <2>9, <3>3 DEF PendingTotal, At
      <4> QED
        BY <2>8, <3>1, <3>3, <4>1 DEF TotalDrift
    <3> QED
      BY <3>2, <3>3
  <2> QED
    BY <1>6, <1>d, <2>10 DEF SubtractDigest, TotalDriftBounded
<1>7. CASE SubtractMessage
  <2>1. job \in Job /\ job.stage = "uncount"
    BY <1>7, <1>t DEF SubtractMessage, At, TypeOK, Idle
  <2>2. job.from \in Class
    BY <2>1 DEF Job
  <2>3. job'.stage \in {"idle", "admit"}
    BY <1>7, <2>1 DEF SubtractMessage, Job, Idle
  <2>4. ASSUME NEW c \in Class
        PROVE  TotalDrift(c)' \in -interrupts'..interrupts'
    <3>1. PendingTotal(c)' = 0
      BY <2>3 DEF PendingTotal, At
    <3>2. Recorded(c)' = Recorded(c) /\ interrupts' = interrupts
      BY <1>7, <1>r DEF SubtractMessage
    <3>3. CASE c = job.from
      <4>1. PendingTotal(c) = 1
        BY <2>1, <3>3 DEF PendingTotal, At
      <4>2. total'[c] = IF total[c] - 1 < 0 THEN 0 ELSE total[c] - 1
        BY <1>7, <1>t, <2>2, <3>3
           DEF SubtractMessage, Adjusted, TypeOK, WordData
      <4> QED
        BY <1>n, <1>c, <1>d, <3>1, <3>2, <4>1, <4>2 DEF TotalDrift
    <3>4. CASE c # job.from
      <4>1. PendingTotal(c) = 0
        BY <2>1, <3>4 DEF PendingTotal, At
      <4>2. total'[c] = total[c]
        BY <1>7, <1>t, <2>2, <3>4
           DEF SubtractMessage, Adjusted, TypeOK, WordData
      <4> QED
        BY <1>d, <3>1, <3>2, <4>1, <4>2 DEF TotalDrift
    <3> QED
      BY <3>3, <3>4
  <2> QED
    BY <2>4 DEF TotalDriftBounded
<1>8. CASE Admit
  <2>1. job \in Job /\ job.stage = "admit"
    BY <1>8, <1>t DEF Admit, At, TypeOK, Idle
  <2>2. job'.stage \in {"score", "add"}
    BY <1>8, <2>1 DEF Admit, Job
  <2> QED
    BY <1>8, <1>z, <2>1, <2>2 DEF Admit
<1>9. ASSUME NEW t \in Term, AddTerm(t)
      PROVE  TotalDriftBounded'
  <2>1. job \in Job /\ job.stage = "add"
    BY <1>9, <1>t DEF AddTerm, At, TypeOK, Idle
  <2>2. job'.stage = "add"
    BY <1>9, <2>1 DEF AddTerm, Job
  <2> QED
    BY <1>9, <1>z, <2>1, <2>2 DEF AddTerm
<1>10. CASE AddDigest
  <2> DEFINE m == job.msg
  <2>1. job \in Job /\ job # Idle /\ job.stage = "add"
    BY <1>10, <1>t DEF AddDigest, At, TypeOK, Idle
  <2>2. m \in Message /\ job.class \in Class
    BY <2>1 DEF Job
  <2>3. job.known = (digest[m][job.class] > 0)
    BY <1>t, <2>1 DEF JobAgrees, At
  <2>4. digest[m] \in WordData
    BY <1>t, <2>2 DEF TypeOK
  <2>5. /\ \A n \in Message : n # m => digest'[n] = digest[n]
        /\ digest'[m] = [digest[m] EXCEPT ![job.class] = @ + 1]
    <3>1. Adjusted(digest[m], job.class, 1)
            = [digest[m] EXCEPT ![job.class] = @ + 1]
      BY <2>2, <2>4 DEF Adjusted, WordData
    <3> QED
      BY <1>10, <1>t, <2>2, <3>1 DEF AddDigest, TypeOK
  <2>6. ASSUME NEW c \in Class, c = job.class
        PROVE  Recorded(c)' = Recorded(c) \cup {m}
    BY <2>2, <2>4, <2>5, <2>6 DEF Recorded, WordData
  <2>7. ASSUME NEW c \in Class, c # job.class
        PROVE  Recorded(c)' = Recorded(c)
    BY <2>2, <2>4, <2>5, <2>7 DEF Recorded, WordData
  <2>8. job'.class = job.class
        /\ job'.stage = IF job.known THEN "score" ELSE "count"
    BY <1>10, <2>1 DEF AddDigest, Job
  <2>9. ASSUME NEW c \in Class PROVE TotalDrift(c)' = TotalDrift(c)
    <3>1. PendingTotal(c) = 0 /\ total' = total
      BY <1>10, <2>1, NothingPending DEF AddDigest
    <3>2. CASE c = job.class /\ digest[m][job.class] > 0
      <4>1. m \in Recorded(c)
        BY <2>2, <3>2 DEF Recorded
      <4>2. Recorded(c)' = Recorded(c)
        BY <2>6, <3>2, <4>1
      <4>3. PendingTotal(c)' = 0
        BY <2>3, <2>8, <3>2 DEF PendingTotal, At
      <4> QED
        BY <3>1, <4>2, <4>3 DEF TotalDrift
    <3>3. CASE c = job.class /\ ~(digest[m][job.class] > 0)
      <4>1. m \notin Recorded(c)
        BY <3>3 DEF Recorded
      <4>2. Cardinality(Recorded(c)') = Cardinality(Recorded(c)) + 1
        BY <2>2, <2>6, <3>3, <4>1, RecordedAdd
      <4>3. PendingTotal(c)' = -1
        BY <2>3, <2>8, <3>3 DEF PendingTotal, At
      <4> QED
        BY <1>n, <1>c, <3>1, <4>2, <4>3 DEF TotalDrift
    <3>4. CASE c # job.class
      <4>1. PendingTotal(c)' = 0
        BY <2>8, <3>4 DEF PendingTotal, At
      <4> QED
        BY <2>7, <3>1, <3>4, <4>1 DEF TotalDrift
    <3> QED
      BY <3>2, <3>3, <3>4
  <2> QED
    BY <1>10, <1>d, <2>9 DEF AddDigest, TotalDriftBounded
<1>11. CASE AddMessage
  <2>1. job \in Job /\ job.stage = "count"
    BY <1>11, <1>t DEF AddMessage, At, TypeOK, Idle
  <2>2. job.class \in Class
    BY <2>1 DEF Job
  <2>3. job'.stage = "score"
    BY <1>11, <2>1 DEF AddMessage, Job
  <2>4. ASSUME NEW c \in Class PROVE TotalDrift(c)' = TotalDrift(c)
    <3>1. PendingTotal(c)' = 0
      BY <2>3 DEF PendingTotal, At
    <3>2. Recorded(c)' = Recorded(c)
      BY <1>11, <1>r DEF AddMessage
    <3>3. CASE c = job.class
      <4>1. PendingTotal(c) = -1
        BY <2>1, <3>3 DEF PendingTotal, At
      <4>2. total'[c] = total[c] + 1
        BY <1>11, <1>n, <1>t, <2>2, <3>3
           DEF AddMessage, Adjusted, TypeOK, WordData
      <4> QED
        BY <1>n, <1>c, <3>1, <3>2, <4>1, <4>2 DEF TotalDrift
    <3>4. CASE c # job.class
      <4>1. PendingTotal(c) = 0
        BY <2>1, <3>4 DEF PendingTotal, At
      <4>2. total'[c] = total[c]
        BY <1>11, <1>t, <2>2, <3>4 DEF AddMessage, Adjusted, TypeOK, WordData
      <4> QED
        BY <3>1, <3>2, <4>1, <4>2 DEF TotalDrift
    <3> QED
      BY <3>3, <3>4
  <2> QED
    BY <1>11, <1>d, <2>4 DEF AddMessage, TotalDriftBounded
<1>12. CASE Confident
  BY <1>12, <1>z DEF Confident, At, Idle
<1>13. CASE GiveUp
  BY <1>13, <1>z DEF GiveUp, At, Idle
<1>14. CASE AnotherAttempt
  <2>1. job \in Job /\ job.stage = "score"
    BY <1>14, <1>t DEF AnotherAttempt, At, TypeOK, Idle
  <2>2. job'.stage = "ensure"
    BY <1>14, <2>1 DEF AnotherAttempt, Job
  <2> QED
    BY <1>14, <1>z, <2>1, <2>2 DEF AnotherAttempt
\* What was pending is lost: one message in one class.
<1>15. CASE Interrupt
  <2>1. interrupts' = interrupts + 1 /\ total' = total /\ job'.stage = "idle"
    BY <1>15 DEF Interrupt, Idle
  <2>2. ASSUME NEW c \in Class
        PROVE  TotalDrift(c)' \in -interrupts'..interrupts'
    <3>1. Recorded(c)' = Recorded(c)
      BY <1>15, <1>r DEF Interrupt
    <3>2. PendingTotal(c) \in {-1, 0, 1} /\ PendingTotal(c)' = 0
      BY <2>1 DEF PendingTotal, At
    <3> QED
      BY <1>n, <1>c, <1>d, <2>1, <3>1, <3>2 DEF TotalDrift
  <2> QED
    BY <2>2 DEF TotalDriftBounded
<1>16. CASE UNCHANGED vars
  BY <1>16, <1>q DEF vars, PendingTotal, At
<1> QED
  BY <1>1, <1>2, <1>3, <1>4, <1>5, <1>6, <1>7, <1>8, <1>9, <1>10, <1>11,
     <1>12, <1>13, <1>14, <1>15, <1>16 DEF Next, Step

\* In a database whose sweep keeps digests, each interrupt puts __COUNT__ at most
\* one message away from the number of digests, and nothing else does.
THEOREM TotalDriftAlwaysBounded ==
  ASSUME ~SweepsDigests
  PROVE  Spec => []TotalDriftBounded
<1>1. Init => DigestInv /\ TotalDriftBounded
  BY DigestInit, DriftInit
<1>2. DigestInv /\ TotalDriftBounded /\ [Next]_vars
        => (DigestInv /\ TotalDriftBounded)'
  BY DigestNext, DriftNext
<1> QED
  BY <1>1, <1>2, PTL DEF Spec

-----------------------------------------------------------------------------
(* Term counts *)

LEMMA MaxTokensBounds ==
  ASSUME NEW t \in Term
  PROVE  /\ MaxTokens(t) \in Nat
         /\ \A m \in Message : TokenCount[m][t] <= MaxTokens(t)
<1> DEFINE C == {TokenCount[m][t] : m \in Message}
           N == {0} \cup C
<1>1. IsFiniteSet(C)
  <2> DEFINE f == [m \in Message |-> TokenCount[m][t]]
  <2>1. f \in Surjection(Message, C)
    BY DEF Surjection
  <2> HIDE DEF f, C
  <2> QED
    BY <2>1, FS_Surjection
<1>2. IsFiniteSet(N)
  <2> HIDE DEF C
  <2> QED
    BY <1>1, FS_AddElement
<1>3. N \subseteq Nat /\ N # {}
  OBVIOUS
<1>4. \E x \in N : \A y \in N : x >= y
  <2> HIDE DEF N
  <2> QED
    BY <1>2, <1>3, MaxExists
<1>5. MaxTokens(t) = CHOOSE x \in N : \A y \in N : x >= y
  BY DEF MaxTokens, Max
<1>6. MaxTokens(t) \in N /\ \A y \in N : MaxTokens(t) >= y
  <2> HIDE DEF N
  <2> QED
    BY <1>4, <1>5
<1>7. \A m \in Message : TokenCount[m][t] \in N /\ TokenCount[m][t] \in Nat
  OBVIOUS
<1> HIDE DEF N
<1> QED
  BY <1>3, <1>6, <1>7

LEMMA OwedType ==
  ASSUME TypeOK, NEW t \in Term, NEW c \in Class
  PROVE  /\ Owed(t, c) \in [Message -> Nat]
         /\ Owed(t, c) \in [Message -> Int]
         /\ Taught(t, c) \in Nat
<1>1. ASSUME NEW m \in Message
      PROVE  digest[m][c] * TokenCount[m][t] \in Nat
  BY ProductType DEF TypeOK, WordData
<1>2. Owed(t, c) \in [Message -> Nat] /\ Owed(t, c) \in [Message -> Int]
  BY <1>1 DEF Owed
<1> QED
  <2>1. SumOf(Owed(t, c), Message) \in Nat
    BY <1>2, SumType
  <2> QED
    BY <1>2, <2>1, TaughtIsSum

LEMMA TaughtKept ==
  ASSUME UNCHANGED digest, NEW t, NEW c
  PROVE  Taught(t, c)' = Taught(t, c)
<1>1. Owed(t, c)' = Owed(t, c)
  BY DEF Owed
<1>2. Taught(t, c) = SumOf(Owed(t, c), Message)
  BY TaughtIsSum
<1>3. Taught(t, c)' = SumOf(Owed(t, c)', Message)
  BY TaughtIsSumNext
<1> QED
  BY <1>1, <1>2, <1>3

\* One digest record changes, and what its message taught with it.
LEMMA TaughtChange ==
  ASSUME TypeOK, TypeOK', NEW t \in Term, NEW c \in Class, NEW m \in Message,
         \A n \in Message : n # m => digest'[n] = digest[n]
  PROVE  Taught(t, c)' = Taught(t, c)
           + (digest'[m][c] * TokenCount[m][t] - digest[m][c] * TokenCount[m][t])
<1> DEFINE g == Owed(t, c)
           h == Owed(t, c)'
<1>1. g \in [Message -> Int] /\ h \in [Message -> Int]
  <2>1. h \in [Message -> Int]
    <3>1. ASSUME NEW n \in Message
          PROVE  digest'[n][c] * TokenCount[n][t] \in Nat
      BY ProductType DEF TypeOK, WordData
    <3> QED
      BY <3>1 DEF Owed
  <2> QED
    BY <2>1, OwedType
<1>2. \A n \in Message : n # m => h[n] = g[n]
  BY DEF Owed
<1>3. /\ h[m] = digest'[m][c] * TokenCount[m][t]
      /\ g[m] = digest[m][c] * TokenCount[m][t]
  BY DEF Owed
<1>4. Taught(t, c) = SumOf(g, Message)
  BY TaughtIsSum
<1>5. Taught(t, c)' = SumOf(h, Message)
  BY TaughtIsSumNext
<1>6. SumOf(h, Message) = SumOf(g, Message) + (h[m] - g[m])
  <2> HIDE DEF g, h
  <2> QED
    BY <1>1, <1>2, SumChange
<1> QED
  BY <1>3, <1>4, <1>5, <1>6

\* What is pending lies between one message's tokens and, the other way, the
\* tokens of a message counted MaxClassify times.
LEMMA PendingTermBounds ==
  ASSUME DigestInv, NEW t \in Term, NEW c \in Class
  PROVE  /\ PendingTerm(t, c) \in Int
         /\ PendingTerm(t, c) <= MaxTokens(t)
         /\ PendingTerm(t, c) >= -(MaxClassify * MaxTokens(t))
<1>m. MaxTokens(t) \in Nat /\ MaxClassify * MaxTokens(t) \in Nat
  BY MaxTokensBounds, ProductType
<1>1. CASE At("add") /\ job.class = c /\ t \notin job.todo
  <2>1. job.msg \in Message
    BY <1>1 DEF DigestInv, TypeOK, Job, Idle, At
  <2>2. TokenCount[job.msg][t] \in Nat /\ TokenCount[job.msg][t] <= MaxTokens(t)
    BY <2>1, MaxTokensBounds
  <2>3. PendingTerm(t, c) = TokenCount[job.msg][t]
    BY <1>1 DEF PendingTerm, At
  <2>4. \A a, b \in Nat : a >= -b
    OBVIOUS
  <2> QED
    BY <1>m, <2>2, <2>3, <2>4
<1>2. CASE At("subtract") /\ job.from = c /\ t \notin job.todo
  <2>1. job \in Job /\ job # Idle
    BY <1>2 DEF DigestInv, TypeOK, Idle, At
  <2>2. job.msg \in Message /\ job.from \in Class /\ job.times \in Nat
    BY <2>1 DEF Job
  <2>3. job.times <= MaxClassify
    BY <1>2, <2>1, <2>2 DEF DigestInv, JobAgrees, DigestBounded
  <2>4. TokenCount[job.msg][t] \in Nat /\ TokenCount[job.msg][t] <= MaxTokens(t)
    BY <2>2, MaxTokensBounds
  <2>5. /\ job.times * TokenCount[job.msg][t] <= MaxClassify * MaxTokens(t)
        /\ job.times * TokenCount[job.msg][t] \in Nat
    BY <1>m, <2>2, <2>3, <2>4, ProductGrows, ProductType
  <2>6. PendingTerm(t, c) = -(job.times * TokenCount[job.msg][t])
    BY <1>2 DEF PendingTerm, At
  <2> QED
    BY <1>m, <2>5, <2>6
<1>3. CASE /\ ~(At("add") /\ job.class = c /\ t \notin job.todo)
           /\ ~(At("subtract") /\ job.from = c /\ t \notin job.todo)
  <2>1. PendingTerm(t, c) = 0
    BY <1>3 DEF PendingTerm
  <2> QED
    BY <1>m, <2>1
<1> QED
  BY <1>1, <1>2, <1>3

\* Only the loops over a message's tokens leave anything pending.
LEMMA NoTermPending ==
  ASSUME job.stage \notin {"add", "subtract"}, NEW t, NEW c
  PROVE  PendingTerm(t, c) = 0
  BY DEF PendingTerm, At

LEMMA TermDriftType ==
  DigestInv => \A t \in Term, c \in Class : TermDrift(t, c) \in Int
<1> SUFFICES ASSUME DigestInv, NEW t \in Term, NEW c \in Class
             PROVE  TermDrift(t, c) \in Int
  OBVIOUS
<1>1. term[t][c] \in Nat /\ Taught(t, c) \in Nat
  BY OwedType DEF DigestInv, TypeOK, WordData
<1> QED
  BY <1>1, PendingTermBounds DEF TermDrift

LEMMA TermDriftTypeNext ==
  (DigestInv => \A t \in Term, c \in Class : TermDrift(t, c) \in Int)'
  BY TermDriftType, PTL

\* A step that is neither a sweep nor an interrupt leaves a term's drift as it
\* was, except that a count which stops at zero pulls a negative drift up.
DriftKept(t, c) ==
  \/ TermDrift(t, c)' = TermDrift(t, c)
  \/ TermDrift(t, c)' <= 0 /\ TermDrift(t, c)' >= TermDrift(t, c)

LEMMA TermDriftStep ==
  ASSUME DigestInv, [Next]_vars, ~Interrupt,
         ~ \E junk \in JunkCounts : Sweep(junk),
         NEW t \in Term, NEW c \in Class
  PROVE  DriftKept(t, c)
<1>t. TypeOK /\ TypeOK' /\ JobAgrees /\ DigestInv'
  BY TypeNext, DigestNext DEF DigestInv
<1>n. /\ term[t][c] \in Nat /\ term'[t][c] \in Nat
      /\ Taught(t, c) \in Nat
      /\ PendingTerm(t, c) \in Int
  BY <1>t, OwedType, PendingTermBounds DEF TypeOK, WordData
<1>u. ASSUME UNCHANGED digest PROVE Taught(t, c)' = Taught(t, c)
  BY <1>u, TaughtKept
<1>q. ASSUME UNCHANGED <<term, digest>>, PendingTerm(t, c)' = PendingTerm(t, c)
      PROVE  DriftKept(t, c)
  BY <1>q, <1>u DEF DriftKept, TermDrift
<1>z. ASSUME UNCHANGED <<term, digest>>,
             job.stage \notin {"add", "subtract"},
             job'.stage \notin {"add", "subtract"}
      PROVE  DriftKept(t, c)
  <2>1. PendingTerm(t, c)' = 0 /\ PendingTerm(t, c) = 0
    BY <1>z DEF PendingTerm, At
  <2> QED
    BY <1>q, <1>z, <2>1
\* A loop that begins: what it will never visit is not in the message.
<1>b. ASSUME UNCHANGED <<term, digest>>,
             job.stage \notin {"add", "subtract"},
             job' \in Job, job'.todo = TokensOf(job'.msg)
      PROVE  DriftKept(t, c)
  <2>1. job'.msg \in Message /\ job'.times \in Nat
    BY <1>b DEF Job
  <2>2. t \notin job'.todo => TokenCount[job'.msg][t] = 0
    BY <1>b, <2>1 DEF TokensOf
  <2>3. \A n \in Nat : -(n * 0) = 0
    OBVIOUS
  <2>4. PendingTerm(t, c)' = 0
    BY <2>1, <2>2, <2>3 DEF PendingTerm, At
  <2>5. PendingTerm(t, c) = 0
    BY <1>b, NoTermPending
  <2> QED
    BY <1>b, <1>q, <2>4, <2>5
<1>1. ASSUME NEW m \in Message, NEW d \in Class, StartClassify(m, d)
      PROVE  DriftKept(t, c)
  BY <1>1, <1>z DEF StartClassify, NewJob, Idle
<1>2. ASSUME NEW m \in Message, StartRemove(m)
      PROVE  DriftKept(t, c)
  <2> DEFINE j == NewJob("remove", m, KnownClass(m))
  <2>1. j \in Job
    BY <1>t, KnownClassType, NewJobType
  <2> HIDE DEF j
  <2>2. job.stage = "idle" /\ job' = BeginRemove(j)
    BY <1>2, <2>1 DEF StartRemove, Idle, j
  <2>3. job' \in Job /\ job'.todo = TokensOf(job'.msg)
    BY <1>t, <2>1, <2>2, BeginRemoveType DEF BeginRemove, Job
  <2> QED
    BY <1>2, <1>b, <2>2, <2>3 DEF StartRemove
<1>4. CASE EnsureClass
  <2>1. job \in Job /\ job.stage = "ensure"
    BY <1>4, <1>t DEF EnsureClass, At, TypeOK, Idle
  <2>2. CASE Contains(job.msg) /\ KnownClass(job.msg) # job.class
    <3>1. job' = BeginRemove(job) /\ UNCHANGED <<term, digest>>
      BY <1>4, <2>2 DEF EnsureClass
    <3>2. job' \in Job /\ job'.todo = TokensOf(job'.msg)
      BY <1>t, <2>1, <3>1, BeginRemoveType DEF BeginRemove, Job
    <3> QED
      BY <1>b, <2>1, <3>1, <3>2
  <2>3. CASE ~(Contains(job.msg) /\ KnownClass(job.msg) # job.class)
    <3>1. job'.stage = "admit" /\ UNCHANGED <<term, digest>>
      BY <1>4, <2>1, <2>3 DEF EnsureClass, Job
    <3> QED
      BY <1>z, <2>1, <3>1
  <2> QED
    BY <2>2, <2>3
<1>5. ASSUME NEW u \in Term, SubtractTerm(u)
      PROVE  DriftKept(t, c)
  <2>1. job \in Job /\ job # Idle /\ job.stage = "subtract"
    BY <1>5, <1>t DEF SubtractTerm, At, TypeOK, Idle
  <2>2. job.msg \in Message /\ job.from \in Class /\ job.times \in Nat
    BY <2>1 DEF Job
  <2>3. /\ job'.stage = "subtract" /\ job'.msg = job.msg
        /\ job'.from = job.from /\ job'.times = job.times
        /\ job'.todo = job.todo \ {u} /\ digest' = digest /\ u \in job.todo
    BY <1>5, <2>1 DEF SubtractTerm, Job
  <2>4. CASE u = t /\ job.from = c
    <3> DEFINE k == job.times * TokenCount[job.msg][t]
    <3>1. k \in Nat
      BY <2>2, ProductType
    <3>2. PendingTerm(t, c) = 0 /\ PendingTerm(t, c)' = -k
      BY <2>1, <2>3, <2>4 DEF PendingTerm, At
    <3>3. term'[t][c] = IF term[t][c] + (-k) < 0 THEN 0 ELSE term[t][c] + (-k)
      BY <1>5, <1>t, <2>4 DEF SubtractTerm, Adjusted, TypeOK, WordData
    <3>4. k <= Taught(t, c)
      <4>1. k = Owed(t, c)[job.msg]
        BY <1>t, <2>1, <2>2, <2>4 DEF Owed, JobAgrees, At
      <4>2. Owed(t, c)[job.msg] <= SumOf(Owed(t, c), Message)
        BY <1>t, <2>2, OwedType, SumCovers
      <4> QED
        BY <4>1, <4>2, TaughtIsSum
    <3> HIDE DEF k
    <3>5. Taught(t, c)' = Taught(t, c)
      BY <1>u, <2>3
    <3> QED
      BY <1>n, <3>1, <3>2, <3>3, <3>4, <3>5 DEF DriftKept, TermDrift
  <2>5. CASE ~(u = t /\ job.from = c)
    <3>1. PendingTerm(t, c)' = PendingTerm(t, c)
      BY <2>1, <2>3, <2>5 DEF PendingTerm, At
    <3>2. term'[t][c] = term[t][c]
      BY <1>5, <1>t, <2>2, <2>5 DEF SubtractTerm, Adjusted, TypeOK, WordData
    <3> QED
      BY <1>u, <2>3, <3>1, <3>2 DEF DriftKept, TermDrift
  <2> QED
    BY <2>4, <2>5
<1>6. CASE SubtractDigest
  <2>1. job \in Job /\ job # Idle /\ job.stage = "subtract"
    BY <1>6, <1>t DEF SubtractDigest, At, TypeOK, Idle
  <2>2. PICK m \in Message : m = job.msg
    BY <2>1 DEF Job
  <2>3. job.from \in Class /\ job.times \in Nat
    BY <2>1 DEF Job
  <2>4. job.times = digest[m][job.from] /\ digest[m] \in WordData
    BY <1>t, <2>1, <2>2 DEF JobAgrees, At, TypeOK
  <2>5. /\ digest'[m] = Adjusted(digest[m], job.from, -job.times)
        /\ \A n \in Message : n # m => digest'[n] = digest[n]
    BY <1>6, <1>t, <2>2 DEF SubtractDigest, TypeOK
  <2>6. PendingTerm(t, c)' = 0 /\ term' = term
    <3>1. job'.stage = "uncount"
      BY <1>6, <2>1 DEF SubtractDigest, Job
    <3> QED
      BY <1>6, <3>1 DEF SubtractDigest, PendingTerm, At
  <2>7. Taught(t, c)' = Taught(t, c)
          + (digest'[m][c] * TokenCount[m][t] - digest[m][c] * TokenCount[m][t])
    BY <1>t, <2>5, TaughtChange
  <2>8. digest[m][c] * TokenCount[m][t] \in Nat /\ 0 * TokenCount[m][t] = 0
    BY <2>4, ProductType DEF WordData
  <2>9. CASE job.from = c
    <3>1. digest'[m][c] = 0
      BY <2>3, <2>4, <2>5, <2>9 DEF Adjusted, WordData
    <3>2. PendingTerm(t, c) = -(digest[m][c] * TokenCount[m][t])
      BY <1>6, <2>1, <2>2, <2>4, <2>9 DEF SubtractDigest, PendingTerm, At
    <3>3. Taught(t, c)' = Taught(t, c) + PendingTerm(t, c)
      BY <1>n, <2>7, <2>8, <3>1, <3>2
    <3> QED
      BY <1>n, <2>6, <3>3 DEF DriftKept, TermDrift
  <2>10. CASE job.from # c
    <3>1. digest'[m][c] = digest[m][c]
      BY <2>4, <2>5, <2>10 DEF Adjusted, WordData
    <3>2. PendingTerm(t, c) = 0
      BY <2>1, <2>10 DEF PendingTerm, At
    <3>3. Taught(t, c)' = Taught(t, c)
      BY <1>n, <2>7, <2>8, <3>1
    <3> QED
      BY <2>6, <3>2, <3>3 DEF DriftKept, TermDrift
  <2> QED
    BY <2>9, <2>10
<1>7. CASE SubtractMessage
  <2>1. job \in Job /\ job.stage = "uncount"
    BY <1>7, <1>t DEF SubtractMessage, At, TypeOK, Idle
  <2>2. job'.stage \in {"idle", "admit"}
    BY <1>7, <2>1 DEF SubtractMessage, Job, Idle
  <2> QED
    BY <1>7, <1>z, <2>1, <2>2 DEF SubtractMessage
<1>8. CASE Admit
  <2>1. job \in Job /\ job.stage = "admit"
    BY <1>8, <1>t DEF Admit, At, TypeOK, Idle
  <2>2. CASE Contains(job.msg) /\ ~job.force
    <3>1. job'.stage = "score"
      BY <1>8, <2>1, <2>2 DEF Admit, Job
    <3> QED
      BY <1>8, <1>z, <2>1, <3>1 DEF Admit
  <2>3. CASE ~(Contains(job.msg) /\ ~job.force)
    <3>1. /\ job'.stage = "add" /\ job'.todo = TokensOf(job'.msg)
      BY <1>8, <2>1, <2>3 DEF Admit, Job
    <3>2. job' \in Job
      BY <1>t, <3>1 DEF TypeOK, Idle
    <3> QED
      BY <1>8, <1>b, <2>1, <3>1, <3>2 DEF Admit
  <2> QED
    BY <2>2, <2>3
<1>9. ASSUME NEW u \in Term, AddTerm(u)
      PROVE  DriftKept(t, c)
  <2>1. job \in Job /\ job # Idle /\ job.stage = "add"
    BY <1>9, <1>t DEF AddTerm, At, TypeOK, Idle
  <2>2. job.msg \in Message /\ job.class \in Class
    BY <2>1 DEF Job
  <2>3. /\ job'.stage = "add" /\ job'.msg = job.msg /\ job'.class = job.class
        /\ job'.todo = job.todo \ {u} /\ digest' = digest /\ u \in job.todo
    BY <1>9, <2>1 DEF AddTerm, Job
  <2>4. CASE u = t /\ job.class = c
    <3>1. TokenCount[job.msg][t] \in Nat
      BY <2>2
    <3>2. PendingTerm(t, c) = 0 /\ PendingTerm(t, c)' = TokenCount[job.msg][t]
      BY <2>1, <2>3, <2>4 DEF PendingTerm, At
    <3>3. term'[t][c] = term[t][c] + TokenCount[job.msg][t]
      BY <1>9, <1>n, <1>t, <2>4, <3>1 DEF AddTerm, Adjusted, TypeOK, WordData
    <3>4. Taught(t, c)' = Taught(t, c)
      BY <1>u, <2>3
    <3> QED
      BY <1>n, <3>1, <3>2, <3>3, <3>4 DEF DriftKept, TermDrift
  <2>5. CASE ~(u = t /\ job.class = c)
    <3>1. PendingTerm(t, c)' = PendingTerm(t, c)
      BY <2>1, <2>3, <2>5 DEF PendingTerm, At
    <3>2. term'[t][c] = term[t][c]
      BY <1>9, <1>t, <2>2, <2>5 DEF AddTerm, Adjusted, TypeOK, WordData
    <3> QED
      BY <1>u, <2>3, <3>1, <3>2 DEF DriftKept, TermDrift
  <2> QED
    BY <2>4, <2>5
<1>10. CASE AddDigest
  <2>1. job \in Job /\ job # Idle /\ job.stage = "add"
    BY <1>10, <1>t DEF AddDigest, At, TypeOK, Idle
  <2>2. PICK m \in Message : m = job.msg
    BY <2>1 DEF Job
  <2>3. job.class \in Class /\ digest[m] \in WordData
    BY <1>t, <2>1, <2>2 DEF Job, TypeOK
  <2>4. /\ digest'[m] = Adjusted(digest[m], job.class, 1)
        /\ \A n \in Message : n # m => digest'[n] = digest[n]
    BY <1>10, <1>t, <2>2 DEF AddDigest, TypeOK
  <2>5. PendingTerm(t, c)' = 0 /\ term' = term
    <3>1. job'.stage \in {"score", "count"}
      BY <1>10, <2>1 DEF AddDigest, Job
    <3> QED
      BY <1>10, <3>1 DEF AddDigest, PendingTerm, At
  <2>6. Taught(t, c)' = Taught(t, c)
          + (digest'[m][c] * TokenCount[m][t] - digest[m][c] * TokenCount[m][t])
    BY <1>t, <2>4, TaughtChange
  <2>7. digest[m][c] * TokenCount[m][t] \in Nat /\ TokenCount[m][t] \in Nat
    BY <2>3, ProductType DEF WordData
  <2>8. CASE job.class = c
    <3>1. digest'[m][c] = digest[m][c] + 1 /\ digest[m][c] \in Nat
      BY <2>3, <2>4, <2>8 DEF Adjusted, WordData
    <3>2. (digest[m][c] + 1) * TokenCount[m][t]
            = digest[m][c] * TokenCount[m][t] + TokenCount[m][t]
      BY <2>7, <3>1, ProductNext
    <3>3. PendingTerm(t, c) = TokenCount[m][t]
      BY <1>10, <2>1, <2>2, <2>8 DEF AddDigest, PendingTerm, At
    <3>4. Taught(t, c)' = Taught(t, c) + PendingTerm(t, c)
      BY <1>n, <2>6, <2>7, <3>1, <3>2, <3>3
    <3> QED
      BY <1>n, <2>5, <3>4 DEF DriftKept, TermDrift
  <2>9. CASE job.class # c
    <3>1. digest'[m][c] = digest[m][c]
      BY <2>3, <2>4, <2>9 DEF Adjusted, WordData
    <3>2. PendingTerm(t, c) = 0
      BY <2>1, <2>9 DEF PendingTerm, At
    <3>3. Taught(t, c)' = Taught(t, c)
      BY <1>n, <2>6, <2>7, <3>1
    <3> QED
      BY <2>5, <3>2, <3>3 DEF DriftKept, TermDrift
  <2> QED
    BY <2>8, <2>9
<1>11. CASE AddMessage
  <2>1. job \in Job /\ job.stage = "count"
    BY <1>11, <1>t DEF AddMessage, At, TypeOK, Idle
  <2>2. job'.stage = "score"
    BY <1>11, <2>1 DEF AddMessage, Job
  <2> QED
    BY <1>11, <1>z, <2>1, <2>2 DEF AddMessage
<1>12. CASE Confident
  BY <1>12, <1>z DEF Confident, At, Idle
<1>13. CASE GiveUp
  BY <1>13, <1>z DEF GiveUp, At, Idle
<1>14. CASE AnotherAttempt
  <2>1. job \in Job /\ job.stage = "score"
    BY <1>14, <1>t DEF AnotherAttempt, At, TypeOK, Idle
  <2>2. job'.stage = "ensure"
    BY <1>14, <2>1 DEF AnotherAttempt, Job
  <2> QED
    BY <1>14, <1>z, <2>1, <2>2 DEF AnotherAttempt
<1>15. CASE UNCHANGED vars
  BY <1>15, <1>q DEF vars, PendingTerm, At
<1> QED
  BY <1>1, <1>2, <1>4, <1>5, <1>6, <1>7, <1>8, <1>9, <1>10, <1>11,
     <1>12, <1>13, <1>14, <1>15 DEF Next, Step

\* A sweep that leaves the digests alone only takes counts away from terms.
LEMMA TermDriftSweep ==
  ASSUME ~SweepsDigests, DigestInv, NEW junk \in JunkCounts, Sweep(junk),
         NEW t \in Term, NEW c \in Class
  PROVE  TermDrift(t, c)' <= TermDrift(t, c) /\ interrupts' = interrupts
<1>1. /\ digest' = digest /\ job' = job /\ interrupts' = interrupts
      /\ term'[t] = Swept(term[t], junk)
  BY DEF Sweep
<1>2. term[t] \in WordData
  BY DEF DigestInv, TypeOK
<1>3. term'[t][c] \in {0, term[t][c]} /\ term[t][c] \in Nat
  BY <1>1, <1>2 DEF Swept, Zero, WordData
<1>4. Taught(t, c)' = Taught(t, c) /\ PendingTerm(t, c)' = PendingTerm(t, c)
  BY <1>1, TaughtKept DEF PendingTerm, At
<1>5. Taught(t, c) \in Nat /\ PendingTerm(t, c) \in Int
  BY OwedType, PendingTermBounds DEF DigestInv
<1> QED
  BY <1>1, <1>3, <1>4, <1>5 DEF TermDrift

\* An interrupt drops what was pending.
LEMMA TermDriftInterrupt ==
  ASSUME DigestInv, Interrupt, NEW t \in Term, NEW c \in Class
  PROVE  /\ interrupts' = interrupts + 1
         /\ TermDrift(t, c)' = TermDrift(t, c) + PendingTerm(t, c)
<1>1. interrupts' = interrupts + 1 /\ UNCHANGED <<term, digest>> /\ job' = Idle
  BY DEF Interrupt
<1>2. PendingTerm(t, c)' = 0 /\ Taught(t, c)' = Taught(t, c)
  BY <1>1, TaughtKept DEF PendingTerm, At, Idle
<1>3. term[t][c] \in Nat /\ Taught(t, c) \in Nat /\ PendingTerm(t, c) \in Int
  BY OwedType, PendingTermBounds DEF DigestInv, TypeOK, WordData
<1> QED
  BY <1>1, <1>2, <1>3 DEF TermDrift

\* The two halves of TermDriftBounded: the upper one survives sweeps of terms.
Surplus == \A t \in Term, c \in Class :
             TermDrift(t, c) <= interrupts * MaxTokens(t)
Deficit == \A t \in Term, c \in Class :
             TermDrift(t, c) >= -(interrupts * MaxClassify * MaxTokens(t))

\* A term owes nothing to a database without messages.
LEMMA TermDriftInit ==
  ASSUME Init PROVE Surplus /\ Deficit
<1> SUFFICES ASSUME NEW t \in Term, NEW c \in Class
             PROVE  /\ TermDrift(t, c) <= interrupts * MaxTokens(t)
                    /\ TermDrift(t, c) >= -(interrupts * MaxClassify * MaxTokens(t))
  BY DEF Surplus, Deficit
<1>1. term[t][c] = 0 /\ interrupts = 0
  BY DEF Init, Zero
<1>2. PendingTerm(t, c) = 0
  BY NoTermPending DEF Init, Idle
<1>3. Taught(t, c) = 0
  <2>1. ASSUME NEW m \in Message PROVE Owed(t, c)[m] = 0
    <3>1. digest[m][c] = 0 /\ TokenCount[m][t] \in Nat
      BY DEF Init, Zero
    <3> QED
      BY <3>1 DEF Owed
  <2> QED
    BY <2>1, SumOfZeros, TaughtIsSum
<1>4. MaxTokens(t) \in Nat
  BY MaxTokensBounds
<1>5. 0 * MaxTokens(t) = 0 /\ 0 * MaxClassify * MaxTokens(t) = 0
  BY <1>4
<1> QED
  BY <1>1, <1>2, <1>3, <1>5 DEF TermDrift

LEMMA InterruptsKept ==
  ASSUME [Next]_vars, ~Interrupt
  PROVE  interrupts' = interrupts
  BY DEF Next, Step, StartClassify, StartRemove, Sweep, EnsureClass,
     SubtractTerm, SubtractDigest, SubtractMessage, Admit, AddTerm, AddDigest,
     AddMessage, Confident, GiveUp, AnotherAttempt, vars

LEMMA SurplusNext ==
  ASSUME ~SweepsDigests \/ JunkCounts = {}, DigestInv, Surplus, [Next]_vars
  PROVE  Surplus'
<1> SUFFICES ASSUME NEW t \in Term, NEW c \in Class
             PROVE  TermDrift(t, c)' <= interrupts' * MaxTokens(t)
  BY DEF Surplus, MaxTokens
<1>n. /\ interrupts \in Nat /\ MaxTokens(t) \in Nat
      /\ TermDrift(t, c) \in Int
      /\ interrupts * MaxTokens(t) \in Nat
  BY MaxTokensBounds, TermDriftType, ProductType DEF DigestInv, TypeOK
<1>s. TermDrift(t, c) <= interrupts * MaxTokens(t)
  BY DEF Surplus
<1>d. TermDrift(t, c)' \in Int
  BY DigestNext, TermDriftTypeNext
<1>1. CASE Interrupt
  <2>1. (interrupts + 1) * MaxTokens(t) = interrupts * MaxTokens(t) + MaxTokens(t)
    BY <1>n, ProductNext
  <2> QED
    BY <1>1, <1>n, <1>s, <2>1, TermDriftInterrupt, PendingTermBounds
<1>2. ASSUME NEW junk \in JunkCounts, Sweep(junk)
      PROVE  TermDrift(t, c)' <= interrupts' * MaxTokens(t)
  BY <1>2, <1>d, <1>n, <1>s, TermDriftSweep
<1>3. CASE ~Interrupt /\ ~ \E junk \in JunkCounts : Sweep(junk)
  <2>1. ~ \E junk \in JunkCounts : Sweep(junk)
    BY <1>3
  <2>2. DriftKept(t, c)
    BY <1>3, <2>1, TermDriftStep
  <2>3. interrupts' = interrupts
    BY <1>3, InterruptsKept
  <2> QED
    BY <1>d, <1>n, <1>s, <2>2, <2>3 DEF DriftKept
<1> QED
  BY <1>1, <1>2, <1>3

LEMMA DeficitNext ==
  ASSUME JunkCounts = {}, DigestInv, Deficit, [Next]_vars
  PROVE  Deficit'
<1> SUFFICES ASSUME NEW t \in Term, NEW c \in Class
             PROVE  TermDrift(t, c)'
                      >= -(interrupts' * MaxClassify * MaxTokens(t))
  BY DEF Deficit, MaxTokens
<1> DEFINE Allowed == interrupts * MaxClassify * MaxTokens(t)
           One == MaxClassify * MaxTokens(t)
<1>n. /\ interrupts \in Nat /\ MaxTokens(t) \in Nat /\ MaxClassify \in Nat
      /\ TermDrift(t, c) \in Int
  BY MaxTokensBounds, TermDriftType DEF DigestInv, TypeOK
<1>m. Allowed \in Nat /\ One \in Nat
  <2>1. interrupts * MaxClassify \in Nat
    BY <1>n, ProductType
  <2> QED
    BY <1>n, <2>1, ProductType
<1>s. TermDrift(t, c) >= -Allowed
  BY DEF Deficit
<1>d. TermDrift(t, c)' \in Int
  BY DigestNext, TermDriftTypeNext
<1>1. CASE Interrupt
  <2>1. (interrupts + 1) * MaxClassify * MaxTokens(t) = Allowed + One
    BY <1>n
  <2>2. PendingTerm(t, c) \in Int /\ PendingTerm(t, c) >= -One
    BY PendingTermBounds
  <2>3. /\ interrupts' = interrupts + 1
        /\ TermDrift(t, c)' = TermDrift(t, c) + PendingTerm(t, c)
    BY <1>1, TermDriftInterrupt
  <2>4. TermDrift(t, c)' >= -(Allowed + One)
    <3> HIDE DEF Allowed, One
    <3> QED
      BY <1>n, <1>m, <1>s, <2>2, <2>3
  <2> QED
    BY <2>1, <2>3, <2>4
<1>2. CASE ~Interrupt
  <2>1. DriftKept(t, c)
    BY <1>2, TermDriftStep
  <2>2. interrupts' = interrupts
    BY <1>2, InterruptsKept
  <2>3. TermDrift(t, c)' >= -Allowed
    <3> HIDE DEF Allowed
    <3> QED
      BY <1>d, <1>n, <1>m, <1>s, <2>1 DEF DriftKept
  <2> QED
    BY <2>2, <2>3
<1> QED
  BY <1>1, <1>2

\* Between purges, a term's counts are what its messages gave it, but for what
\* each interrupt left half done: one message's tokens too many, or the tokens
\* of a message counted MaxClassify times too few.
THEOREM TermDriftAlwaysBounded ==
  ASSUME JunkCounts = {}
  PROVE  Spec => []TermDriftBounded
<1>1. Init => DigestInv /\ Surplus /\ Deficit
  BY DigestInit, TermDriftInit
<1>2. DigestInv /\ Surplus /\ Deficit /\ [Next]_vars
        => (DigestInv /\ Surplus /\ Deficit)'
  BY DigestNext, SurplusNext, DeficitNext
<1>3. Surplus /\ Deficit => TermDriftBounded
  BY DEF Surplus, Deficit, TermDriftBounded
<1> QED
  BY <1>1, <1>2, <1>3, PTL DEF Spec

\* Purges may take terms away at any time, but as long as commands run to their
\* end no term is ever left with more than the recorded messages gave it.
THEOREM NeverAlwaysOverCounted ==
  ASSUME ~SweepsDigests, MaxInterrupts = 0
  PROVE  Spec => []NeverOverCounted
<1>1. Init => DigestInv /\ Surplus
  BY DigestInit, TermDriftInit
<1>2. DigestInv /\ Surplus /\ [Next]_vars => (DigestInv /\ Surplus)'
  BY DigestNext, SurplusNext
<1>3. DigestInv /\ Surplus => NeverOverCounted
  <2> SUFFICES ASSUME DigestInv, Surplus, NEW t \in Term, NEW c \in Class
               PROVE  TermDrift(t, c) <= 0
    BY DEF NeverOverCounted
  <2>1. interrupts = 0
    BY DEF DigestInv, TypeOK
  <2>2. MaxTokens(t) \in Nat /\ TermDrift(t, c) <= interrupts * MaxTokens(t)
    BY MaxTokensBounds DEF Surplus
  <2>3. 0 * MaxTokens(t) = 0
    BY <2>2
  <2> QED
    BY <2>1, <2>2, <2>3
<1> QED
  BY <1>1, <1>2, <1>3, PTL DEF Spec

-----------------------------------------------------------------------------
(* The ledger *)

LEMMA LedgerInit == Init => Ledger!Init
<1> SUFFICES ASSUME Init PROVE Ledger!Init
  OBVIOUS
<1>1. \A m \in Message : KnownAs(m) = "unknown"
  BY DEF Init, KnownAs, Zero, Class
<1>2. \A c \in Class : total[c] - PendingTotal(c) = 0
  BY NothingPending DEF Init, Zero, Idle
<1> QED
  BY <1>1, <1>2 DEF Ledger!Init

\* With nothing interrupted, __COUNT__ is exact, so that the ledger's steps are
\* the writes of digest records and no other step shows.
LEMMA LedgerNext ==
  ASSUME ~SweepsDigests, MaxInterrupts = 0,
         DigestInv, TotalDriftBounded, [Next]_vars
  PROVE  [Ledger!Next]_(Ledger!ledgerVars)
<1> DEFINE Counted(c) == total[c] - PendingTotal(c)
<1>t. TypeOK /\ TypeOK' /\ OneClass /\ JobAgrees
  BY TypeNext DEF DigestInv
<1>0. interrupts = 0
  BY <1>t DEF TypeOK
<1>n. \A c \in Class : total[c] \in Nat /\ Cardinality(Recorded(c)) \in Nat
  BY <1>t, RecordedFinite DEF TypeOK, WordData
<1>d. \A c \in Class : total[c] = Cardinality(Recorded(c)) + PendingTotal(c)
  <2> SUFFICES ASSUME NEW c \in Class
               PROVE  total[c] = Cardinality(Recorded(c)) + PendingTotal(c)
    OBVIOUS
  <2>1. TotalDrift(c) \in 0..0
    BY <1>0 DEF TotalDriftBounded
  <2>2. PendingTotal(c) \in {-1, 0, 1}
    BY DEF PendingTotal
  <2> QED
    BY <1>n, <2>1, <2>2 DEF TotalDrift
<1>s. ASSUME UNCHANGED digest, \A c \in Class : Counted(c)' = Counted(c)
      PROVE  UNCHANGED Ledger!ledgerVars
  BY <1>s DEF Ledger!ledgerVars, KnownAs
<1>z. ASSUME UNCHANGED <<digest, total>>,
             job.stage \notin {"uncount", "count"},
             job'.stage \notin {"uncount", "count"}
      PROVE  UNCHANGED Ledger!ledgerVars
  <2>1. \A c \in Class : Counted(c)' = Counted(c)
    BY <1>z DEF PendingTotal, At
  <2> QED
    BY <1>s, <1>z, <2>1
<1> SUFFICES Ledger!Next \/ UNCHANGED Ledger!ledgerVars
  OBVIOUS
<1>1. ASSUME NEW m \in Message, NEW c \in Class, StartClassify(m, c)
      PROVE  UNCHANGED Ledger!ledgerVars
  BY <1>1, <1>z DEF StartClassify, NewJob, Idle
<1>2. ASSUME NEW m \in Message, StartRemove(m)
      PROVE  UNCHANGED Ledger!ledgerVars
  <2> DEFINE j == NewJob("remove", m, KnownClass(m))
  <2>1. j \in Job
    BY <1>t, KnownClassType, NewJobType
  <2> HIDE DEF j
  <2>2. job.stage = "idle" /\ job'.stage = "subtract"
    BY <1>2, <2>1 DEF StartRemove, BeginRemove, Job, Idle, j
  <2> QED
    BY <1>2, <1>z, <2>2 DEF StartRemove
<1>3. ASSUME NEW junk \in JunkCounts, Sweep(junk)
      PROVE  UNCHANGED Ledger!ledgerVars
  BY <1>3, <1>z DEF Sweep, Idle
<1>4. CASE EnsureClass
  <2>1. job \in Job /\ job.stage = "ensure"
    BY <1>4, <1>t DEF EnsureClass, At, TypeOK, Idle
  <2>2. job'.stage \in {"subtract", "admit"}
    BY <1>4, <2>1 DEF EnsureClass, BeginRemove, Job
  <2> QED
    BY <1>4, <1>z, <2>1, <2>2 DEF EnsureClass
<1>5. ASSUME NEW t \in Term, SubtractTerm(t)
      PROVE  UNCHANGED Ledger!ledgerVars
  <2>1. job \in Job /\ job.stage = "subtract"
    BY <1>5, <1>t DEF SubtractTerm, At, TypeOK, Idle
  <2>2. job'.stage = "subtract"
    BY <1>5, <2>1 DEF SubtractTerm, Job
  <2> QED
    BY <1>5, <1>z, <2>1, <2>2 DEF SubtractTerm
<1>6. CASE SubtractDigest
  <2>1. job \in Job /\ job # Idle /\ job.stage = "subtract"
    BY <1>6, <1>t DEF SubtractDigest, At, TypeOK, Idle
  <2>2. PICK m \in Message : m = job.msg
    BY <2>1 DEF Job
  <2>3. PICK c \in Class : c = job.from
    BY <2>1 DEF Job
  <2>4. digest[m] \in WordData /\ digest[m][c] = job.times /\ job.times > 0
    BY <1>t, <2>1, <2>2, <2>3 DEF JobAgrees, At, TypeOK
  <2>5. Adjusted(digest[m], c, -job.times) = [digest[m] EXCEPT ![c] = 0]
    BY <2>4 DEF Adjusted, WordData
  <2>6. /\ \A n \in Message : n # m => digest'[n] = digest[n]
        /\ digest'[m] = [digest[m] EXCEPT ![c] = 0]
    BY <1>6, <1>t, <2>2, <2>3, <2>5 DEF SubtractDigest, TypeOK
  <2>7. KnownAs(m) = c
    BY <1>t, <2>4 DEF KnownAs, OneClass, WordData, Class
  <2>8. KnownAs(m)' = "unknown"
    BY <1>t, <2>4, <2>6 DEF KnownAs, OneClass, WordData, Class
  <2>9. \A n \in Message : n # m => KnownAs(n)' = KnownAs(n)
    BY <2>6 DEF KnownAs
  <2>10. Counted(c)' = Counted(c) - 1
    <3>1. PendingTotal(c) = 0
      BY <2>1, NothingPending
    <3>2. job'.stage = "uncount" /\ job'.from = c
      BY <1>6, <2>1, <2>3 DEF SubtractDigest, Job
    <3>3. PendingTotal(c)' = 1
      BY <3>2 DEF PendingTotal, At
    <3>4. total' = total
      BY <1>6 DEF SubtractDigest
    <3> QED
      BY <1>n, <3>1, <3>3, <3>4
  <2>11. \A d \in Class : d # c => Counted(d)' = Counted(d)
    <3>1. job'.stage = "uncount" /\ job'.from = c
      BY <1>6, <2>1, <2>3 DEF SubtractDigest, Job
    <3> QED
      BY <1>6, <2>1, <3>1 DEF SubtractDigest, PendingTotal, At
  <2>12. Ledger!Forget(m)
    BY <2>7, <2>8, <2>9, <2>10, <2>11 DEF Ledger!Forget, Class
  <2> QED
    BY <2>12 DEF Ledger!Next
<1>7. CASE SubtractMessage
  <2>1. job \in Job /\ job.stage = "uncount"
    BY <1>7, <1>t DEF SubtractMessage, At, TypeOK, Idle
  <2>2. job.from \in Class
    BY <2>1 DEF Job
  <2>3. job'.stage \in {"idle", "admit"}
    BY <1>7, <2>1 DEF SubtractMessage, Job, Idle
  <2>4. ASSUME NEW c \in Class PROVE Counted(c)' = Counted(c)
    <3>1. PendingTotal(c)' = 0
      BY <2>3 DEF PendingTotal, At
    <3>2. PendingTotal(c) = IF c = job.from THEN 1 ELSE 0
      BY <2>1 DEF PendingTotal, At
    <3>3. c = job.from => total[c] > 0
      BY <1>n, <1>d, <3>2
    <3>4. total'[c] = IF c = job.from THEN total[c] - 1 ELSE total[c]
      BY <1>7, <1>n, <1>t, <2>2, <3>3
         DEF SubtractMessage, Adjusted, TypeOK, WordData
    <3> QED
      BY <1>n, <3>1, <3>2, <3>4
  <2> QED
    BY <1>7, <1>s, <2>4 DEF SubtractMessage
<1>8. CASE Admit
  <2>1. job \in Job /\ job.stage = "admit"
    BY <1>8, <1>t DEF Admit, At, TypeOK, Idle
  <2>2. job'.stage \in {"score", "add"}
    BY <1>8, <2>1 DEF Admit, Job
  <2> QED
    BY <1>8, <1>z, <2>1, <2>2 DEF Admit
<1>9. ASSUME NEW t \in Term, AddTerm(t)
      PROVE  UNCHANGED Ledger!ledgerVars
  <2>1. job \in Job /\ job.stage = "add"
    BY <1>9, <1>t DEF AddTerm, At, TypeOK, Idle
  <2>2. job'.stage = "add"
    BY <1>9, <2>1 DEF AddTerm, Job
  <2> QED
    BY <1>9, <1>z, <2>1, <2>2 DEF AddTerm
<1>10. CASE AddDigest
  <2>1. job \in Job /\ job # Idle /\ job.stage = "add"
    BY <1>10, <1>t DEF AddDigest, At, TypeOK, Idle
  <2>2. PICK m \in Message : m = job.msg
    BY <2>1 DEF Job
  <2>3. PICK c \in Class : c = job.class
    BY <2>1 DEF Job
  <2>4. /\ digest[m] \in WordData
        /\ digest[m][Other(c)] = 0
        /\ job.known = (digest[m][c] > 0)
    BY <1>t, <2>1, <2>2, <2>3 DEF JobAgrees, At, TypeOK
  <2>5. Adjusted(digest[m], c, 1) = [digest[m] EXCEPT ![c] = @ + 1]
    BY <2>4 DEF Adjusted, WordData
  <2>6. /\ \A n \in Message : n # m => digest'[n] = digest[n]
        /\ digest'[m] = [digest[m] EXCEPT ![c] = @ + 1]
    BY <1>10, <1>t, <2>2, <2>3, <2>5 DEF AddDigest, TypeOK
  <2>7. KnownAs(m)' = c
    BY <2>4, <2>6 DEF KnownAs, Other, WordData, Class
  <2>8. \A n \in Message : n # m => KnownAs(n)' = KnownAs(n)
    BY <2>6 DEF KnownAs
  <2>9. \A d \in Class : PendingTotal(d) = 0
    BY <2>1, NothingPending
  <2>10. job'.class = c /\ total' = total
         /\ job'.stage = IF job.known THEN "score" ELSE "count"
    BY <1>10, <2>1, <2>3 DEF AddDigest, Job
  <2>11. CASE digest[m][c] > 0
    <3>1. KnownAs(m) = c
      BY <2>4, <2>11 DEF KnownAs, Other, WordData, Class
    <3>2. \A n \in Message : KnownAs(n)' = KnownAs(n)
      BY <2>7, <2>8, <3>1
    <3>3. \A d \in Class : Counted(d)' = Counted(d)
      BY <2>4, <2>9, <2>10, <2>11 DEF PendingTotal, At
    <3> QED
      BY <3>2, <3>3 DEF Ledger!ledgerVars
  <2>12. CASE ~(digest[m][c] > 0)
    <3>1. KnownAs(m) = "unknown"
      BY <2>4, <2>12 DEF KnownAs, Other, WordData, Class
    <3>2. job'.stage = "count"
      BY <2>4, <2>10, <2>12
    <3>3. PendingTotal(c)' = -1 /\ \A d \in Class : d # c => PendingTotal(d)' = 0
      BY <2>10, <3>2 DEF PendingTotal, At
    <3>4. Counted(c)' = Counted(c) + 1
      BY <1>n, <2>9, <2>10, <3>3
    <3>5. \A d \in Class : d # c => Counted(d)' = Counted(d)
      BY <2>9, <2>10, <3>3
    <3>6. Ledger!Learn(m, c)
      BY <2>7, <2>8, <3>1, <3>4, <3>5 DEF Ledger!Learn
    <3> QED
      BY <3>6 DEF Ledger!Next
  <2> QED
    BY <2>11, <2>12
<1>11. CASE AddMessage
  <2>1. job \in Job /\ job.stage = "count"
    BY <1>11, <1>t DEF AddMessage, At, TypeOK, Idle
  <2>2. job.class \in Class
    BY <2>1 DEF Job
  <2>3. job'.stage = "score"
    BY <1>11, <2>1 DEF AddMessage, Job
  <2>4. ASSUME NEW c \in Class PROVE Counted(c)' = Counted(c)
    <3>1. PendingTotal(c)' = 0
      BY <2>3 DEF PendingTotal, At
    <3>2. PendingTotal(c) = IF c = job.class THEN -1 ELSE 0
      BY <2>1 DEF PendingTotal, At
    <3>3. total'[c] = IF c = job.class THEN total[c] + 1 ELSE total[c]
      BY <1>11, <1>n, <1>t, <2>2
         DEF AddMessage, Adjusted, TypeOK, WordData
    <3> QED
      BY <1>n, <3>1, <3>2, <3>3
  <2> QED
    BY <1>11, <1>s, <2>4 DEF AddMessage
<1>12. CASE Confident
  BY <1>12, <1>z DEF Confident, At, Idle
<1>13. CASE GiveUp
  BY <1>13, <1>z DEF GiveUp, At, Idle
<1>14. CASE AnotherAttempt
  <2>1. job \in Job /\ job.stage = "score"
    BY <1>14, <1>t DEF AnotherAttempt, At, TypeOK, Idle
  <2>2. job'.stage = "ensure"
    BY <1>14, <2>1 DEF AnotherAttempt, Job
  <2> QED
    BY <1>14, <1>z, <2>1, <2>2 DEF AnotherAttempt
<1>15. CASE Interrupt
  BY <1>0, <1>15 DEF Interrupt
<1>16. CASE UNCHANGED vars
  <2>1. \A c \in Class : Counted(c)' = Counted(c)
    BY <1>16 DEF vars, PendingTotal, At
  <2> QED
    BY <1>16, <1>s, <2>1 DEF vars
<1> QED
  BY <1>1, <1>2, <1>3, <1>4, <1>5, <1>6, <1>7, <1>8, <1>9, <1>10, <1>11,
     <1>12, <1>13, <1>14, <1>15, <1>16 DEF Next, Step

\* Commands that run to their end keep the ledger: a message is in one class or
\* in none, and __COUNT__ is the number of messages in each.
THEOREM LedgerImplemented ==
  ASSUME ~SweepsDigests, MaxInterrupts = 0
  PROVE  Spec => ImplementsLedger
<1>1. Init => DigestInv /\ TotalDriftBounded
  BY DigestInit, DriftInit
<1>2. DigestInv /\ TotalDriftBounded /\ [Next]_vars
        => (DigestInv /\ TotalDriftBounded)'
  BY DigestNext, DriftNext
<1>3. DigestInv /\ TotalDriftBounded /\ [Next]_vars
        => [Ledger!Next]_(Ledger!ledgerVars)
  BY LedgerNext
<1> QED
  BY <1>1, <1>2, <1>3, LedgerInit, PTL DEF Spec, ImplementsLedger, Ledger!Spec

=============================================================================
