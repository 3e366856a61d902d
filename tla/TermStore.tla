------------------------------ MODULE TermStore ------------------------------
(***************************************************************************)
(* What a term database promises to FrequencyDB, whatever stack of         *)
(* FrequencyDBImpl classes implements it: the user's own records, read     *)
(* through a baseline of shared records, and a stable copy that trails     *)
(* them record by record and is what a crash leaves.                       *)
(*                                                                         *)
(* TermCache.tla is shown to implement this specification.                 *)
(***************************************************************************)
EXTENDS Integers

CONSTANTS
  Word,       \* words
  Count,      \* totals a record can hold
  Day,        \* time stamps
  None,       \* no record
  Shared,     \* Shared[w]: the record of the shared database, or None
  Drops       \* the words whose record is deleted when no counts are left

VARIABLES
  own,        \* own[w]: the user's record as the running process sees it
  stable,     \* stable[w]: the record that survives a crash
  last        \* the last completed call: what it was, on what, its count

storeVars == <<own, stable, last>>

Record == [n : Count, day : Day]
Call == [op : {"read", "write"}, word : Word, n : Count \cup {0}]
NoCall == [op |-> "none"]

\* A record that holds no counts says no more than a missing one.
Stored(w, r) == IF w \in Drops /\ r.n = 0 THEN None ELSE r

Lookup(w) == IF own[w] # None THEN own[w] ELSE Shared[w]
CountOf(r) == IF r = None THEN 0 ELSE r.n

Answer(op, w, n) == last' = [op |-> op, word |-> w, n |-> n]

\* Any of the records may reach the disk, each one whole.
Persist == \E W \in SUBSET Word :
             stable' = [w \in Word |-> IF w \in W THEN own'[w] ELSE stable[w]]

Init == /\ own = [w \in Word |-> None]
        /\ stable = own
        /\ last = NoCall

Read(w) == /\ Answer("read", w, CountOf(Lookup(w)))
           /\ UNCHANGED <<own, stable>>

Write(w, r) == /\ own' = [own EXCEPT ![w] = Stored(w, r)]
               /\ Answer("write", w, r.n)
               /\ Persist

\* A shared record that would only get a new date stays where it is.
TouchShared(w) == /\ own[w] = None
                  /\ Shared[w] # None
                  /\ Answer("write", w, CountOf(Shared[w]))
                  /\ own' = own
                  /\ Persist

Flush == /\ Persist
         /\ UNCHANGED <<own, last>>

Sweep(W) == /\ own' = [w \in Word |-> IF w \in W THEN None ELSE own[w]]
            /\ last' = NoCall
            /\ Persist

\* A process ends, killed or not, and the next one opens the database.
Reopen == /\ own' = stable
          /\ last' = NoCall
          /\ UNCHANGED stable

Next == \/ \E w \in Word : Read(w)
        \/ \E w \in Word, r \in Record : Write(w, r)
        \/ \E w \in Word : TouchShared(w)
        \/ Flush
        \/ \E W \in SUBSET Word : Sweep(W)
        \/ Reopen

Spec == Init /\ [][Next]_storeVars

=============================================================================
