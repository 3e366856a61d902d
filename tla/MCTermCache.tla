----------------------------- MODULE MCTermCache -----------------------------
(***************************************************************************)
(* Words that compete for a cache of one or two entries.                   *)
(***************************************************************************)
EXTENDS TermCache, TLC

CONSTANTS w1, w2, w3, w4

\* The shared database knows some of the words.
NothingShared == [w \in Word |-> None]
OneShared == [w \in Word |-> IF w = w1 THEN [n |-> 1, day |-> 0] ELSE None]

\* Words without a shared record are interchangeable.
Symmetry == Permutations({w1, w2, w3})

=============================================================================
