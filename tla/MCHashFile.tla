------------------------------ MODULE MCHashFile ------------------------------
(***************************************************************************)
(* A few slots, with codes that collide and wrap around the end.           *)
(***************************************************************************)
EXTENDS HashFile

\* purge, as Command_purge and AutoPurger run it, and cleanup with an age.
Purge(junk) == {[junk |-> junk, age |-> -1]}
PurgeEmptied == {Purge(0)}
CleanupOnes == {{[junk |-> 1, age |-> 0]}}

=============================================================================
