----------------------------- MODULE MCTermLists -----------------------------
(***************************************************************************)
(* Names 1..4 are codes, as a hash file gives them, 12 and 13 are words    *)
(* with the codes 2 and 3.                                                 *)
(***************************************************************************)
EXTENDS TermLists

MCName == {0, 1, 2, 3, 4, 12, 13}
MCKeyOf == [m \in MCName |-> IF m > 10 THEN m - 10 ELSE m]

Row(m, n, day) == [name |-> m, n |-> n, day |-> day]

\* An export of another hash file; words with a repetition, the last ones from a
\* version that wrote no dates; records that fill the file and are one too many.
MCFiles == {<<Row(0, 1, 0), Row(2, 2, 0), Row(1, 1, 1)>>,
            <<Row(13, 1, 0), Row(13, 1, None), Row(12, 1, None)>>,
            <<Row(4, 1, 0), Row(3, 1, 1), Row(1, 1, 0)>>}
MCPatterns == {{2}, {0, 1, 3}, {0, 1, 2, 3, 4}}

=============================================================================
