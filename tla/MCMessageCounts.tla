--------------------------- MODULE MCMessageCounts ---------------------------
(***************************************************************************)
(* Messages that share their terms with different multiplicities, so that  *)
(* a count taken from the wrong message shows.                             *)
(***************************************************************************)
EXTENDS MessageCounts, TLC

CONSTANTS m1, m2, m3, t1, t2

\* Message may be a subset of the domain listed here.
Occurrences == (m1 :> <<2, 0>>) @@ (m2 :> <<1, 1>>) @@ (m3 :> <<0, 3>>)

MCTokenCount == [m \in Message |-> (t1 :> Occurrences[m][1]) @@
                                   (t2 :> Occurrences[m][2])]

=============================================================================
