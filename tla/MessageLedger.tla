---------------------------- MODULE MessageLedger ----------------------------
(***************************************************************************)
(* What SpamProbe promises about the messages it has been taught: every    *)
(* message is known in at most one class, at most once, and the message    *)
(* counts that scale every term's probability are the numbers of known     *)
(* messages.  Moving a message from one class to the other is a Forget     *)
(* followed by a Learn.                                                    *)
(*                                                                         *)
(* MessageCounts.tla is shown to implement this specification.             *)
(***************************************************************************)
EXTENDS Integers

CONSTANTS
  Message,  \* messages
  Class,    \* the classes a message can be taught in
  Unknown   \* no class

VARIABLES
  known,  \* known[m]: the class m was taught in, or Unknown
  count   \* count[c]: the number of messages the database reports for c

ledgerVars == <<known, count>>

Known(c) == {m \in Message : known[m] = c}

Init == /\ known = [m \in Message |-> Unknown]
        /\ count = [c \in Class |-> 0]

Learn(m, c) == /\ known[m] = Unknown
               /\ known' = [known EXCEPT ![m] = c]
               /\ count' = [count EXCEPT ![c] = @ + 1]

Forget(m) == /\ known[m] # Unknown
             /\ known' = [known EXCEPT ![m] = Unknown]
             /\ count' = [count EXCEPT ![known[m]] = @ - 1]

Next == \E m \in Message : Forget(m) \/ \E c \in Class : Learn(m, c)

Spec == Init /\ [][Next]_ledgerVars

=============================================================================
