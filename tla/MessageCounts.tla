---------------------------- MODULE MessageCounts ----------------------------
(***************************************************************************)
(* Message accounting: how FrequencyDB::addMessage and removeMessage, and  *)
(* the SpamFilter loops above them, turn a message into term counts, a     *)
(* digest record (__MD5__<digest>) and the message count (__COUNT__).      *)
(*                                                                         *)
(* The three kinds of record live in one key-value store in the code.      *)
(* They are three variables here because the code never confuses them.     *)
(* A step is one call on the store: InterruptTest lets a scheduled         *)
(* interrupt take effect exactly when such a call returns, so a command    *)
(* can be cut off between any two steps.                                   *)
(***************************************************************************)
EXTENDS Integers, FiniteSets, FiniteSetsExt

CONSTANTS
  Message,        \* messages, identified by their digests
  Term,           \* terms
  TokenCount,     \* TokenCount[m][t]: occurrences of t in m
  MaxClassify,    \* MAX_SINGLE_MESSAGE_CLASSIFY
  JunkCounts,     \* the limits purge commands and -P are run with
  SweepsDigests,  \* TRUE for the hash file, whose sweep spares no record
  MaxInterrupts   \* bound: interrupts in a behaviour

ASSUME CountsAssumption ==
  /\ IsFiniteSet(Message)
  /\ TokenCount \in [Message -> [Term -> Nat]]
  /\ MaxClassify \in Nat \ {0}
  /\ JunkCounts \subseteq Nat
  /\ SweepsDigests \in BOOLEAN
  /\ MaxInterrupts \in Nat

VARIABLES
  term,       \* term[t][c]: WordData of a term
  digest,     \* digest[m][c]: WordData of a message's digest record
  total,      \* total[c]: WordData of __COUNT__
  sure,       \* <<m, c>>: m's score is confident of c, as the database stands
  job,        \* the command being executed for one message, or Idle
  interrupts  \* commands cut off by an interrupt so far

vars == <<term, digest, total, sure, job, interrupts>>

Class == {"good", "spam"}
Other(c) == IF c = "spam" THEN "good" ELSE "spam"
WordData == [Class -> Nat]
Zero == [c \in Class |-> 0]

\* WordData::adjustGoodCount and adjustSpamCount: counts stop at zero.
Adjusted(w, c, delta) ==
  [w EXCEPT ![c] = IF @ + delta < 0 THEN 0 ELSE @ + delta]

\* FrequencyDB::getMessageCount, read through its two results.
KnownClass(m) == IF digest[m]["spam"] > 0 THEN "spam" ELSE "good"
TimesSeen(m) == digest[m][KnownClass(m)]
Contains(m) == TimesSeen(m) > 0

TokensOf(m) == {t \in Term : TokenCount[m][t] > 0}

-----------------------------------------------------------------------------
\* The progress of one command over one message.  The stages are, in order:
\*   ensure                      ensureGoodMessage, ensureSpamMessage
\*   subtract, uncount           removeMessage: terms and digest, __COUNT__
\*   admit                       the test at the head of addMessage
\*   add, count                  addMessage: terms and digest, __COUNT__
\*   score                       the confidence test of classifyMessage
Stage == {"ensure", "subtract", "uncount", "admit", "add", "count", "score"}

Idle == [stage |-> "idle"]

Job == [stage : Stage,
        cmd   : {"classify", "remove"},
        msg   : Message,
        class : Class,        \* the class asked for
        force : BOOLEAN,      \* force_update
        todo  : SUBSET Term,  \* tokens the current loop has still to visit
        from  : Class,        \* removeMessage's is_spam
        times : Nat,          \* removeMessage's message_count
        known : BOOLEAN,      \* addMessage's already_exists
        seen  : BOOLEAN]      \* history: known in class when the command began

NewJob(cmd, m, c) ==
  [stage |-> "ensure", cmd |-> cmd, msg |-> m, class |-> c, force |-> FALSE,
   todo |-> {}, from |-> c, times |-> 0, known |-> FALSE,
   seen |-> digest[m][c] > 0]

At(s) == job.stage = s

\* FrequencyDB::removeMessage up to its loop.
BeginRemove(j) ==
  [j EXCEPT !.stage = "subtract", !.todo = TokensOf(j.msg),
            !.from = KnownClass(j.msg), !.times = TimesSeen(j.msg)]

Init == /\ term = [t \in Term |-> Zero]
        /\ digest = [m \in Message |-> Zero]
        /\ total = Zero
        /\ sure = {}
        /\ job = Idle
        /\ interrupts = 0

\* The commands good and spam (and receive, with the class it scored itself).
StartClassify(m, c) ==
  /\ job = Idle
  /\ job' = NewJob("classify", m, c)
  /\ UNCHANGED <<term, digest, total, sure, interrupts>>

\* The command remove; it does nothing for a message it does not know.
StartRemove(m) ==
  /\ job = Idle
  /\ Contains(m)
  /\ job' = BeginRemove(NewJob("remove", m, KnownClass(m)))
  /\ UNCHANGED <<term, digest, total, sure, interrupts>>

\* Command_purge, and AutoPurger after a message.  The PBL and BDB sweeps skip
\* every record whose name starts with "__"; the hash file, which keeps only
\* hash codes, skips nothing but its header, where __COUNT__ lives.
Swept(w, junk) == IF w["good"] + w["spam"] <= junk THEN Zero ELSE w

Sweep(junk) ==
  /\ job = Idle
  /\ term' = [t \in Term |-> Swept(term[t], junk)]
  /\ digest' = IF SweepsDigests
               THEN [m \in Message |-> Swept(digest[m], junk)]
               ELSE digest
  /\ sure' = IF UNCHANGED <<term, digest>> THEN sure ELSE {}
  /\ UNCHANGED <<total, job, interrupts>>

-----------------------------------------------------------------------------
\* Mutant: the message is not removed from the other class first.
EnsureNothing ==
  /\ At("ensure")
  /\ job' = [job EXCEPT !.stage = "admit"]
  /\ UNCHANGED <<term, digest, total, sure, interrupts>>

EnsureClass ==
  /\ At("ensure")
  /\ job' = IF Contains(job.msg) /\ KnownClass(job.msg) # job.class
            THEN BeginRemove(job)
            ELSE [job EXCEPT !.stage = "admit"]
  /\ UNCHANGED <<term, digest, total, sure, interrupts>>

\* Mutant: the term's tokens are subtracted once, not message_count times.
SubtractTermOnce(t) ==
  /\ At("subtract")
  /\ t \in job.todo
  /\ term' = [term EXCEPT ![t] =
                Adjusted(@, job.from, -TokenCount[job.msg][t])]
  /\ job' = [job EXCEPT !.todo = @ \ {t}]
  /\ sure' = {}
  /\ UNCHANGED <<digest, total, interrupts>>

\* One turn of removeMessage's loop.
SubtractTerm(t) ==
  /\ At("subtract")
  /\ t \in job.todo
  /\ term' = [term EXCEPT ![t] =
                Adjusted(@, job.from, -(job.times * TokenCount[job.msg][t]))]
  /\ job' = [job EXCEPT !.todo = @ \ {t}]
  /\ sure' = {}
  /\ UNCHANGED <<digest, total, interrupts>>

SubtractDigest ==
  /\ At("subtract")
  /\ job.todo = {}
  /\ digest' = [digest EXCEPT ![job.msg] = Adjusted(@, job.from, -job.times)]
  /\ job' = [job EXCEPT !.stage = "uncount"]
  /\ sure' = {}
  /\ UNCHANGED <<term, total, interrupts>>

\* Mutant: __COUNT__ is left as it was.
SubtractNoMessage ==
  /\ At("uncount")
  /\ job' = IF job.cmd = "remove" THEN Idle ELSE [job EXCEPT !.stage = "admit"]
  /\ UNCHANGED <<term, digest, total, sure, interrupts>>

SubtractMessage ==
  /\ At("uncount")
  /\ total' = Adjusted(total, job.from, -1)
  /\ job' = IF job.cmd = "remove" THEN Idle ELSE [job EXCEPT !.stage = "admit"]
  /\ sure' = {}
  /\ UNCHANGED <<term, digest, interrupts>>

\* addMessage up to its loop: a known message is left alone unless forced.
Admit ==
  /\ At("admit")
  /\ LET known == Contains(job.msg)
     IN job' = IF known /\ ~job.force
               THEN [job EXCEPT !.stage = "score"]
               ELSE [job EXCEPT !.stage = "add", !.known = known,
                                !.todo = TokensOf(job.msg)]
  /\ UNCHANGED <<term, digest, total, sure, interrupts>>

\* One turn of addMessage's loop.
AddTerm(t) ==
  /\ At("add")
  /\ t \in job.todo
  /\ term' = [term EXCEPT ![t] =
                Adjusted(@, job.class, TokenCount[job.msg][t])]
  /\ job' = [job EXCEPT !.todo = @ \ {t}]
  /\ sure' = {}
  /\ UNCHANGED <<digest, total, interrupts>>

\* Mutant: __COUNT__ goes up for a known message too.
AddDigestAlwaysCounts ==
  /\ At("add")
  /\ job.todo = {}
  /\ digest' = [digest EXCEPT ![job.msg] = Adjusted(@, job.class, 1)]
  /\ job' = [job EXCEPT !.stage = "count"]
  /\ sure' = {}
  /\ UNCHANGED <<term, total, interrupts>>

AddDigest ==
  /\ At("add")
  /\ job.todo = {}
  /\ digest' = [digest EXCEPT ![job.msg] = Adjusted(@, job.class, 1)]
  /\ job' = [job EXCEPT !.stage = IF job.known THEN "score" ELSE "count"]
  /\ sure' = {}
  /\ UNCHANGED <<term, total, interrupts>>

AddMessage ==
  /\ At("count")
  /\ total' = Adjusted(total, job.class, 1)
  /\ job' = [job EXCEPT !.stage = "score"]
  /\ sure' = {}
  /\ UNCHANGED <<term, digest, interrupts>>

\* classifyMessage's loop test.  The score is a matter of floating point; all
\* that is kept of it is that it may or may not be confident, and does not
\* change while the database does not.
Confident ==
  /\ At("score")
  /\ job' = Idle
  /\ sure' = sure \cup {<<job.msg, job.class>>}
  /\ UNCHANGED <<term, digest, total, interrupts>>

GiveUp ==
  /\ At("score")
  /\ <<job.msg, job.class>> \notin sure
  /\ TimesSeen(job.msg) >= MaxClassify
  /\ job' = Idle
  /\ UNCHANGED <<term, digest, total, sure, interrupts>>

\* Mutant: one attempt too many.
OneAttemptMore ==
  /\ At("score")
  /\ <<job.msg, job.class>> \notin sure
  /\ TimesSeen(job.msg) <= MaxClassify
  /\ job' = [job EXCEPT !.stage = "ensure", !.force = TRUE]
  /\ UNCHANGED <<term, digest, total, sure, interrupts>>

\* Mutant: force_update is not passed to the next attempt.
UnforcedAttempt ==
  /\ At("score")
  /\ <<job.msg, job.class>> \notin sure
  /\ TimesSeen(job.msg) < MaxClassify
  /\ job' = [job EXCEPT !.stage = "ensure"]
  /\ UNCHANGED <<term, digest, total, sure, interrupts>>

AnotherAttempt ==
  /\ At("score")
  /\ <<job.msg, job.class>> \notin sure
  /\ TimesSeen(job.msg) < MaxClassify
  /\ job' = [job EXCEPT !.stage = "ensure", !.force = TRUE]
  /\ UNCHANGED <<term, digest, total, sure, interrupts>>

\* A scheduled interrupt becomes an InterruptedException when the store call
\* returns; main returns, ~SpamFilter flushes what was written so far, and the
\* next command starts on that.
Interrupt ==
  /\ job # Idle
  /\ interrupts < MaxInterrupts
  /\ interrupts' = interrupts + 1
  /\ job' = Idle
  /\ UNCHANGED <<term, digest, total, sure>>

Step == \/ EnsureClass
        \/ \E t \in Term : SubtractTerm(t)
        \/ SubtractDigest
        \/ SubtractMessage
        \/ Admit
        \/ \E t \in Term : AddTerm(t)
        \/ AddDigest
        \/ AddMessage
        \/ Confident
        \/ GiveUp
        \/ AnotherAttempt

Next == \/ \E m \in Message, c \in Class : StartClassify(m, c)
        \/ \E m \in Message : StartRemove(m)
        \/ \E junk \in JunkCounts : Sweep(junk)
        \/ Step
        \/ Interrupt

Spec == Init /\ [][Next]_vars

\* A command runs on: there is one thread, and every store call returns.
FairSpec == Spec /\ WF_vars(Step)

-----------------------------------------------------------------------------
(* Properties *)

TypeOK == /\ term \in [Term -> WordData]
          /\ digest \in [Message -> WordData]
          /\ total \in WordData
          /\ sure \subseteq Message \X Class
          /\ job \in Job \cup {Idle}
          /\ interrupts \in 0..MaxInterrupts

\* A digest record never counts a message as good and as spam at once, however
\* commands are cut off and resumed by later ones.  getMessageCount only asserts
\* it, and the build compiles assertions out.
OneClass == \A m \in Message : \E c \in Class : digest[m][c] = 0

\* classifyMessage counts one message at most MaxClassify times over, whatever
\* sequence of commands and reclassifications the message goes through.
DigestBounded == \A m \in Message, c \in Class : digest[m][c] <= MaxClassify

\* What the running command has read of its message's digest is still true when
\* it acts on it: the count it subtracts, the class it found, whether the message
\* was known, and that one more attempt stays within MaxClassify.
JobAgrees ==
  job # Idle =>
    LET d == digest[job.msg]
    IN /\ At("subtract") => job.times = d[job.from] /\ job.times > 0
       /\ At("uncount") => \A c \in Class : d[c] = 0
       /\ job.stage \in {"admit", "add", "count", "score"}
            => d[Other(job.class)] = 0
       /\ job.stage \in {"ensure", "admit"} /\ job.force
            => d[job.class] < MaxClassify
       /\ At("add") => /\ job.known = (d[job.class] > 0)
                       /\ d[job.class] < MaxClassify

\* What the running command has written to a digest and not yet to __COUNT__.
PendingTotal(c) == CASE At("uncount") /\ job.from = c -> 1
                     [] At("count") /\ job.class = c  -> -1
                     [] OTHER -> 0

Recorded(c) == {m \in Message : digest[m][c] > 0}

TotalDrift(c) == total[c] - (Cardinality(Recorded(c)) + PendingTotal(c))

\* __COUNT__ is the number of digest records of each class, up to one message
\* for each interrupt: without interrupts it is exact, and a later command on
\* the damaged database never widens the gap by itself.
TotalDriftBounded ==
  \A c \in Class : TotalDrift(c) \in -interrupts..interrupts

\* The counts a term owes to the digests, and the part of the running command's
\* changes that its digest does not show yet.
Taught(t, c) ==
  MapThenSumSet(LAMBDA m : digest[m][c] * TokenCount[m][t], Message)

PendingTerm(t, c) ==
  CASE At("add") /\ job.class = c /\ t \notin job.todo ->
         TokenCount[job.msg][t]
    [] At("subtract") /\ job.from = c /\ t \notin job.todo ->
         -(job.times * TokenCount[job.msg][t])
    [] OTHER -> 0

TermDrift(t, c) == term[t][c] - (Taught(t, c) + PendingTerm(t, c))

MaxTokens(t) == Max({0} \cup {TokenCount[m][t] : m \in Message})

\* A term's counts are exactly what its messages contributed, up to what each
\* interrupt can leave half done: one message's tokens too many (a cut add) or
\* MaxClassify times as many too few (a cut remove, repeated later).
TermDriftBounded ==
  \A t \in Term, c \in Class :
     /\ TermDrift(t, c) <= interrupts * MaxTokens(t)
     /\ TermDrift(t, c) >= -(interrupts * MaxClassify * MaxTokens(t))

\* Sweeping terms whose messages are still recorded only ever loses counts: a
\* later removal of such a message must not leave a term with more than the
\* messages still recorded gave it, and never a negative count.
NeverOverCounted ==
  \A t \in Term, c \in Class : TermDrift(t, c) <= 0

\* A command that is not cut off leaves its message in the class it was asked
\* for and in no other, and remove leaves it in none.
CommandAchieved ==
  [][job # Idle /\ job' = Idle /\ interrupts' = interrupts =>
       LET d == digest'[job.msg]
       IN /\ d[Other(job.class)] = 0
          /\ (d[job.class] > 0) = (job.cmd = "classify")]_vars

\* Every command ends: classifyMessage's loop stops although the score may
\* never become confident.
CommandsEnd == (job # Idle) ~> (job = Idle)

\* The database as a ledger of known messages; a message changes sides in the
\* ledger when its digest record does.
KnownAs(m) == CASE digest[m]["spam"] > 0 -> "spam"
                [] digest[m]["good"] > 0 -> "good"
                [] OTHER -> "unknown"

Ledger == INSTANCE MessageLedger WITH
            Unknown <- "unknown",
            known   <- [m \in Message |-> KnownAs(m)],
            count   <- [c \in Class |-> total[c] - PendingTotal(c)]

\* Without interrupts, and where no sweep drops digests, the accounting
\* implements the ledger: no message is ever counted twice or in two classes.
ImplementsLedger == Ledger!Spec

=============================================================================
