------------------------------ MODULE Processes ------------------------------
(***************************************************************************)
(* The spamprobe processes that mail delivery, cron and the user start on  *)
(* one database: the lock file, the writes each process keeps to itself    *)
(* until it flushes, and every way in which a process can end.             *)
(*                                                                         *)
(* A record is the number of updates it has seen.  The cache is a copy of  *)
(* records with a note of the updates not yet written; TermCache.tla has   *)
(* the cache itself.                                                       *)
(***************************************************************************)
EXTENDS Integers, FiniteSets

CONSTANTS
  Proc,        \* processes
  Word,        \* words
  MaxCalls,    \* bound: store calls of a command, its input being finite
  MaxTrouble,  \* bound: signals and errors in the life of a process
  MaxCount,    \* bound: updates of a record
  Absent       \* not cached; no process

ASSUME ProcessAssumption ==
  /\ MaxCalls \in Nat
  /\ MaxTrouble \in Nat /\ MaxTrouble >= 2
  /\ MaxCount \in Nat
  /\ Absent \notin Nat
  /\ Absent \notin Proc

VARIABLES
  disk,         \* the records of the database file
  at,           \* where a process is: "idle", or a stage of SpamFilter's use
  exiting,      \* the destructor of the global filter is running
  sharedLock,   \* the command asked for a shared lock only
  holders,      \* the processes that hold the lock file
  interrupted,  \* m_isInterrupted
  cache,        \* the records a process has read or updated
  pending,      \* how often a process has updated a record since it wrote it
  child,        \* the process an exec command waits for
  left,         \* bound: store calls left to a process
  trouble       \* history: signals and errors in the life of a process

processVars == <<disk, at, exiting, sharedLock, holders, interrupted, cache,
                 pending, child, left, trouble>>

Stage == {"idle", "lock", "open", "run", "child", "call", "flush", "close",
          "release"}

Nothing == [w \in Word |-> Absent]
NoUpdates == [w \in Word |-> 0]

-----------------------------------------------------------------------------
ProcessInit ==
  /\ disk = NoUpdates
  /\ at = [p \in Proc |-> "idle"]
  /\ exiting = [p \in Proc |-> FALSE]
  /\ sharedLock = [p \in Proc |-> FALSE]
  /\ holders = {}
  /\ interrupted = [p \in Proc |-> FALSE]
  /\ cache = [p \in Proc |-> Nothing]
  /\ pending = [p \in Proc |-> NoUpdates]
  /\ child = [p \in Proc |-> Absent]
  /\ left = [p \in Proc |-> 0]
  /\ trouble = [p \in Proc |-> 0]

GoTo(p, stage) == at' = [at EXCEPT ![p] = stage]

Begin(p, stage, c, ro) ==
  /\ at' = [at EXCEPT ![p] = stage, ![c] = "lock"]
  /\ sharedLock' = [sharedLock EXCEPT ![c] = ro]
  /\ left' = [left EXCEPT ![c] = MaxCalls]
  /\ trouble' = [trouble EXCEPT ![c] = 0]

\* A process gets as far as SpamFilter::lock.
Start(p, ro) == /\ at[p] = "idle"
                /\ Begin(p, "lock", p, ro)
                /\ UNCHANGED <<disk, exiting, holders, interrupted, cache,
                               pending, child>>

\* fcntl: any number of shared locks, or one exclusive lock.
Compatible(p, q) == sharedLock[p] /\ sharedLock[q]

Acquire(p) == /\ at[p] = "lock"
              /\ \A q \in holders : Compatible(p, q)
              /\ holders' = holders \cup {p}
              /\ GoTo(p, "open")
              /\ UNCHANGED <<disk, exiting, sharedLock, interrupted, cache,
                             pending, child, left, trouble>>

OpenDatabase(p) == /\ at[p] = "open"
                   /\ GoTo(p, "run")
                   /\ UNCHANGED <<disk, exiting, sharedLock, holders, interrupted,
                                  cache, pending, child, left, trouble>>

\* exec and exec-shared run another command while they hold the lock; here it is
\* another spamprobe.
Exec(p, c, ro) == /\ at[p] = "run"
                  /\ left[p] = MaxCalls
                  /\ at[c] = "idle"
                  /\ Begin(p, "child", c, ro)
                  /\ child' = [child EXCEPT ![p] = c]
                  /\ UNCHANGED <<disk, exiting, holders, interrupted, cache,
                                 pending>>

ChildEnded(p) == /\ at[p] = "child"
                 /\ child[p] = Absent
                 /\ GoTo(p, "flush")
                 /\ UNCHANGED <<disk, exiting, sharedLock, holders, interrupted,
                                cache, pending, child, left, trouble>>

-----------------------------------------------------------------------------
(* Store calls *)

StartCall(p) == /\ at[p] = "run"
                /\ left[p] > 0
                /\ left' = [left EXCEPT ![p] = @ - 1]
                /\ GoTo(p, "call")
                /\ UNCHANGED <<disk, exiting, sharedLock, holders, interrupted,
                               cache, pending, child, trouble>>

Seen(p, w) == IF cache[p][w] = Absent THEN disk[w] ELSE cache[p][w]

\* What a call does to the cache: it reads a record, and may write it back with
\* one update more.
Read(p, w) == /\ cache' = [cache EXCEPT ![p][w] = Seen(p, w)]
              /\ pending' = pending

Update(p, w) == /\ ~sharedLock[p]
                /\ Seen(p, w) < MaxCount
                /\ cache' = [cache EXCEPT ![p][w] = Seen(p, w) + 1]
                /\ pending' = [pending EXCEPT ![p][w] = @ + 1]

\* Mutant: SpamFilter::~SpamFilter closes with abandon_writes.
AbandonWrites(p) == /\ at' = [at EXCEPT ![p] = "close"]
                    /\ exiting' = [exiting EXCEPT ![p] = TRUE]
                    /\ UNCHANGED <<sharedLock, holders, child, left>>

\* main returns or a signal handler calls exit: either way the static
\* destructors run SpamFilter::close, which flushes whatever is open.
BeginExit(p) == /\ at' = [at EXCEPT ![p] = "flush"]
                /\ exiting' = [exiting EXCEPT ![p] = TRUE]
                /\ UNCHANGED <<sharedLock, holders, child, left>>

\* Mutant: a lock outlives the process that took it.
KeepLock(p) == /\ at' = [at EXCEPT ![p] = "idle"]
               /\ exiting' = [exiting EXCEPT ![p] = FALSE]
               /\ holders' = holders
               /\ interrupted' = [interrupted EXCEPT ![p] = FALSE]
               /\ cache' = [cache EXCEPT ![p] = Nothing]
               /\ pending' = [pending EXCEPT ![p] = NoUpdates]
               /\ child' = [q \in Proc |-> IF q = p \/ child[q] = p THEN Absent
                                           ELSE child[q]]
               /\ UNCHANGED <<disk, sharedLock, left>>

\* The process is gone, its memory with it, and the system drops its locks.
Gone(p) == /\ at' = [at EXCEPT ![p] = "idle"]
           /\ exiting' = [exiting EXCEPT ![p] = FALSE]
           /\ holders' = holders \ {p}
           /\ interrupted' = [interrupted EXCEPT ![p] = FALSE]
           /\ cache' = [cache EXCEPT ![p] = Nothing]
           /\ pending' = [pending EXCEPT ![p] = NoUpdates]
           /\ child' = [q \in Proc |-> IF q = p \/ child[q] = p THEN Absent
                                       ELSE child[q]]
           /\ UNCHANGED <<disk, sharedLock, left>>

\* The end of a call: ~InterruptTest throws if a signal came meanwhile, main
\* catches, and the process exits.
EndCall(p) == /\ at[p] = "call"
              /\ \E w \in Word : Read(p, w) \/ Update(p, w)
              /\ IF interrupted[p]
                 THEN BeginExit(p)
                 ELSE GoTo(p, "run") /\ UNCHANGED <<exiting, sharedLock, holders,
                                                    child, left>>
              /\ interrupted' = [interrupted EXCEPT ![p] = FALSE]
              /\ UNCHANGED <<disk, trouble>>

-----------------------------------------------------------------------------
(* Closing *)

\* Mutant: the lock is released before the records are written.
ReleaseFirst(p) == /\ at[p] = "run"
                   /\ GoTo(p, "flush")
                   /\ holders' = holders \ {p}
                   /\ UNCHANGED <<disk, exiting, sharedLock, interrupted,
                                  cache, pending, child, left, trouble>>

\* The command is done; main closes the filter.
Finish(p) == /\ at[p] = "run"
             /\ GoTo(p, "flush")
             /\ UNCHANGED <<disk, exiting, sharedLock, holders, interrupted,
                            cache, pending, child, left, trouble>>

\* One record of a flush.  A call that finds the cache full of writes flushes too.
FlushWord(p, w) == /\ at[p] \in {"call", "flush"}
                   /\ pending[p][w] > 0
                   /\ disk' = [disk EXCEPT ![w] = cache[p][w]]
                   /\ pending' = [pending EXCEPT ![p][w] = 0]
                   /\ UNCHANGED <<at, exiting, sharedLock, holders, interrupted,
                                  cache, child, left, trouble>>

\* FrequencyDB::flush returns, or throws for a signal that came meanwhile.  Thrown
\* in main, the destructors close once more; thrown in a destructor, it ends the
\* process.
FlushEnd(p) ==
  /\ at[p] = "flush"
  /\ pending[p] = NoUpdates
  /\ \/ /\ ~interrupted[p]
        /\ GoTo(p, "close")
        /\ UNCHANGED <<disk, exiting, sharedLock, holders, interrupted, cache,
                       pending, child, left>>
     \/ /\ interrupted[p] /\ ~exiting[p]
        /\ BeginExit(p)
        /\ interrupted' = [interrupted EXCEPT ![p] = FALSE]
        /\ UNCHANGED <<disk, cache, pending>>
     \/ interrupted[p] /\ exiting[p] /\ Gone(p)
  /\ UNCHANGED trouble

\* FrequencyDB::close
CloseDatabase(p) ==
  /\ at[p] = "close"
  /\ cache' = [cache EXCEPT ![p] = Nothing]
  /\ IF interrupted[p]
     THEN BeginExit(p)
     ELSE GoTo(p, "release") /\ UNCHANGED <<exiting, sharedLock, holders, child,
                                            left>>
  /\ interrupted' = [interrupted EXCEPT ![p] = FALSE]
  /\ UNCHANGED <<disk, pending, trouble>>

\* The lock is cleared; nothing is left to do.
Release(p) == at[p] = "release" /\ Gone(p) /\ UNCHANGED trouble

-----------------------------------------------------------------------------
(* Signals and errors *)

Trouble(p) == /\ trouble[p] < MaxTrouble
              /\ trouble' = [trouble EXCEPT ![p] = @ + 1]

\* m_isBusy.  While the global filter is destroyed s_filter is null already, so
\* that no handler asks.
Busy(p) == at[p] \in {"call", "flush", "close"} /\ ~exiting[p]

\* close_and_exit while the database is busy: the call in progress may complete.
ScheduleInterrupt(p) ==
  /\ Busy(p)
  /\ ~interrupted[p]
  /\ Trouble(p)
  /\ interrupted' = [interrupted EXCEPT ![p] = TRUE]
  /\ UNCHANGED <<disk, at, exiting, sharedLock, holders, cache, pending, child,
                 left>>

\* close_and_exit with nothing to wait for, or for the second time: exit runs the
\* destructors over whatever was interrupted.  A call may have done its work or
\* not, and a cache that is caught halfway may bring the process down; so may a
\* database that is halfway closed.
SignalExits(p) ==
  /\ at[p] # "idle"
  /\ ~exiting[p]
  /\ interrupted[p] \/ ~Busy(p)
  /\ Trouble(p)
  /\ \/ /\ at[p] # "close"
        /\ BeginExit(p)
        /\ \/ UNCHANGED <<cache, pending>>
           \/ at[p] = "call" /\ \E w \in Word : Read(p, w) \/ Update(p, w)
        /\ UNCHANGED <<disk, interrupted>>
     \/ at[p] \in {"call", "close"} /\ Gone(p)

\* A signal while the destructors run: exit is entered again and goes on with
\* what is behind the filter.
SignalDuringExit(p) == exiting[p] /\ Trouble(p) /\ Gone(p)

\* An exception: in the destructors, or on top of one that ~InterruptTest throws,
\* it terminates the process.
Throws(p) ==
  /\ at[p] \in {"lock", "open", "run", "call", "flush"}
  /\ Trouble(p)
  /\ IF exiting[p] \/ interrupted[p]
     THEN Gone(p)
     ELSE BeginExit(p) /\ UNCHANGED <<disk, interrupted, cache, pending>>

\* close_and_abort closes nothing, and neither does SIGKILL.
Killed(p) == /\ at[p] # "idle"
             /\ Gone(p)
             /\ trouble' = [trouble EXCEPT ![p] = MaxTrouble]

-----------------------------------------------------------------------------
Advance(p) == \/ Acquire(p)
              \/ OpenDatabase(p)
              \/ ChildEnded(p)
              \/ StartCall(p)
              \/ EndCall(p)
              \/ Finish(p)
              \/ \E w \in Word : FlushWord(p, w)
              \/ FlushEnd(p)
              \/ CloseDatabase(p)
              \/ Release(p)

ProcessNext ==
  \/ \E p \in Proc, ro \in BOOLEAN : Start(p, ro)
  \/ \E p \in Proc, c \in Proc, ro \in BOOLEAN : Exec(p, c, ro)
  \/ \E p \in Proc : Advance(p)
  \/ \E p \in Proc : ScheduleInterrupt(p)
  \/ \E p \in Proc : SignalExits(p)
  \/ \E p \in Proc : SignalDuringExit(p)
  \/ \E p \in Proc : Throws(p)
  \/ \E p \in Proc : Killed(p)

ProcessSpec == ProcessInit /\ [][ProcessNext]_processVars

\* A process that can take a step is scheduled.
FairSpec == ProcessSpec /\ \A p \in Proc : WF_processVars(Advance(p))

-----------------------------------------------------------------------------
(* Properties *)

ProcessTypeOK ==
  /\ disk \in [Word -> 0..MaxCount]
  /\ at \in [Proc -> Stage]
  /\ exiting \in [Proc -> BOOLEAN]
  /\ sharedLock \in [Proc -> BOOLEAN]
  /\ holders \subseteq Proc
  /\ interrupted \in [Proc -> BOOLEAN]
  /\ cache \in [Proc -> [Word -> 0..MaxCount \cup {Absent}]]
  /\ pending \in [Proc -> [Word -> Nat]]
  /\ child \in [Proc -> Proc \cup {Absent}]
  /\ left \in [Proc -> 0..MaxCalls]
  /\ trouble \in [Proc -> 0..MaxTrouble]

\* What a process has cached is what the file has, and its own updates on top: no
\* other process ever changes a record under it, so that no flush writes over
\* the updates of another and no reader mixes two states of the database.
CacheFresh == \A p \in Proc, w \in Word :
                cache[p][w] # Absent => cache[p][w] = disk[w] + pending[p][w]

\* A process that meets no more than one signal or one error ends with all its
\* updates written, wherever it was.
OneTroubleLosesNothing ==
  [][\A p \in Proc : at[p] # "idle" /\ at'[p] = "idle" /\ trouble'[p] <= 1
       => pending[p] = NoUpdates]_processVars

\* The child of an exec command waits for the lock that its parent holds.
ExecDeadlock == \E p \in holders :
                  /\ at[p] = "child"
                  /\ child[p] # Absent
                  /\ at[child[p]] = "lock"
                  /\ ~Compatible(p, child[p])

\* Every process gives the lock back, but for the deadlock that the help of exec
\* warns of.
LockComesFree == \A p \in Proc : p \in holders ~> p \notin holders \/ ExecDeadlock

=============================================================================
