---------------------------- MODULE WorkspaceLock ----------------------------
(***************************************************************************)
(* One named workspace lock, `.hardkas/locks/<name>.lock'                  *)
(* (packages/core/src/lock.ts): acquireLock, the shares of a holding and   *)
(* their release, the recovery of a lock whose process is dead, clearLock. *)
(*                                                                         *)
(* A flow is one call chain (one asynchronous operation).  The flows of a  *)
(* process share its event loop: between two awaits the code is            *)
(* synchronous, so no other flow of the same process runs in the middle of *)
(* a flow's turn, while other processes do.  Pids are never reused.        *)
(* The bytes of the lock file are abstracted to what the code compares:    *)
(* nothing yet, or the record of the flow that wrote them.                 *)
(***************************************************************************)
EXTENDS Naturals, FiniteSets

CONSTANTS
    Flows,          \* the operations that take the lock
    NoFlow,         \* creator of no file
    ProcOf,         \* ProcOf[f]: the process flow f runs in
    Host,           \* Host[p]: the host process p runs on
    Operators,      \* the flows that may run clearLock
    MaxAcquires,    \* bound on the acquisitions and clears of one flow
    MaxPolls,       \* bound on the polls of one acquisition (timeoutMs / pollMs)
    MaxShares,      \* bound on the shares of one holding
    MaxCrashes      \* bound on the number of crashes

Procs == {ProcOf[f] : f \in Flows}

ASSUME LockConstants ==
    /\ NoFlow \notin Flows
    /\ Operators \subseteq Flows
    /\ MaxAcquires \in Nat
    /\ MaxPolls \in Nat
    /\ MaxShares \in Nat \ {0}
    /\ MaxCrashes \in Nat

VARIABLES
    alive,     \* the processes that have not crashed
    where,     \* where each flow is
    file,      \* the lock file
    tried,     \* staleRecoveryAttempted of the acquisition in progress
    polls,     \* polls of the acquisition in progress
    shares,    \* shares of the holding of each flow
    acquires,  \* acquisitions and clears begun so far
    crashes,   \* crashes so far
    raced      \* did an unlink remove another lock than the one judged stale?

lockVars == <<alive, where, file, tried, polls, shares, acquires, crashes, raced>>

Absent == [kind |-> "absent", by |-> NoFlow, old |-> FALSE]
Created(f) == [kind |-> "empty", by |-> f, old |-> FALSE]
Record(f) == [kind |-> "record", by |-> f, old |-> FALSE]
FileStates == [kind : {"absent", "empty", "record"},
               by : Flows \cup {NoFlow}, old : BOOLEAN]

\* The places in the middle of a turn: code follows with no await between.
MidTurn == {"create", "write", "read", "unlink", "remove", "clear"}
PCs == MidTurn \cup {"idle", "wait", "holding", "dead"}

\* The types of the lock file, of the flows and of their shares.
LockTypeOK ==
    /\ alive \subseteq Procs
    /\ where \in [Flows -> PCs]
    /\ file \in FileStates
    /\ tried \in [Flows -> BOOLEAN]
    /\ polls \in [Flows -> 0..MaxPolls]
    /\ shares \in [Flows -> 0..MaxShares]
    /\ acquires \in [Flows -> 0..MaxAcquires]
    /\ crashes \in 0..MaxCrashes
    /\ raced \in BOOLEAN

LockInit ==
    /\ alive = Procs
    /\ where = [f \in Flows |-> "idle"]
    /\ file = Absent
    /\ tried = [f \in Flows |-> FALSE]
    /\ polls = [f \in Flows |-> 0]
    /\ shares = [f \in Flows |-> 0]
    /\ acquires = [f \in Flows |-> 0]
    /\ crashes = 0
    /\ raced = FALSE

\* f may take its next step: no other flow of its process is mid-turn.
Runs(f) ==
    /\ ProcOf[f] \in alive
    /\ \A g \in Flows \ {f} : ProcOf[g] = ProcOf[f] => where[g] \notin MidTurn

MoveTo(f, place) == where' = [where EXCEPT ![f] = place]

\* isProcessAlive on the record's pid; a record of another host counts as alive.
SeenDead(f) ==
    /\ file.kind = "record"
    /\ Host[ProcOf[file.by]] = Host[ProcOf[f]]
    /\ ProcOf[file.by] \notin alive

-----------------------------------------------------------------------------
\* acquireLock is called outside any holding of the lock.
Acquire(f) ==
    /\ where[f] = "idle" /\ Runs(f)
    /\ acquires[f] < MaxAcquires
    /\ acquires' = [acquires EXCEPT ![f] = @ + 1]
    /\ tried' = [tried EXCEPT ![f] = FALSE]
    /\ polls' = [polls EXCEPT ![f] = 0]
    /\ MoveTo(f, "create")
    /\ UNCHANGED <<alive, file, shares, crashes, raced>>

\* Mutant: opened with "w", which replaces an existing file.
Create_Replacing(f) ==
    /\ where[f] = "create" /\ Runs(f)
    /\ file' = Created(f)
    /\ MoveTo(f, "write")
    /\ UNCHANGED <<alive, tried, polls, shares, acquires, crashes, raced>>

\* openSync(lockPath, "wx") creates the file ...
Create(f) ==
    /\ where[f] = "create" /\ Runs(f)
    /\ file.kind = "absent"
    /\ file' = Created(f)
    /\ MoveTo(f, "write")
    /\ UNCHANGED <<alive, tried, polls, shares, acquires, crashes, raced>>

\* Mutant: a lock that exists is waited for, whoever left it and however long.
CreateExists_Waits(f) ==
    /\ where[f] = "create" /\ Runs(f)
    /\ file.kind # "absent"
    /\ MoveTo(f, "wait")
    /\ UNCHANGED <<alive, file, tried, polls, shares, acquires, crashes, raced>>

\* ... or fails with EEXIST.
CreateExists(f) ==
    /\ where[f] = "create" /\ Runs(f)
    /\ file.kind # "absent"
    /\ MoveTo(f, "read")
    /\ UNCHANGED <<alive, file, tried, polls, shares, acquires, crashes, raced>>

\* writeSync through the descriptor: seen by others only if the inode is still
\* the one at lockPath.  The holding starts with one share.
WriteRecord(f) ==
    /\ where[f] = "write" /\ Runs(f)
    /\ file' = IF file.by = f THEN Record(f) ELSE file
    /\ shares' = [shares EXCEPT ![f] = 1]
    /\ MoveTo(f, "holding")
    /\ UNCHANGED <<alive, tried, polls, acquires, crashes, raced>>

\* The file disappeared between the EEXIST and the read: try again at once.
ReadGone(f) ==
    /\ where[f] = "read" /\ Runs(f)
    /\ file.kind = "absent"
    /\ MoveTo(f, "create")
    /\ UNCHANGED <<alive, file, tried, polls, shares, acquires, crashes, raced>>

\* No record yet and younger than LOCK_CREATION_GRACE_MS: a creation in flight.
\* This wait does not look at timeoutMs.
ReadInFlight(f) ==
    /\ where[f] = "read" /\ Runs(f)
    /\ file.kind = "empty" /\ ~file.old
    /\ MoveTo(f, "wait")
    /\ UNCHANGED <<alive, file, tried, polls, shares, acquires, crashes, raced>>

\* A corrupted file past the grace, or the record of a dead local process.
Stale(f) == (file.kind = "empty" /\ file.old) \/ SeenDead(f)

\* One recovery per acquisition, then LOCK_METADATA_INVALID / STALE_LOCK.
ReadStale(f) ==
    /\ where[f] = "read" /\ Runs(f)
    /\ Stale(f)
    /\ tried' = [tried EXCEPT ![f] = TRUE]
    /\ MoveTo(f, IF tried[f] THEN "idle" ELSE "unlink")
    /\ UNCHANGED <<alive, file, polls, shares, acquires, crashes, raced>>

\* unlinkSync(lockPath) removes whatever is there now; ENOENT is an error.
UnlinkStale(f) ==
    /\ where[f] = "unlink" /\ Runs(f)
    /\ file' = Absent
    /\ raced' = (raced \/ (file.kind # "absent" /\ ~Stale(f)))
    /\ MoveTo(f, IF file.kind = "absent" THEN "idle" ELSE "create")
    /\ UNCHANGED <<alive, tried, polls, shares, acquires, crashes>>

\* Held by a live process: poll again while the time-out allows, or fail with
\* LOCK_HELD (a caller that does not wait) or LOCK_TIMEOUT.
ReadLive(f) ==
    /\ where[f] = "read" /\ Runs(f)
    /\ file.kind = "record" /\ ~SeenDead(f)
    /\ \/ /\ polls[f] < MaxPolls
          /\ polls' = [polls EXCEPT ![f] = @ + 1]
          /\ MoveTo(f, "wait")
       \/ /\ MoveTo(f, "idle")
          /\ UNCHANGED polls
    /\ UNCHANGED <<alive, file, tried, shares, acquires, crashes, raced>>

\* The poll timer fires.
Poll(f) ==
    /\ where[f] = "wait" /\ Runs(f)
    /\ MoveTo(f, "create")
    /\ UNCHANGED <<alive, file, tried, polls, shares, acquires, crashes, raced>>

-----------------------------------------------------------------------------
\* An acquisition inside the holding joins it while the file is still the
\* holding's own; otherwise it fails with LOCK_LOST and changes nothing.
Join(f) ==
    /\ where[f] = "holding" /\ Runs(f)
    /\ shares[f] < MaxShares
    /\ file = Record(f)
    /\ shares' = [shares EXCEPT ![f] = @ + 1]
    /\ UNCHANGED <<alive, where, file, tried, polls, acquires, crashes, raced>>

\* release of one share; the last one compares the file with the holding's own.
ReleaseShare(f) ==
    /\ where[f] = "holding" /\ Runs(f)
    /\ shares' = [shares EXCEPT ![f] = @ - 1]
    /\ MoveTo(f, CASE shares[f] > 1 -> "holding"
                 [] shares[f] <= 1 /\ file = Record(f) -> "remove"
                 [] OTHER -> "idle")
    /\ UNCHANGED <<alive, file, tried, polls, acquires, crashes, raced>>

\* The last share's unlinkSync.
RemoveOwn(f) ==
    /\ where[f] = "remove" /\ Runs(f)
    /\ file' = Absent
    /\ MoveTo(f, "idle")
    /\ UNCHANGED <<alive, tried, polls, shares, acquires, crashes, raced>>

\* clearLock decides to remove the file: with ifDead only the lock of a dead
\* local process; with force any lock, which the operator is assumed to ask
\* for only when the process that created it is gone.
ClearDecide(f) ==
    /\ f \in Operators
    /\ where[f] = "idle" /\ Runs(f)
    /\ acquires[f] < MaxAcquires
    /\ file.kind # "absent"
    /\ ProcOf[file.by] \notin alive
    /\ acquires' = [acquires EXCEPT ![f] = @ + 1]
    /\ MoveTo(f, "clear")
    /\ UNCHANGED <<alive, file, tried, polls, shares, crashes, raced>>

\* clearLock's unlinkSync; it throws when the file is gone.
ClearUnlink(f) ==
    /\ where[f] = "clear" /\ Runs(f)
    /\ file' = Absent
    /\ raced' = (raced \/ (file.by # NoFlow /\ ProcOf[file.by] \in alive))
    /\ MoveTo(f, "idle")
    /\ UNCHANGED <<alive, tried, polls, shares, acquires, crashes>>

-----------------------------------------------------------------------------
\* A process dies with all its flows; its lock file stays.
ProcessDies(p) ==
    /\ p \in alive
    /\ crashes < MaxCrashes
    /\ alive' = alive \ {p}
    /\ where' = [f \in Flows |-> IF ProcOf[f] = p THEN "dead" ELSE where[f]]
    /\ crashes' = crashes + 1
    /\ UNCHANGED <<file, tried, polls, shares, acquires, raced>>

\* An empty lock outlives the creation grace.  A live creator writes its record
\* in the same turn, so only a dead one leaves it empty that long.
Age ==
    /\ file.kind = "empty" /\ ~file.old
    /\ ProcOf[file.by] \notin alive
    /\ file' = [file EXCEPT !.old = TRUE]
    /\ UNCHANGED <<alive, where, tried, polls, shares, acquires, crashes, raced>>

Attempt(f) ==
    \/ Create(f) \/ CreateExists(f) \/ WriteRecord(f)
    \/ ReadGone(f) \/ ReadInFlight(f) \/ ReadStale(f) \/ UnlinkStale(f)
    \/ ReadLive(f) \/ Poll(f)

FlowStep(f) ==
    \/ Attempt(f) \/ ReleaseShare(f) \/ RemoveOwn(f) \/ ClearUnlink(f)

LockNext ==
    \/ \E f \in Flows : FlowStep(f) \/ Acquire(f) \/ Join(f) \/ ClearDecide(f)
    \/ \E p \in Procs : ProcessDies(p)
    \/ Age

LockSpec == LockInit /\ [][LockNext]_lockVars

\* A live process keeps running its flows, a holder eventually releases, and
\* time passes.
LockFairSpec == LockSpec /\ WF_lockVars(Age) /\ \A f \in Flows : WF_lockVars(FlowStep(f))

-----------------------------------------------------------------------------
\* No two live flows own the lock at once, be they of one process or of two
\* (lock.ts: another process or an independent operation of this same process
\* is excluded).
Exclusion ==
    \A f, g \in Flows :
        /\ where[f] \in {"write", "holding"}
        /\ where[g] \in {"write", "holding"}
        => f = g

\* Exclusion fails only where a recovery or a clear unlinks a lock that was
\* taken after it judged the stale one: whatever dies, at whatever step, and
\* whatever else interleaves, one flow at a time owns the lock.
ExclusionUnlessRaced == ~raced => Exclusion

\* A live holder's file stays at the lock path, unchanged, until its last share
\* is released: no release or judgement of another flow takes it, and no nested
\* acquisition of the holder fails with LOCK_LOST, unless such an unlink hit it.
NeverLost ==
    \A f \in Flows : ~raced /\ where[f] \in {"holding", "remove"} => file = Record(f)

\* Every acquisition ends: with the lock, with an error, or with its process.
AcquireEnds ==
    \A f \in Flows : where[f] \in MidTurn \cup {"wait"}
                        ~> where[f] \in {"idle", "holding", "dead"}

=============================================================================
