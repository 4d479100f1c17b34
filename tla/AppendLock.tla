----------------------------- MODULE AppendLock -----------------------------
(***************************************************************************)
(* The lock protocol of AppendCoordinator                                  *)
(* (packages/core/src/append-coordinator.ts): one append lock file per     *)
(* JSONL log, taken with open("wx"), stamped with its holder's record, and *)
(* recovered under a second, "recovery" lock file when its holder is gone. *)
(*                                                                         *)
(* A process is one operating-system process (one pid, never reused): a    *)
(* restart is another element of Procs.  A file is its bytes, abstracted   *)
(* to what the code compares: empty, a record naming a process, or a       *)
(* record of an earlier release that names no host.  `by' is the creator   *)
(* of the inode, so that a write through a descriptor of an unlinked file  *)
(* changes nothing anybody else can see.                                   *)
(***************************************************************************)
EXTENDS Naturals, FiniteSets

CONSTANTS
    Procs,          \* the processes that append
    NoProc,         \* the unknown creator of a file found at start
    Host,           \* Host[p]: the host p runs on
    MaxWaits,       \* bound on the polls of one append before its time-out
    MaxCrashes,     \* bound on the number of crashes
    CreationCrash,  \* may a holder die between creating and stamping the lock?
    CanStall        \* may a live creator stay unstamped past the creation grace?

ASSUME ConstantsAssumption ==
    /\ NoProc \notin Procs
    /\ MaxWaits \in Nat
    /\ MaxCrashes \in Nat
    /\ CreationCrash \in BOOLEAN
    /\ CanStall \in BOOLEAN

VARIABLES
    alive,    \* the processes that have not crashed
    pc,       \* where each process is in appendAtomic
    file,     \* the two lock files, "append" and "recover"
    seen,     \* the bytes each process judged abandoned (verdict.bytes)
    removed,  \* did this process's recovery remove the append lock?
    waited,   \* polls of the current append so far
    crashes   \* crashes so far

vars == <<alive, pc, file, seen, removed, waited, crashes>>

Files == {"append", "recover"}
Absent == [kind |-> "absent", by |-> NoProc, old |-> FALSE]
Legacy == [kind |-> "legacy", by |-> NoProc, old |-> FALSE]
Created(p) == [kind |-> "empty", by |-> p, old |-> FALSE]
Record(p) == [kind |-> "record", by |-> p, old |-> FALSE]
FileStates == [kind : {"absent", "empty", "record", "legacy"},
               by : Procs \cup {NoProc}, old : BOOLEAN]

PCs == {"idle", "acquire", "judge", "wait", "recover", "judgeRecovery",
        "stampRecovery", "reread", "unlink", "releaseRecovery",
        "stamp", "holding", "dead"}

\* A process between creating the append lock and releasing it.
Owning(p) == pc[p] \in {"stamp", "holding"}

\* The types of what appendAtomic keeps: the places in the handler, the two lock
\* files and the bytes a process judged.
TypeOK ==
    /\ alive \subseteq Procs
    /\ pc \in [Procs -> PCs]
    /\ file \in [Files -> FileStates]
    /\ seen \in [Procs -> FileStates]
    /\ removed \in [Procs -> BOOLEAN]
    /\ waited \in [Procs -> 0..MaxWaits]
    /\ crashes \in 0..MaxCrashes

Init ==
    /\ alive = Procs
    /\ pc = [p \in Procs |-> "idle"]
    /\ \E left \in {Absent, Legacy} :
         file = [f \in Files |-> IF f = "append" THEN left ELSE Absent]
    /\ seen = [p \in Procs |-> Absent]
    /\ removed = [p \in Procs |-> FALSE]
    /\ waited = [p \in Procs |-> 0]
    /\ crashes = 0

-----------------------------------------------------------------------------
(* judgeAppendLock: what process p makes of a lock file.  Only a file that *)
(* names no process, or none on a known host, is judged by its age.        *)
Verdict(p, f) ==
    CASE file[f].kind = "absent" -> "gone"
      [] file[f].kind \in {"empty", "legacy"} ->
            IF file[f].old THEN "abandoned" ELSE "live"
      [] file[f].kind = "record" ->
            IF Host[file[f].by] # Host[p] THEN "unverifiable"
            ELSE IF file[f].by \in alive THEN "live" ELSE "abandoned"

\* Buffer.equals: a record differs from every other process's record.
SameBytes(a, b) ==
    /\ a.kind = b.kind
    /\ a.kind = "record" => a.by = b.by

Goto(p, to) == pc' = [pc EXCEPT ![p] = to]
Create(p, f) == file' = [file EXCEPT ![f] = Created(p)]
Unlink(f) == file' = [file EXCEPT ![f] = Absent]
UnlinkIf(f, mine) == file' = IF mine THEN [file EXCEPT ![f] = Absent] ELSE file

\* A write through p's descriptor reaches the file only if it is p's inode.
WriteRecord(p, f) ==
    file' = IF file[f].by = p THEN [file EXCEPT ![f] = Record(p)] ELSE file

-----------------------------------------------------------------------------
(* appendAtomic *)
Start(p) ==
    /\ p \in alive /\ pc[p] = "idle"
    /\ Goto(p, "acquire")
    /\ waited' = [waited EXCEPT ![p] = 0]
    /\ UNCHANGED <<alive, file, seen, removed, crashes>>

\* openSync(lockPath, "wx") succeeds.
AcquireCreate(p) ==
    /\ p \in alive /\ pc[p] = "acquire"
    /\ file["append"].kind = "absent"
    /\ Create(p, "append")
    /\ Goto(p, "stamp")
    /\ UNCHANGED <<alive, seen, removed, waited, crashes>>

\* openSync(lockPath, "wx") fails with EEXIST.
AcquireExists(p) ==
    /\ p \in alive /\ pc[p] = "acquire"
    /\ file["append"].kind # "absent"
    /\ Goto(p, "judge")
    /\ UNCHANGED <<alive, file, seen, removed, waited, crashes>>

JudgeLock(p) ==
    /\ p \in alive /\ pc[p] = "judge"
    /\ IF Verdict(p, "append") = "abandoned"
         THEN /\ seen' = [seen EXCEPT ![p] = file["append"]]
              /\ Goto(p, "recover")
         ELSE /\ Goto(p, "wait")
              /\ UNCHANGED seen
    /\ UNCHANGED <<alive, file, removed, waited, crashes>>

\* Mutant: the wait never comes to its end.
Wait_Forever(p) ==
    /\ p \in alive /\ pc[p] = "wait"
    /\ Goto(p, "acquire")
    /\ UNCHANGED <<alive, file, seen, removed, waited, crashes>>

\* sleepMs, then the next turn of the acquisition loop.
Wait(p) ==
    /\ p \in alive /\ pc[p] = "wait"
    /\ waited[p] < MaxWaits
    /\ waited' = [waited EXCEPT ![p] = @ + 1]
    /\ Goto(p, "acquire")
    /\ UNCHANGED <<alive, file, seen, removed, crashes>>

\* APPEND_LOCK_TIMEOUT: the append fails without having touched the lock.
TimeOut(p) ==
    /\ p \in alive /\ pc[p] = "wait"
    /\ Goto(p, "idle")
    /\ waited' = [waited EXCEPT ![p] = 0]
    /\ UNCHANGED <<alive, file, seen, removed, crashes>>

\* The record is written into the lock just created.
Stamp(p) ==
    /\ p \in alive /\ pc[p] = "stamp"
    /\ WriteRecord(p, "append")
    /\ Goto(p, "holding")
    /\ UNCHANGED <<alive, seen, removed, waited, crashes>>

\* The finally block: whatever is at lockPath is unlinked, also when the
\* stamp or the append itself threw.
Release(p) ==
    /\ p \in alive /\ Owning(p)
    /\ Unlink("append")
    /\ Goto(p, "idle")
    /\ waited' = [waited EXCEPT ![p] = 0]
    /\ UNCHANGED <<alive, seen, removed, crashes>>

-----------------------------------------------------------------------------
(* recoverAbandonedLock *)
RecoveryCreate(p) ==
    /\ p \in alive /\ pc[p] = "recover"
    /\ file["recover"].kind = "absent"
    /\ Create(p, "recover")
    /\ Goto(p, "stampRecovery")
    /\ UNCHANGED <<alive, seen, removed, waited, crashes>>

\* Mutant: a recovery lock of another process is no obstacle.
RecoveryExists_Ignored(p) ==
    /\ p \in alive /\ pc[p] = "recover"
    /\ file["recover"].kind # "absent"
    /\ Goto(p, "reread")
    /\ UNCHANGED <<alive, file, seen, removed, waited, crashes>>

RecoveryExists(p) ==
    /\ p \in alive /\ pc[p] = "recover"
    /\ file["recover"].kind # "absent"
    /\ Goto(p, "judgeRecovery")
    /\ UNCHANGED <<alive, file, seen, removed, waited, crashes>>

\* "blocked" ends the append with APPEND_LOCK_RECOVERY_BLOCKED; "retry" and
\* "waiting" go back to the acquisition loop.
JudgeRecovery(p) ==
    /\ p \in alive /\ pc[p] = "judgeRecovery"
    /\ Goto(p, IF Verdict(p, "recover") = "abandoned" THEN "idle" ELSE "wait")
    /\ seen' = [seen EXCEPT ![p] = Absent]
    /\ UNCHANGED <<alive, file, removed, waited, crashes>>

StampRecovery(p) ==
    /\ p \in alive /\ pc[p] = "stampRecovery"
    /\ WriteRecord(p, "recover")
    /\ Goto(p, "reread")
    /\ removed' = [removed EXCEPT ![p] = FALSE]
    /\ UNCHANGED <<alive, seen, waited, crashes>>

\* The record could not be written: the still empty recovery lock is removed
\* and the error ends the append.
StampRecoveryFails(p) ==
    /\ p \in alive /\ pc[p] = "stampRecovery"
    /\ UnlinkIf("recover", file["recover"].kind = "empty")
    /\ Goto(p, "idle")
    /\ UNCHANGED <<alive, seen, removed, waited, crashes>>

\* The append lock is read again: only the bytes judged abandoned go on.
Reread(p) ==
    /\ p \in alive /\ pc[p] = "reread"
    /\ Goto(p, IF SameBytes(file["append"], seen[p]) THEN "unlink" ELSE "releaseRecovery")
    /\ UNCHANGED <<alive, file, seen, removed, waited, crashes>>

UnlinkAbandoned(p) ==
    /\ p \in alive /\ pc[p] = "unlink"
    /\ removed' = [removed EXCEPT ![p] = file["append"].kind # "absent"]
    /\ Unlink("append")
    /\ Goto(p, "releaseRecovery")
    /\ UNCHANGED <<alive, seen, waited, crashes>>

\* removeIfUnchanged(recoveryPath, mine); "recovered" goes straight to the
\* next wx, "retry" waits.
ReleaseRecovery(p) ==
    /\ p \in alive /\ pc[p] = "releaseRecovery"
    /\ UnlinkIf("recover", file["recover"].kind = "record" /\ file["recover"].by = p)
    /\ Goto(p, IF removed[p] THEN "acquire" ELSE "wait")
    /\ seen' = [seen EXCEPT ![p] = Absent]
    /\ removed' = [removed EXCEPT ![p] = FALSE]
    /\ UNCHANGED <<alive, waited, crashes>>

-----------------------------------------------------------------------------
(* The environment *)
\* A process dies with what it remembers; what it left in the file system stays.
Crash(p) ==
    /\ p \in alive /\ crashes < MaxCrashes
    /\ pc[p] = "stamp" => CreationCrash
    /\ alive' = alive \ {p}
    /\ Goto(p, "dead")
    /\ crashes' = crashes + 1
    /\ seen' = [seen EXCEPT ![p] = Absent]
    /\ removed' = [removed EXCEPT ![p] = FALSE]
    /\ waited' = [waited EXCEPT ![p] = 0]
    /\ UNCHANGED file

\* The age limit that applies to a file without a usable record passes
\* (APPEND_LOCK_CREATION_GRACE_MS, LEGACY_APPEND_LOCK_MIN_AGE_MS).
Age(f) ==
    /\ file[f].kind \in {"empty", "legacy"} /\ ~file[f].old
    /\ file[f].by \in alive => CanStall
    /\ file' = [file EXCEPT ![f].old = TRUE]
    /\ UNCHANGED <<alive, pc, seen, removed, waited, crashes>>

\* `hardkas lock clear <name>' as the error messages prescribe it: with no
\* command running, --if-dead on a record of a dead process of this host,
\* --force on a file that names none (clearLock).
AdminClear(f) ==
    /\ \A p \in alive : pc[p] = "idle"
    /\ file[f].kind \in {"empty", "record"}
    /\ file[f].by \notin alive
    /\ Unlink(f)
    /\ UNCHANGED <<alive, pc, seen, removed, waited, crashes>>

-----------------------------------------------------------------------------
Step(p) ==
    \/ AcquireCreate(p) \/ AcquireExists(p) \/ JudgeLock(p)
    \/ Wait(p) \/ TimeOut(p) \/ Stamp(p) \/ Release(p)
    \/ RecoveryCreate(p) \/ RecoveryExists(p) \/ JudgeRecovery(p)
    \/ StampRecovery(p) \/ StampRecoveryFails(p)
    \/ Reread(p) \/ UnlinkAbandoned(p) \/ ReleaseRecovery(p)

Next ==
    \/ \E p \in Procs : Start(p) \/ Step(p) \/ Crash(p)
    \/ \E f \in Files : Age(f) \/ AdminClear(f)

Spec == Init /\ [][Next]_vars

-----------------------------------------------------------------------------
(* Properties *)

\* Two live processes are never both inside the critical section of
\* appendAtomic (repair the tail, append, fsync) of one log.
MutualExclusion ==
    \A p, q \in alive : pc[p] = "holding" /\ pc[q] = "holding" => p = q

\* When a recoverer is about to unlink the append lock, that lock is not a
\* live process's: "no new holder can appear between its check and its
\* unlink" (recoverAbandonedLock).
UnlinkIsSafe ==
    \A p \in alive : pc[p] = "unlink" => file["append"].by \notin alive

\* No lock file outlives the call that created it while its process lives:
\* every path out of appendAtomic and recoverAbandonedLock removes it.
NoLeak ==
    /\ file["append"].by \in alive => Owning(file["append"].by)
    /\ file["recover"].by \in alive =>
          pc[file["recover"].by] \in {"stampRecovery", "reread", "unlink", "releaseRecovery"}

\* "A lock whose holder may be alive is never taken over": the append lock of
\* a live process, on whatever host, disappears only in that process's release.
NeverTakenOver ==
    [][\A p \in alive :
         file["append"].by = p /\ file'["append"].by # p
         => Owning(p) /\ pc'[p] = "idle"]_vars

\* An append comes to an end (done, timed out or blocked), whatever crashes
\* and whatever lock files were left behind.
AppendTerminates ==
    \A p \in Procs : pc[p] = "acquire" ~> pc[p] \in {"idle", "dead"}

=============================================================================
