--------------------------- MODULE ManagedProcess ---------------------------
(***************************************************************************)
(* A native process HardKAS starts, watches and stops                      *)
(* (packages/node-orchestrator/src/managed-process.ts): HardKAS commands   *)
(* that share a state directory (an mkdir lock and a process record), and  *)
(* the operating system's table of processes, whose PIDs are reused.       *)
(*                                                                         *)
(* An instance of a process is its creation instant, which is what an      *)
(* identity compares; a reading of an identity may fail.  Every step below *)
(* is one system call or one check between two awaits.                     *)
(***************************************************************************)
EXTENDS Naturals, FiniteSets

CONSTANTS
    Commands,       \* HardKAS command processes
    NoCommand,
    Pids,           \* PIDs the operating system reuses
    Platforms,      \* the platforms looked at: on Windows (TRUE) the forced
                    \* kill goes through a process handle
    MaxOps,         \* bound on operations started
    MaxBorn,        \* bound on processes created
    MaxCrashes,     \* bound on commands that die
    MaxUnreadable   \* bound on identity readings that fail

ASSUME ProcessAssumption ==
    /\ NoCommand \notin Commands /\ Pids # {}
    /\ Platforms \subseteq BOOLEAN
    /\ {MaxOps, MaxBorn, MaxCrashes, MaxUnreadable} \subseteq Nat

VARIABLES
    table,      \* the instance each PID names, or Nobody
    born,       \* instances created so far
    ours,       \* instances started by HardKAS
    serving,    \* the instance that listens on the port, or Nobody
    record,     \* process.json: the recorded PID and instance, or NoRecord
    lock,       \* the lock directory: its owner, or Free
    pc,         \* where each command is
    op,         \* "start" or "stop"
    rec,        \* the record a command works on
    result,     \* what the last operation of a command reported
    signalled,  \* instances that were sent a signal
    orphans,    \* instances whose starter died or failed before it recorded them
    dead,       \* commands that died
    ops, unreadable,
    raced,      \* was another lock broken than the one judged left over?
    misread,    \* instances whose record goes because a reading failed
    windows     \* the platform

vars == <<table, born, ours, serving, record, lock, pc, op, rec, result,
          signalled, orphans, dead, ops, unreadable, raced, misread, windows>>
osVars == <<table, born, ours, serving, signalled>>
bounds == <<orphans, dead, ops, unreadable>>

Nobody == 0
Instances == 1..MaxBorn
NoRecord == [pid |-> CHOOSE p \in Pids : TRUE, at |-> Nobody]
Free == [there |-> FALSE, by |-> NoCommand, old |-> FALSE]
\* A lock whose maker died before it wrote its name, long ago.
LeftBehind == [there |-> TRUE, by |-> NoCommand, old |-> TRUE]

Init ==
    /\ table = [p \in Pids |-> Nobody]
    /\ born = 0 /\ ours = {} /\ serving = Nobody
    /\ record = NoRecord /\ lock \in {Free, LeftBehind}
    /\ pc = [c \in Commands |-> "idle"]
    /\ op = [c \in Commands |-> "start"]
    /\ rec = [c \in Commands |-> NoRecord]
    /\ result = [c \in Commands |-> "none"]
    /\ signalled = {} /\ orphans = {} /\ dead = {}
    /\ ops = 0 /\ unreadable = 0
    /\ raced = FALSE /\ misread = {} /\ windows \in Platforms

Alive(i) == i # Nobody /\ \E p \in Pids : table[p] = i
isAlive(r) == table[r.pid] # Nobody

At(c, l) == c \notin dead /\ pc[c] = l
Goto(c, l) == pc' = [pc EXCEPT ![c] = l]

-----------------------------------------------------------------------------
(* withLock *)

Begin(c, o) ==
    /\ At(c, "idle") /\ ops < MaxOps
    /\ ops' = ops + 1
    /\ op' = [op EXCEPT ![c] = o]
    /\ result' = [result EXCEPT ![c] = "none"]
    /\ Goto(c, "mkdir")
    /\ UNCHANGED <<osVars, record, lock, rec, orphans, dead, unreadable>>

\* mkdir(lock) succeeds.
Mkdir(c) ==
    /\ At(c, "mkdir") /\ ~lock.there
    /\ lock' = [there |-> TRUE, by |-> NoCommand, old |-> FALSE]
    /\ Goto(c, "owner")
    /\ UNCHANGED <<osVars, record, op, rec, result, bounds>>

\* owner.json is written; a lock removed meanwhile makes the command fail.
WriteOwner(c) ==
    /\ At(c, "owner")
    /\ IF lock.there
       THEN lock' = [lock EXCEPT !.by = c] /\ Goto(c, "status")
       ELSE Goto(c, "idle") /\ UNCHANGED lock
    /\ UNCHANGED <<osVars, record, op, rec, result, bounds>>

\* The owner is gone, or never wrote its name for 30 s.
LeftOver(l) ==
    l.there /\ IF l.by = NoCommand THEN l.old ELSE l.by \in dead

\* EEXIST and a left-over lock: decide to break it.
JudgeLeftOver(c) ==
    /\ At(c, "mkdir") /\ LeftOver(lock)
    /\ Goto(c, "break")
    /\ UNCHANGED <<osVars, record, lock, op, rec, result, bounds>>

\* rm -r of whatever lock is there now.
BreakLock(c) ==
    /\ At(c, "break")
    /\ lock' = Free
    /\ Goto(c, "mkdir")
    /\ UNCHANGED <<osVars, record, op, rec, result, bounds>>

\* Another live command holds it until the deadline: PROCESS_LOCKED.
GiveUp(c) ==
    /\ At(c, "mkdir") /\ lock.there /\ ~LeftOver(lock)
    /\ Goto(c, "idle")
    /\ UNCHANGED <<osVars, record, lock, op, rec, result, bounds>>

\* The finally of withLock.
Unlock(c) ==
    /\ At(c, "unlock")
    /\ lock' = Free
    /\ Goto(c, "idle")
    /\ UNCHANGED <<osVars, record, op, rec, result, bounds>>

-----------------------------------------------------------------------------
(* statusOf *)

\* What a reading of the identity of a recorded PID says.
Identity(r, says) ==
    \/ says = "unreadable" /\ unreadable < MaxUnreadable /\ unreadable' = unreadable + 1
    \/ says = "unreadable" /\ ~isAlive(r) /\ UNCHANGED unreadable
    \/ says = "same" /\ table[r.pid] = r.at /\ UNCHANGED unreadable
    \/ says = "other" /\ isAlive(r) /\ table[r.pid] # r.at /\ UNCHANGED unreadable

\* The record is read and its PID probed.
ReadRecord(c) ==
    /\ At(c, "status")
    /\ rec' = [rec EXCEPT ![c] = record]
    /\ Goto(c, IF record = NoRecord
               THEN IF op[c] = "start" THEN "port" ELSE "unlock"
               ELSE IF isAlive(record) THEN "identify" ELSE "drop")
    /\ UNCHANGED <<osVars, record, lock, op, result, bounds>>

\* The identity decides: running, foreign or unverifiable.
Identify(c) ==
    /\ At(c, "identify")
    /\ \E says \in {"same", "other", "unreadable"} :
         /\ Identity(rec[c], says)
         /\ Goto(c, CASE says = "other" -> "drop"
                      [] says = "unreadable" -> "unlock"
                      [] says = "same" -> IF op[c] = "start" THEN "unlock" ELSE "terminate")
    /\ UNCHANGED <<osVars, record, lock, op, rec, result, orphans, dead, ops>>

\* removeRecord of a stale or foreign record; nothing is killed.
DropRecord(c) ==
    /\ At(c, "drop")
    /\ record' = NoRecord
    /\ Goto(c, IF op[c] = "start" THEN "port" ELSE "unlock")
    /\ UNCHANGED <<osVars, lock, op, rec, result, bounds>>

-----------------------------------------------------------------------------
(* startManagedProcess *)

\* The port must be free.
CheckPort(c) ==
    /\ At(c, "port")
    /\ Goto(c, IF serving = Nobody THEN "spawn" ELSE "unlock")
    /\ UNCHANGED <<osVars, record, lock, op, rec, result, bounds>>

Spawn(c, p) ==
    /\ At(c, "spawn") /\ table[p] = Nobody /\ born < MaxBorn
    /\ born' = born + 1
    /\ table' = [table EXCEPT ![p] = born']
    /\ ours' = ours \cup {born'}
    /\ rec' = [rec EXCEPT ![c] = [pid |-> p, at |-> born']]
    /\ Goto(c, "spawned")
    /\ UNCHANGED <<serving, record, lock, op, result, signalled, bounds>>

\* The binary does not verify, or the spawn fails.
SpawnFails(c) ==
    /\ At(c, "spawn")
    /\ Goto(c, "unlock")
    /\ UNCHANGED <<osVars, record, lock, op, rec, result, bounds>>

\* The identity of the child is read and its binary verified again; a child
\* that exited before that is left at that.
IdentifyChild(c) ==
    /\ At(c, "spawned")
    /\ \E says \in {"same", "other", "unreadable"} :
         /\ Identity(rec[c], says)
         /\ \E to \in (IF ~isAlive(rec[c]) THEN {"unlock"}
                      ELSE IF says = "same" THEN {"record", "killChild"}
                      ELSE {"killChild"}) : Goto(c, to)
    /\ UNCHANGED <<osVars, record, lock, op, rec, result, orphans, dead, ops>>

\* killChild: the child handle never names another process; the SIGKILL takes
\* effect within the sleep that follows it.
KillChild(c) ==
    /\ At(c, "killChild")
    /\ LET i == rec[c].at IN
       /\ table' = [p \in Pids |-> IF table[p] = i THEN Nobody ELSE table[p]]
       /\ serving' = IF serving = i THEN Nobody ELSE serving
       /\ signalled' = signalled \cup (IF Alive(i) THEN {i} ELSE {})
    /\ Goto(c, "unlock")
    /\ UNCHANGED <<born, ours, record, lock, op, rec, result, bounds>>

\* The record is written before readiness is waited for.
WriteRecord(c) ==
    /\ At(c, "record")
    /\ record' = rec[c]
    /\ Goto(c, "ready")
    /\ UNCHANGED <<osVars, lock, op, rec, result, bounds>>

\* The readiness probe answers: started.
Ready(c) ==
    /\ At(c, "ready") /\ isAlive(rec[c]) /\ serving # Nobody
    /\ result' = [result EXCEPT ![c] = "started"]
    /\ Goto(c, "unlock")
    /\ UNCHANGED <<osVars, record, lock, op, rec, bounds>>

\* It exited or the timeout passed: a live process is stopped first.
NotReady(c) ==
    /\ At(c, "ready")
    /\ Goto(c, IF isAlive(rec[c]) THEN "terminate" ELSE "remove")
    /\ UNCHANGED <<osVars, record, lock, op, rec, result, bounds>>

-----------------------------------------------------------------------------
(* terminateVerified *)

Send(p) == signalled' = signalled \cup ({table[p]} \ {Nobody})
Report(c, says) ==
    result' = [result EXCEPT ![c] = IF op[c] = "stop" THEN says ELSE @]

\* On POSIX the identity is read before SIGTERM; Windows goes to the kill.
Terminate(c) ==
    /\ At(c, "terminate")
    /\ IF windows THEN Goto(c, "force") /\ UNCHANGED unreadable
       ELSE \E says \in {"same", "other", "unreadable"} :
              /\ Identity(rec[c], says)
              /\ Goto(c, IF says = "same" THEN "sigterm" ELSE "remove")
    /\ UNCHANGED <<osVars, record, lock, op, rec, result, orphans, dead, ops>>

\* SIGTERM, then SIGKILL, to whatever the PID names now; it may take its time.
Signal(c) ==
    /\ ~windows
    /\ At(c, "sigterm") \/ At(c, "kill")
    /\ Send(rec[c].pid)
    /\ Goto(c, IF pc[c] = "sigterm" THEN "wait" ELSE "lastWait")
    /\ UNCHANGED <<table, born, ours, serving, record, lock, op, rec, result, bounds>>

\* waitGone: no such PID, or after the timeout an identity that is not the same.
Gone(c) ==
    /\ At(c, "wait") \/ At(c, "lastWait")
    /\ Identity(rec[c], "other") \/ Identity(rec[c], "unreadable")
    /\ Report(c, "stopped")
    /\ Goto(c, "remove")
    /\ UNCHANGED <<osVars, record, lock, op, rec, orphans, dead, ops>>

\* Mutant: a process that outlives its SIGTERM is waited for again.
StillThere_WaitsOn(c) ==
    /\ At(c, "wait") \/ At(c, "lastWait")
    /\ Identity(rec[c], "same")
    /\ UNCHANGED <<osVars, record, lock, pc, op, rec, result, orphans, dead, ops>>

\* Mutant: the record goes although the process did not.
StillThere_Drops(c) ==
    /\ At(c, "wait") \/ At(c, "lastWait")
    /\ Identity(rec[c], "same")
    /\ Goto(c, IF pc[c] = "wait" THEN "force" ELSE "remove")
    /\ UNCHANGED <<osVars, record, lock, op, rec, result, orphans, dead, ops>>

\* The timeout passed and it is still there: the forced kill, and after that
\* one PROCESS_STOP_FAILED.
StillThere(c) ==
    /\ At(c, "wait") \/ At(c, "lastWait")
    /\ Identity(rec[c], "same")
    /\ Goto(c, IF pc[c] = "wait" THEN "force" ELSE "unlock")
    /\ UNCHANGED <<osVars, record, lock, op, rec, result, orphans, dead, ops>>

\* It exited meanwhile: stopped.
ForceGone(c) ==
    /\ At(c, "force") /\ ~isAlive(rec[c])
    /\ Report(c, "stopped")
    /\ Goto(c, "remove")
    /\ UNCHANGED <<osVars, record, lock, op, rec, bounds>>

\* The PID is alive; its identity is read again (it may exit before that).
CheckForced(c) ==
    /\ At(c, "force")
    /\ \E says \in {"same", "other", "unreadable"} :
         /\ Identity(rec[c], says)
         /\ Goto(c, IF says = "same" THEN "kill" ELSE "remove")
    /\ UNCHANGED <<osVars, record, lock, op, rec, result, orphans, dead, ops>>

Ends(p) ==
    /\ table' = [table EXCEPT ![p] = Nobody]
    /\ serving' = IF serving = table[p] THEN Nobody ELSE serving
    /\ UNCHANGED <<born, ours>>

\* Mutant: TerminateProcess without the comparison of the handle's identity.
HandleStopped_Unchecked(c) ==
    /\ windows /\ At(c, "kill") /\ isAlive(rec[c])
    /\ Send(rec[c].pid) /\ Ends(rec[c].pid)
    /\ Report(c, "stopped")
    /\ Goto(c, "remove")
    /\ UNCHANGED <<record, lock, op, rec, bounds>>

\* One handle: it names the recorded process, which is terminated and exits.
HandleStopped(c) ==
    /\ windows /\ At(c, "kill") /\ table[rec[c].pid] = rec[c].at
    /\ Send(rec[c].pid) /\ Ends(rec[c].pid)
    /\ Report(c, "stopped")
    /\ Goto(c, "remove")
    /\ UNCHANGED <<record, lock, op, rec, bounds>>

\* The handle says gone, or that the PID names another process.
HandleElse(c) ==
    /\ windows /\ At(c, "kill") /\ table[rec[c].pid] # rec[c].at
    /\ IF isAlive(rec[c]) THEN UNCHANGED result ELSE Report(c, "stopped")
    /\ Goto(c, "remove")
    /\ UNCHANGED <<osVars, record, lock, op, rec, bounds>>

\* Terminated but still running after the wait, or the helper could not tell:
\* the operation fails and the record stays.
HandleFails(c) ==
    /\ windows /\ At(c, "kill")
    /\ \/ table[rec[c].pid] = rec[c].at /\ Send(rec[c].pid)
       \/ UNCHANGED signalled
    /\ Goto(c, "unlock")
    /\ UNCHANGED <<table, born, ours, serving, record, lock, op, rec, result, bounds>>

\* removeRecord at the end of a stop or of a start that was not ready.
RemoveRecord(c) ==
    /\ At(c, "remove")
    /\ record' = NoRecord
    /\ Goto(c, "unlock")
    /\ UNCHANGED <<osVars, lock, op, rec, result, bounds>>

-----------------------------------------------------------------------------
\* A file operation throws, or the second verification of the binary: withLock
\* removes the lock and throws on.  Nothing kills a child that has no record yet,
\* and a lock that cannot be named or removed stays.
Throws(c) ==
    /\ \E l \in {"owner", "break", "drop", "spawned", "record", "remove", "unlock"} : At(c, l)
    /\ Goto(c, IF pc[c] \in {"owner", "break", "unlock"} THEN "idle" ELSE "unlock")
    /\ result' = [result EXCEPT ![c] = "none"]
    /\ orphans' = orphans \cup (IF pc[c] \in {"spawned", "record"} THEN {rec[c].at} ELSE {})
    /\ UNCHANGED <<osVars, record, lock, op, rec, dead, ops, unreadable>>

-----------------------------------------------------------------------------
(* The operating system and the commands' deaths *)

\* A process unrelated to HardKAS starts under a free PID.
Foreign(p) ==
    /\ table[p] = Nobody /\ born < MaxBorn
    /\ born' = born + 1
    /\ table' = [table EXCEPT ![p] = born']
    /\ UNCHANGED <<ours, serving, record, lock, pc, op, rec, result, signalled, bounds>>

\* A process exits by itself or on a SIGTERM it was sent.
Exit(p) ==
    /\ table[p] # Nobody
    /\ Ends(p)
    /\ UNCHANGED <<record, lock, pc, op, rec, result, signalled, bounds>>

\* A process, ours or not, binds the port.
Bind(p) ==
    /\ table[p] # Nobody /\ serving = Nobody
    /\ serving' = table[p]
    /\ UNCHANGED <<table, born, ours, record, lock, pc, op, rec, result, signalled, bounds>>

\* A command dies between any two steps.
Crash(c) ==
    /\ c \notin dead /\ pc[c] # "idle" /\ Cardinality(dead) < MaxCrashes
    /\ dead' = dead \cup {c}
    /\ orphans' = orphans \cup
          (IF pc[c] \in {"spawned", "killChild", "record"} THEN {rec[c].at} ELSE {})
    /\ UNCHANGED <<osVars, record, lock, pc, op, rec, result, ops, unreadable>>

\* A lock without an owner gets older than 30 s: its maker is dead by then.
LockAges ==
    /\ lock.there /\ lock.by = NoCommand /\ ~lock.old
    /\ \A c \in Commands : ~At(c, "owner")
    /\ lock' = [lock EXCEPT !.old = TRUE]
    /\ UNCHANGED <<osVars, record, pc, op, rec, result, bounds>>

Progress(c) ==
    \/ Mkdir(c) \/ WriteOwner(c) \/ JudgeLeftOver(c) \/ BreakLock(c) \/ GiveUp(c)
    \/ Unlock(c) \/ ReadRecord(c) \/ Identify(c) \/ DropRecord(c)
    \/ CheckPort(c) \/ SpawnFails(c) \/ (\E p \in Pids : Spawn(c, p)) \/ IdentifyChild(c)
    \/ KillChild(c) \/ WriteRecord(c) \/ Ready(c) \/ NotReady(c)
    \/ Terminate(c) \/ Signal(c) \/ Gone(c) \/ StillThere(c) \/ ForceGone(c) \/ CheckForced(c)
    \/ HandleStopped(c) \/ HandleElse(c) \/ HandleFails(c) \/ RemoveRecord(c) \/ Throws(c)

Step(c) ==
    /\ Progress(c)
    /\ raced' = (raced \/ (pc[c] = "break" /\ lock.there /\ ~LeftOver(lock) /\ pc'[c] = "mkdir"))
    /\ misread' = misread \cup (IF unreadable' # unreadable /\ pc'[c] = "remove" THEN {rec[c].at} ELSE {})
    /\ UNCHANGED windows

Environment ==
    /\ \/ \E c \in Commands : Crash(c) \/ \E o \in {"start", "stop"} : Begin(c, o)
       \/ \E p \in Pids : Foreign(p) \/ Exit(p) \/ Bind(p)
       \/ LockAges
    /\ UNCHANGED <<raced, misread, windows>>

Next == (\E c \in Commands : Step(c)) \/ Environment

Spec == Init /\ [][Next]_vars

\* A live command takes its next step: its timers fire and its calls return.
FairSpec == Spec /\ \A c \in Commands : WF_vars(Step(c))

-----------------------------------------------------------------------------
Critical == {"status", "identify", "drop", "port", "spawn", "spawned", "killChild",
             "record", "ready", "terminate", "sigterm", "wait", "lastWait", "force", "kill",
             "remove"}

\* The variables have their types, and only an instance HardKAS started is
\* ever recorded, whatever its PID named when the identity was read.
TypeOK ==
    /\ table \in [Pids -> {Nobody} \cup Instances]
    /\ born \in 0..MaxBorn
    /\ ours \subseteq 1..born /\ orphans \subseteq ours
    /\ serving \in {Nobody} \cup Instances
    /\ record \in [pid : Pids, at : {Nobody} \cup ours]
    /\ pc \in [Commands -> Critical \cup {"idle", "mkdir", "owner", "break", "unlock"}]
    /\ lock \in [there : BOOLEAN, by : Commands \cup {NoCommand}, old : BOOLEAN]

\* One start or stop at a time works on the state directory, although a lock
\* whose owner died is broken by whoever finds it, unless a lock was broken that
\* had been taken since the left-over one was judged.
Serialised ==
    \A c, d \in Commands \ dead :
        ~raced /\ pc[c] \in Critical /\ pc[d] \in Critical => c = d

\* HardKAS never signals a process it did not start, however PIDs are reused
\* between the record, the checks and the kill (O-1).  On POSIX a PID may still
\* change hands between the check and the signal, as the code says.
OnlyOwn == windows => signalled \subseteq ours

Starting == {rec[c].at : c \in {d \in Commands \ dead :
                pc[d] \in {"spawned", "killChild", "record"}}}

\* A process HardKAS started is recorded for as long as it lives, whatever dies,
\* throws or cannot be read, but for three ways to lose it: its starter died or
\* threw before the record was written (nothing kills the child then), a stop
\* dropped its record on a failed reading of its identity, or a fresh lock was
\* broken and two operations worked at once.
Tracked ==
    \A i \in ours :
        ~raced /\ Alive(i) => i = record.at \/ i \in orphans \cup misread \cup Starting

\* A stop that reports `stopped' left nothing running of what it stopped (O-4:
\* stop waits for the exit), on POSIX as long as the identity of a live process
\* can be read: there an unreadable one counts as gone at the end of the wait.
StoppedIsGone ==
    \A c \in Commands :
        (windows \/ unreadable = 0) /\ result[c] = "stopped" => ~Alive(rec[c].at)

\* Every operation ends: a dead owner's lock is broken, waits have deadlines.
OperationEnds == \A c \in Commands : pc[c] = "mkdir" ~> (pc[c] = "idle" \/ c \in dead)

=============================================================================
