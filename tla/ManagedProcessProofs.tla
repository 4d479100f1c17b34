------------------------ MODULE ManagedProcessProofs ------------------------
(***************************************************************************)
(* The managed process, for any number of commands, PIDs and processes.     *)
(*                                                                         *)
(* LockInv: a command in the critical section, or about to leave it, is the *)
(* one the lock names, until a lock was broken that was not left over.      *)
(* PlaceInv: an instance lives only under the PID it was recorded with, so a *)
(* PID that names another process, or none, says that it is gone.  StopInv: *)
(* what was reported stopped stays gone, because instances are not reused.  *)
(* TrackInv: of the processes started here and not lost by name, the only    *)
(* live one without a record is the one whose command is about to write it.  *)
(***************************************************************************)
EXTENDS ManagedProcess, TLAPS

Labels == Critical \cup {"idle", "mkdir", "owner", "break", "unlock"}
Holding == Critical \cup {"unlock"}

Types ==
    /\ table \in [Pids -> 0..born] /\ born \in 0..MaxBorn
    /\ ours \subseteq 1..born /\ orphans \subseteq ours
    /\ serving \in 0..born
    /\ record \in [pid : Pids, at : {0} \cup ours]
    /\ rec \in [Commands -> [pid : Pids, at : {0} \cup ours]]
    /\ pc \in [Commands -> Labels]
    /\ lock \in [there : BOOLEAN, by : Commands \cup {NoCommand}, old : BOOLEAN]
    /\ result \in [Commands -> {"none", "started", "stopped"}]
    /\ op \in [Commands -> {"start", "stop"}]
    /\ unreadable \in Nat

LockInv ==
    raced \/ \A c \in Commands \ dead :
        /\ pc[c] \in Holding => lock.there /\ lock.by = c
        /\ pc[c] = "owner" => /\ lock.there /\ lock.by = NoCommand /\ ~lock.old
                              /\ \A d \in Commands \ dead : pc[d] = "owner" => d = c

ChildInv == \A c \in Commands : pc[c] \in {"spawned", "killChild", "record"} => rec[c].at \in ours

PlaceInv ==
    \A p \in Pids : table[p] # 0 =>
        /\ table[p] = record.at => p = record.pid
        /\ \A c \in Commands : table[p] = rec[c].at => p = rec[c].pid

StopInv ==
    \A c \in Commands :
        /\ windows => pc[c] \notin {"sigterm", "wait", "lastWait"}
        /\ result[c] = "stopped" =>
              /\ pc[c] \in {"idle", "remove", "unlock"}
              /\ windows \/ unreadable = 0 => \A p \in Pids : table[p] # 0 => table[p] # rec[c].at

IInv == Types /\ LockInv /\ ChildInv /\ PlaceInv /\ StopInv /\ OnlyOwn

Numbers == MaxBorn \in Nat /\ MaxUnreadable \in Nat /\ NoCommand \notin Commands

\* What the proofs use of the assumption on the constants.
LEMMA NumbersHold == Numbers
BY ProcessAssumption, Zenon DEF Numbers

\* Which places of a command are between withLock's mkdir and its rm.
LEMMA LabelFacts ==
    /\ \A l \in {"status", "identify", "drop", "port", "spawn", "spawned", "killChild", "record",
               "ready", "terminate", "sigterm", "wait", "lastWait", "force", "kill", "remove",
               "unlock"} : l \in Holding /\ l \in Labels
    /\ \A l \in {"idle", "mkdir", "owner", "break"} : l \notin Holding /\ l \in Labels
BY ZenonT(60) DEF Labels, Holding, Critical

\* A command goes on and leaves the records and the lock alone; processes may
\* end, and on Windows only our own are signalled.
LEMMA Calm ==
    ASSUME IInv, NEW c \in Commands, NEW l \in Labels, NEW v \in {"none", "started", "stopped"},
           UNCHANGED <<born, ours, record, lock, op, rec, dead, windows>>,
           orphans' = orphans \/ orphans' \subseteq ours,
           table' \in [Pids -> 0..born], \A p \in Pids : table'[p] \in {0, table[p]},
           serving' \in 0..born, windows => signalled' \subseteq ours,
           raced => raced', unreadable' \in Nat, unreadable' = 0 => unreadable = 0,
           pc' = [pc EXCEPT ![c] = l], result' = [result EXCEPT ![c] = v],
           l # "owner", l \in Holding => pc[c] \in Holding,
           l \in {"spawned", "killChild", "record"} => rec[c].at \in ours,
           windows => l \notin {"sigterm", "wait", "lastWait"},
           v = "stopped" => /\ l \in {"idle", "remove", "unlock"}
                            /\ windows \/ unreadable' = 0 =>
                                  \A p \in Pids : table'[p] # 0 => table'[p] # rec[c].at
    PROVE  IInv'
<1>0. /\ \A d \in Commands : pc'[d] = IF d = c THEN l ELSE pc[d]
      /\ \A d \in Commands : result'[d] = IF d = c THEN v ELSE result[d]
  BY Zenon DEF IInv, Types
<1>1. Types'
  BY Zenon DEF IInv, Types
<1>2. LockInv'
  BY <1>0 DEF IInv, LockInv
<1>3. ChildInv'
  BY <1>0, Zenon DEF IInv, ChildInv
<1>4. PlaceInv'
  BY DEF IInv, PlaceInv
<1>5. StopInv'
  <2> SUFFICES ASSUME NEW d \in Commands
               PROVE  /\ windows => pc'[d] \notin {"sigterm", "wait", "lastWait"}
                      /\ result'[d] = "stopped" =>
                            /\ pc'[d] \in {"idle", "remove", "unlock"}
                            /\ windows \/ unreadable' = 0 =>
                                  \A p \in Pids : table'[p] # 0 => table'[p] # rec[d].at
    BY Zenon DEF StopInv
  <2>1. CASE d = c
    BY <2>1, <1>0, Zenon
  <2>2. CASE d # c
    BY <2>2, <1>0 DEF IInv, StopInv
  <2> QED BY <2>1, <2>2, Zenon
<1>6. OnlyOwn'
  BY Zenon DEF IInv, OnlyOwn
<1> QED BY <1>1, <1>2, <1>3, <1>4, <1>5, <1>6, Zenon DEF IInv

\* The processes are as they were.
LEMMA Still ==
    ASSUME IInv, UNCHANGED osVars, UNCHANGED windows
    PROVE  /\ UNCHANGED <<table, born, ours, serving, signalled>>
           /\ table' \in [Pids -> 0..born] /\ \A p \in Pids : table'[p] \in {0, table[p]}
           /\ serving' \in 0..born /\ (windows => signalled' \subseteq ours)
BY Zenon DEF IInv, Types, OnlyOwn, osVars

\* The same for a command that reports nothing.
LEMMA Silent ==
    ASSUME IInv, NEW c \in Commands, NEW l \in Labels,
           UNCHANGED osVars, UNCHANGED <<record, lock, op, rec, result, orphans, dead, windows>>,
           raced => raced', unreadable' \in Nat, unreadable' = 0 => unreadable = 0,
           pc' = [pc EXCEPT ![c] = l], pc[c] \notin {"idle", "remove", "unlock"},
           l # "owner", l \in Holding => pc[c] \in Holding,
           l \in {"spawned", "killChild", "record"} => rec[c].at \in ours,
           windows => l \notin {"sigterm", "wait", "lastWait"}
    PROVE  IInv'
<1>1. result' = [result EXCEPT ![c] = result[c]] /\ result[c] \in {"none", "started", "stopped"}
  BY Zenon DEF IInv, Types
<1>2. result[c] # "stopped"
  BY Zenon DEF IInv, StopInv
<1> QED BY <1>1, <1>2, Still, Calm, Zenon

\* An identity reading may fail, and is then counted.
LEMMA Readings ==
    ASSUME IInv, NEW r, NEW says, Identity(r, says)
    PROVE  unreadable' \in Nat /\ (unreadable' = 0 => unreadable = 0)
BY NumbersHold DEF IInv, Types, Identity, Numbers

\* The steps that only move a command on.
LEMMA SilentSteps ==
    ASSUME IInv, NEW c \in Commands, raced => raced', UNCHANGED windows,
           \/ JudgeLeftOver(c) \/ GiveUp(c) \/ Identify(c) \/ CheckPort(c) \/ SpawnFails(c)
           \/ IdentifyChild(c) \/ NotReady(c) \/ Terminate(c) \/ StillThere(c) \/ CheckForced(c)
    PROVE  IInv'
<1> USE LabelFacts DEF At, Goto, bounds
<1>0. unreadable \in Nat
  BY Zenon DEF IInv, Types
<1>1. CASE JudgeLeftOver(c)
  BY <1>0, <1>1, Silent, Zenon DEF JudgeLeftOver
<1>2. CASE GiveUp(c)
  BY <1>0, <1>2, Silent, Zenon DEF GiveUp
<1>3. CASE Identify(c)
  <2>1. PICK says \in {"same", "other", "unreadable"} :
           /\ Identity(rec[c], says)
           /\ Goto(c, CASE says = "other" -> "drop"
                        [] says = "unreadable" -> "unlock"
                        [] says = "same" -> IF op[c] = "start" THEN "unlock" ELSE "terminate")
    BY <1>3, Zenon DEF Identify
  <2>2. PICK l \in {"drop", "unlock", "terminate"} : pc' = [pc EXCEPT ![c] = l]
    BY <2>1, Zenon
  <2>7. /\ pc[c] = "identify" /\ UNCHANGED osVars
        /\ UNCHANGED <<record, lock, op, rec, result, orphans, dead, windows>>
    BY <1>3, Zenon DEF Identify
  <2>8. unreadable' \in Nat /\ (unreadable' = 0 => unreadable = 0)
    BY <2>1, Readings, Zenon
  <2> QED BY <2>2, <2>7, <2>8, Silent, Zenon
<1>4. CASE CheckPort(c)
  <2>1. \E l \in {"spawn", "unlock"} : pc' = [pc EXCEPT ![c] = l]
    BY <1>4, Zenon DEF CheckPort
  <2> QED BY <1>0, <1>4, <2>1, Silent, Zenon DEF CheckPort
<1>5. CASE SpawnFails(c)
  BY <1>0, <1>5, Silent, Zenon DEF SpawnFails
<1>6. CASE IdentifyChild(c)
  <2>1. PICK says \in {"same", "other", "unreadable"} : Identity(rec[c], says)
    BY <1>6, Zenon DEF IdentifyChild
  <2>2. PICK l \in {"unlock", "record", "killChild"} : pc' = [pc EXCEPT ![c] = l]
    BY <1>6, Zenon DEF IdentifyChild
  <2>3. pc[c] = "spawned" /\ rec[c].at \in ours
    BY <1>6, Zenon DEF IdentifyChild, IInv, ChildInv
  <2>7. /\ pc[c] = "spawned" /\ UNCHANGED osVars
        /\ UNCHANGED <<record, lock, op, rec, result, orphans, dead, windows>>
    BY <1>6, Zenon DEF IdentifyChild
  <2>8. unreadable' \in Nat /\ (unreadable' = 0 => unreadable = 0)
    BY <2>1, Readings, Zenon
  <2> QED BY <2>2, <2>3, <2>7, <2>8, Silent, Zenon
<1>7. CASE NotReady(c)
  <2>1. \E l \in {"terminate", "remove"} : pc' = [pc EXCEPT ![c] = l]
    BY <1>7, Zenon DEF NotReady
  <2> QED BY <1>0, <1>7, <2>1, Silent, Zenon DEF NotReady
<1>8. CASE Terminate(c)
  <2>1. CASE windows
    BY <1>0, <1>8, <2>1, Silent, Zenon DEF Terminate
  <2>2. CASE ~windows
    <3>1. PICK says \in {"same", "other", "unreadable"} : Identity(rec[c], says)
      BY <1>8, <2>2, Zenon DEF Terminate
    <3>2. PICK l \in {"sigterm", "remove"} : pc' = [pc EXCEPT ![c] = l]
      BY <1>8, <2>2, Zenon DEF Terminate
    <3>7. /\ pc[c] = "terminate" /\ UNCHANGED osVars
          /\ UNCHANGED <<record, lock, op, rec, result, orphans, dead, windows>>
      BY <1>8, Zenon DEF Terminate
    <3>8. unreadable' \in Nat /\ (unreadable' = 0 => unreadable = 0)
      BY <3>1, Readings, Zenon
    <3> QED BY <2>2, <3>2, <3>7, <3>8, Silent, Zenon
  <2> QED BY <2>1, <2>2, Zenon
<1>9. CASE StillThere(c)
  <2>1. PICK l \in {"force", "unlock"} : pc' = [pc EXCEPT ![c] = l]
    BY <1>9, Zenon DEF StillThere
  <2>2. Identity(rec[c], "same") /\ pc[c] \in {"wait", "lastWait"}
    BY <1>9, Zenon DEF StillThere
  <2>3. UNCHANGED osVars /\ UNCHANGED <<record, lock, op, rec, result, orphans, dead, windows>>
    BY <1>9, Zenon DEF StillThere
  <2>4. unreadable' \in Nat /\ (unreadable' = 0 => unreadable = 0)
    BY <2>2, Readings, Zenon
  <2> QED BY <2>1, <2>2, <2>3, <2>4, Silent, Zenon
<1>10. CASE CheckForced(c)
  <2>1. PICK says \in {"same", "other", "unreadable"} : Identity(rec[c], says)
    BY <1>10, Zenon DEF CheckForced
  <2>2. PICK l \in {"kill", "remove"} : pc' = [pc EXCEPT ![c] = l]
    BY <1>10, Zenon DEF CheckForced
  <2>7. /\ pc[c] = "force" /\ UNCHANGED osVars
        /\ UNCHANGED <<record, lock, op, rec, result, orphans, dead, windows>>
    BY <1>10, Zenon DEF CheckForced
  <2>8. unreadable' \in Nat /\ (unreadable' = 0 => unreadable = 0)
    BY <2>1, Readings, Zenon
  <2> QED BY <2>2, <2>7, <2>8, Silent, Zenon
<1> QED BY <1>1, <1>2, <1>3, <1>4, <1>5, <1>6, <1>7, <1>8, <1>9, <1>10, Zenon

\* What is not under the recorded PID is nowhere.
LEMMA NotThere ==
    ASSUME IInv, NEW c \in Commands, table[rec[c].pid] # rec[c].at
    PROVE  \A p \in Pids : table[p] # 0 => table[p] # rec[c].at
BY Zenon DEF IInv, PlaceInv

\* The steps that report a process as started or stopped.
LEMMA ReportingSteps ==
    ASSUME IInv, NEW c \in Commands, raced => raced', UNCHANGED windows,
           Ready(c) \/ Gone(c) \/ ForceGone(c) \/ HandleElse(c)
    PROVE  IInv'
<1> USE LabelFacts DEF At, Goto, bounds
<1>0. /\ unreadable \in Nat /\ result[c] \in {"none", "started", "stopped"}
      /\ \A p \in Pids : table[p] \in Nat
      /\ rec[c].pid \in Pids
      /\ result = [result EXCEPT ![c] = result[c]]
  BY NumbersHold DEF IInv, Types, Numbers
<1>1. CASE Ready(c)
  BY <1>0, <1>1, Still, Calm, Zenon DEF Ready
<1>2. ASSUME pc[c] \in {"wait", "lastWait", "force", "kill"}, Report(c, "stopped"), Goto(c, "remove"),
             UNCHANGED osVars, UNCHANGED <<record, lock, op, rec, orphans, dead>>,
             unreadable' \in Nat, unreadable' = 0 => unreadable = 0,
             windows \/ unreadable' = 0 => \A p \in Pids : table[p] # 0 => table[p] # rec[c].at
      PROVE  IInv'
  <2>1. result[c] # "stopped"
    BY <1>2, Zenon DEF IInv, StopInv
  <2>2. \E v \in {"none", "started", "stopped"} :
           result' = [result EXCEPT ![c] = v]
    BY <1>0, <1>2, Zenon DEF Report
  <2>3. /\ UNCHANGED <<table, born, ours>>
        /\ table' \in [Pids -> 0..born] /\ \A p \in Pids : table'[p] \in {0, table[p]}
        /\ serving' \in 0..born /\ (windows => signalled' \subseteq ours)
    BY <1>2, Still, Zenon
  <2>4. windows \/ unreadable' = 0 => \A p \in Pids : table'[p] # 0 => table'[p] # rec[c].at
    BY <1>2, <2>3, Zenon
  <2> QED BY <1>2, <2>2, <2>3, <2>4, Calm, ZenonT(60)
<1>3. CASE Gone(c)
  <2>1. unreadable' \in Nat /\ (unreadable' = 0 => unreadable = 0)
    BY <1>3, Readings, Zenon DEF Gone
  <2>2. ~windows
    BY <1>3, Zenon DEF Gone, IInv, StopInv
  <2>3. unreadable' = 0 => table[rec[c].pid] # rec[c].at \/ table[rec[c].pid] = 0
    BY <1>0, <1>3 DEF Gone, Identity, isAlive, Nobody
  <2>4. table[rec[c].pid] = 0 => \A p \in Pids : table[p] # 0 => table[p] # rec[c].at
    BY Zenon DEF IInv, PlaceInv
  <2> QED BY <1>2, <1>3, <2>1, <2>2, <2>3, <2>4, NotThere, Zenon DEF Gone
<1>4. CASE ForceGone(c)
  <2>1. table[rec[c].pid] = 0
    BY <1>4, Zenon DEF ForceGone, isAlive, Nobody
  <2>2. \A p \in Pids : table[p] # 0 => table[p] # rec[c].at
    BY <2>1, Zenon DEF IInv, PlaceInv
  <2> QED BY <1>0, <1>2, <1>4, <2>2, Zenon DEF ForceGone
<1>5. CASE HandleElse(c)
  <2>1. CASE isAlive(rec[c])
    BY <1>0, <1>5, <2>1, Silent, Zenon DEF HandleElse
  <2>2. CASE ~isAlive(rec[c])
    BY <1>0, <1>2, <1>5, <2>2, NotThere, Zenon DEF HandleElse
  <2> QED BY <2>1, <2>2, Zenon
<1> QED BY <1>1, <1>3, <1>4, <1>5, Zenon

\* The steps that signal a process.
LEMMA SignallingSteps ==
    ASSUME IInv, NEW c \in Commands, raced => raced', UNCHANGED windows,
           KillChild(c) \/ Signal(c) \/ HandleStopped(c) \/ HandleFails(c)
    PROVE  IInv'
<1> USE LabelFacts DEF At, Goto, bounds
<1>0. /\ unreadable \in Nat /\ result[c] \in {"none", "started", "stopped"}
      /\ table \in [Pids -> 0..born] /\ serving \in 0..born /\ born \in Nat
      /\ rec[c].pid \in Pids /\ rec[c].at \in {0} \cup ours
      /\ result = [result EXCEPT ![c] = result[c]]
      /\ windows => signalled \subseteq ours
  BY NumbersHold DEF IInv, Types, Numbers, OnlyOwn
<1>1. CASE KillChild(c)
  <2>1. rec[c].at \in ours /\ result[c] # "stopped"
    BY <1>1, Zenon DEF KillChild, IInv, ChildInv, StopInv
  <2>2. table' \in [Pids -> 0..born] /\ \A p \in Pids : table'[p] \in {0, table[p]}
    BY <1>0, <1>1 DEF KillChild, Nobody
  <2>3. serving' \in 0..born /\ (windows => signalled' \subseteq ours)
    BY <1>0, <1>1, <2>1 DEF KillChild, Nobody
  <2> QED BY <1>0, <1>1, <2>1, <2>2, <2>3, Calm, Zenon DEF KillChild
<1>2. CASE Signal(c)
  <2>1. result[c] # "stopped" /\ ~windows
    BY <1>2, Zenon DEF Signal, IInv, StopInv
  <2>2. PICK l \in {"wait", "lastWait"} : pc' = [pc EXCEPT ![c] = l]
    BY <1>2, Zenon DEF Signal
  <2>3. /\ pc[c] \in {"sigterm", "kill"}
        /\ UNCHANGED <<table, serving, result, unreadable>>
        /\ UNCHANGED <<born, ours, record, lock, op, rec, orphans, dead, windows>>
    BY <1>2, Zenon DEF Signal
  <2> QED BY <1>0, <2>1, <2>2, <2>3, Calm, Zenon
<1>3. CASE HandleStopped(c)
  <2>1. pc[c] = "kill" /\ result[c] # "stopped" /\ table[rec[c].pid] = rec[c].at
    BY <1>3, Zenon DEF HandleStopped, IInv, StopInv
  <2>2. /\ table' = [table EXCEPT ![rec[c].pid] = 0] /\ serving' \in 0..born
    BY <1>0, <1>3 DEF HandleStopped, Ends, Nobody
  <2>3. table' \in [Pids -> 0..born] /\ \A p \in Pids : table'[p] = IF p = rec[c].pid THEN 0 ELSE table[p]
    BY <1>0, <2>2
  <2>4. windows => signalled' \subseteq ours
    BY <1>0, <1>3, <2>1, Zenon DEF HandleStopped, Send, Nobody
  <2>5. \A p \in Pids : table'[p] # 0 => table'[p] # rec[c].at
    BY <2>3, Zenon DEF IInv, PlaceInv
  <2>6. PICK v \in {"none", "started", "stopped"} : result' = [result EXCEPT ![c] = v]
    BY <1>0, <1>3, Zenon DEF HandleStopped, Report
  <2>7. /\ pc' = [pc EXCEPT ![c] = "remove"] /\ UNCHANGED unreadable
        /\ UNCHANGED <<born, ours, record, lock, op, rec, orphans, dead, windows>>
    BY <1>3, Zenon DEF HandleStopped, Ends
  <2>8. \A p \in Pids : table'[p] \in {0, table[p]}
    BY <2>3, Zenon
  <2> QED BY <1>0, <2>1, <2>2, <2>3, <2>4, <2>5, <2>6, <2>7, <2>8, Calm, ZenonT(60)
<1>4. CASE HandleFails(c)
  <2>1. pc[c] = "kill" /\ result[c] # "stopped"
    BY <1>4, Zenon DEF HandleFails, IInv, StopInv
  <2>2. windows => signalled' \subseteq ours
    BY <1>0, <1>4, Zenon DEF HandleFails, Send, Nobody
  <2> QED BY <1>0, <1>4, <2>1, <2>2, Calm, Zenon DEF HandleFails
<1> QED BY <1>1, <1>2, <1>3, <1>4

\* A file operation or a verification that throws.
LEMMA ThrowingSteps ==
    ASSUME IInv, NEW c \in Commands, raced => raced', UNCHANGED windows, Throws(c)
    PROVE  IInv'
<1> USE LabelFacts DEF At, Goto
<1>1. PICK l \in {"idle", "unlock"} :
        pc' = [pc EXCEPT ![c] = l] /\ (l \in Holding => pc[c] \in Holding)
  BY Zenon DEF Throws
<1>2. unreadable \in Nat /\ orphans \subseteq ours
  BY Zenon DEF IInv, Types
<1>3. orphans' \subseteq ours
  <2>1. pc[c] \in {"spawned", "record"} => rec[c].at \in ours
    BY Zenon DEF IInv, ChildInv
  <2> QED BY <1>2, <2>1, Zenon DEF Throws
<1>4. /\ UNCHANGED osVars /\ UNCHANGED <<record, lock, op, rec, dead, windows, unreadable>>
      /\ result' = [result EXCEPT ![c] = "none"]
  BY Zenon DEF Throws
<1> QED BY <1>1, <1>2, <1>3, <1>4, Still, Calm, Zenon

\* The lock: made, named, aged, broken and removed.
LEMMA LockSteps ==
    ASSUME IInv, NEW c \in Commands,
           raced' = (raced \/ (pc[c] = "break" /\ lock.there /\ ~LeftOver(lock) /\ pc'[c] = "mkdir")),
           UNCHANGED windows,
           Mkdir(c) \/ WriteOwner(c) \/ BreakLock(c) \/ Unlock(c)
    PROVE  IInv'
<1> USE DEF Labels, Holding, Critical, At, Goto, bounds, osVars
<1>1. PICK l \in {"owner", "status", "idle", "mkdir"} :
        /\ pc' = [pc EXCEPT ![c] = l] /\ (result[c] = "stopped" => l = "idle" /\ pc[c] = "unlock")
        /\ UNCHANGED <<osVars, record, op, rec, result, orphans, dead, unreadable>>
        /\ lock' \in [there : BOOLEAN, by : Commands \cup {NoCommand}, old : BOOLEAN]
  <2>1. lock \in [there : BOOLEAN, by : Commands \cup {NoCommand}, old : BOOLEAN]
    BY Zenon DEF IInv, Types
  <2>2. pc[c] \in {"mkdir", "owner", "break"} => result[c] # "stopped"
    BY Zenon DEF IInv, StopInv
  <2>3. CASE Mkdir(c)
    BY <2>2, <2>3, Zenon DEF Mkdir
  <2>4. CASE WriteOwner(c)
    BY <2>1, <2>2, <2>4, Zenon DEF WriteOwner
  <2>5. CASE BreakLock(c)
    BY <2>2, <2>5, Zenon DEF BreakLock, Free
  <2>6. CASE Unlock(c)
    BY <2>2, <2>6, Zenon DEF Unlock, Free
  <2> QED BY <2>3, <2>4, <2>5, <2>6, Zenon
<1>2. \A d \in Commands : pc'[d] = IF d = c THEN l ELSE pc[d]
  BY <1>1, Zenon DEF IInv, Types
<1>3. Types'
  BY <1>1, Zenon DEF IInv, Types
<1>4. LockInv'
  <2> SUFFICES ASSUME ~raced', NEW d \in Commands \ dead
               PROVE  /\ pc'[d] \in Holding => lock'.there /\ lock'.by = d
                      /\ pc'[d] = "owner" =>
                            /\ lock'.there /\ lock'.by = NoCommand /\ ~lock'.old
                            /\ \A e \in Commands \ dead : pc'[e] = "owner" => e = d
    BY <1>1, Zenon DEF LockInv
  <2>1. /\ ~raced /\ c \notin dead
        /\ \A e \in Commands \ dead :
              /\ pc[e] \in Holding => lock.there /\ lock.by = e
              /\ pc[e] = "owner" => /\ lock.there /\ lock.by = NoCommand /\ ~lock.old
                                    /\ \A f \in Commands \ dead : pc[f] = "owner" => f = e
    BY Zenon DEF IInv, LockInv, Mkdir, WriteOwner, BreakLock, Unlock
  <2>2. CASE Mkdir(c)
    BY <1>2, <2>1, <2>2 DEF Mkdir
  <2>3. CASE WriteOwner(c)
    <3>1. lock.there /\ lock' = [lock EXCEPT !.by = c] /\ pc' = [pc EXCEPT ![c] = "status"]
      BY <2>1, <2>3, Zenon DEF WriteOwner
    <3>2. lock'.there /\ lock'.by = c /\ l = "status"
      BY <1>1, <1>2, <3>1, ZenonT(60) DEF IInv, Types
    <3>3. d # c => pc[d] \notin Holding /\ pc[d] # "owner"
      BY <2>1, <2>3, NumbersHold DEF WriteOwner, Numbers
    <3> QED BY <1>2, <3>2, <3>3, Zenon
  <2>4. CASE BreakLock(c)
    <3>1. lock.there => LeftOver(lock)
      BY <1>2, <2>4, Zenon DEF BreakLock, IInv, Types
    <3>2. \A e \in Commands \ dead : pc[e] \notin Holding /\ pc[e] # "owner"
      BY <2>1, <3>1, NumbersHold DEF LeftOver, Numbers
    <3> QED BY <1>1, <1>2, <2>4, <3>2 DEF BreakLock
  <2>5. CASE Unlock(c)
    <3>1. lock.there /\ lock.by = c
      BY <2>1, <2>5, Zenon DEF Unlock
    <3>2. \A e \in Commands \ dead : e # c => pc[e] \notin Holding /\ pc[e] # "owner"
      BY <2>1, <3>1, NumbersHold, Zenon DEF Numbers
    <3>3. l = "idle"
      BY <1>2, <2>5, Zenon DEF Unlock, IInv, Types
    <3> QED BY <1>2, <3>2, <3>3, Zenon
  <2> QED BY <2>2, <2>3, <2>4, <2>5, Zenon
<1>5. ChildInv'
  BY <1>1, <1>2, Zenon DEF IInv, ChildInv
<1>6. PlaceInv'
  BY <1>1, Zenon DEF IInv, PlaceInv
<1>7. StopInv'
  BY <1>1, <1>2, ZenonT(60) DEF IInv, StopInv
<1>8. OnlyOwn'
  BY <1>1, Zenon DEF IInv, OnlyOwn
<1> QED BY <1>3, <1>4, <1>5, <1>6, <1>7, <1>8, Zenon DEF IInv

\* process.json is read, written and removed.
LEMMA RecordSteps ==
    ASSUME IInv, NEW c \in Commands, raced => raced', UNCHANGED windows,
           ReadRecord(c) \/ DropRecord(c) \/ WriteRecord(c) \/ RemoveRecord(c)
    PROVE  IInv'
<1> USE DEF Labels, Holding, Critical, At, Goto, bounds, osVars
<1> DEFINE Rec == [pid : Pids, at : {0} \cup ours]
<1>0. NoRecord \in Rec /\ NoRecord.at = 0
  BY ProcessAssumption, Zenon DEF NoRecord, Nobody
<1> HIDE DEF Rec
<1>1. PICK l \in {"port", "unlock", "identify", "drop", "ready"} :
        /\ pc' = [pc EXCEPT ![c] = l] /\ (result[c] = "stopped" => l = "unlock")
        /\ pc[c] \in Critical
        /\ UNCHANGED <<osVars, lock, op, result, orphans, dead, unreadable>>
  <2>1. pc[c] \in {"status", "drop", "record"} => result[c] # "stopped"
    BY Zenon DEF IInv, StopInv
  <2> QED BY <2>1, Zenon DEF ReadRecord, DropRecord, WriteRecord, RemoveRecord
<1>2. /\ \/ rec' = [rec EXCEPT ![c] = record] /\ record' = record /\ result[c] # "stopped"
         \/ rec' = rec /\ record' \in {NoRecord, rec[c]}
  BY Zenon DEF ReadRecord, DropRecord, WriteRecord, RemoveRecord, IInv, StopInv
<1>3. record \in Rec /\ rec \in [Commands -> Rec] /\ record' \in Rec /\ rec' \in [Commands -> Rec]
  BY <1>0, <1>2 DEF IInv, Types, Rec
<1>4. /\ \A d \in Commands : pc'[d] = IF d = c THEN l ELSE pc[d]
      /\ \A d \in Commands : rec'[d] \in {rec[d], record}
      /\ \A d \in Commands : result[d] = "stopped" => rec'[d] = rec[d]
  BY <1>1, <1>2, Zenon DEF IInv, Types
<1>5. Types'
  BY <1>1, <1>3, Zenon DEF IInv, Types, Rec
<1>6. LockInv'
  BY <1>1, <1>4 DEF IInv, LockInv
<1>7. ChildInv'
  <2> SUFFICES ASSUME NEW d \in Commands, pc'[d] \in {"spawned", "killChild", "record"}
               PROVE  rec'[d].at \in ours
    BY <1>1, Zenon DEF ChildInv
  <2>1. d # c /\ pc[d] = pc'[d]
    BY <1>4, Zenon
  <2>2. rec'[d] = rec[d]
    BY <2>1, <1>2, Zenon DEF IInv, Types
  <2> QED BY <2>1, <2>2, Zenon DEF IInv, ChildInv
<1>8. PlaceInv'
  BY <1>0, <1>1, <1>2, <1>4, SMTT(30) DEF IInv, PlaceInv
<1>9. StopInv'
  BY <1>1, <1>4 DEF IInv, StopInv
<1>10. OnlyOwn'
  BY <1>1, Zenon DEF IInv, OnlyOwn
<1> QED BY <1>5, <1>6, <1>7, <1>8, <1>9, <1>10, Zenon DEF IInv

\* A new instance, ours or not, has a number nothing recorded has.
LEMMA Newborn ==
    ASSUME IInv, NEW p \in Pids, born < MaxBorn, born' = born + 1,
           table' = [table EXCEPT ![p] = born'], ours' \in {ours, ours \cup {born'}},
           UNCHANGED <<serving, record, lock, result, op, signalled, orphans, dead, unreadable, raced, windows>>,
           \/ UNCHANGED <<pc, rec>>
           \/ \E c \in Commands :
                /\ ours' = ours \cup {born'} /\ pc[c] = "spawn"
                /\ pc' = [pc EXCEPT ![c] = "spawned"]
                /\ rec' = [rec EXCEPT ![c] = [pid |-> p, at |-> born']]
    PROVE  IInv'
<1> USE DEF Labels, Holding, Critical
<1>0. /\ born \in Nat /\ born' \in 0..MaxBorn /\ born' \notin {0} \cup ours /\ born' # 0
      /\ \A q \in Pids : table[q] \in 0..born /\ table'[q] = IF q = p THEN born' ELSE table[q]
      /\ ours' \subseteq 1..born' /\ ours \subseteq ours'
      /\ record.at \in {0} \cup ours /\ \A d \in Commands : rec[d].at \in {0} \cup ours
  BY NumbersHold DEF IInv, Types, Numbers
<1>1. /\ \A d \in Commands : \/ rec'[d] = rec[d] /\ pc'[d] = pc[d]
                             \/ /\ rec'[d].pid = p /\ rec'[d].at = born' /\ born' \in ours'
                                /\ pc[d] = "spawn" /\ pc'[d] = "spawned"
      /\ rec' \in [Commands -> [pid : Pids, at : {0} \cup ours']]
      /\ pc' \in [Commands -> Labels]
  <2>1. rec \in [Commands -> [pid : Pids, at : {0} \cup ours']] /\ pc \in [Commands -> Labels]
    BY <1>0 DEF IInv, Types
  <2>2. CASE UNCHANGED <<pc, rec>>
    BY <2>1, <2>2, Zenon
  <2>3. ASSUME NEW c \in Commands, ours' = ours \cup {born'}, pc[c] = "spawn",
               pc' = [pc EXCEPT ![c] = "spawned"], rec' = [rec EXCEPT ![c] = [pid |-> p, at |-> born']]
        PROVE  <1>1!:
    <3>1. [pid |-> p, at |-> born'] \in [pid : Pids, at : {0} \cup ours']
      BY <2>3, Zenon
    <3> HIDE DEF Labels, Critical
    <3>2. rec' \in [Commands -> [pid : Pids, at : {0} \cup ours']]
      BY <2>1, <2>3, <3>1, Zenon
    <3>3. pc' \in [Commands -> Labels]
      BY <2>1, <2>3, Zenon DEF Labels, Critical
    <3>4. \A d \in Commands : /\ rec'[d] = IF d = c THEN [pid |-> p, at |-> born'] ELSE rec[d]
                              /\ pc'[d] = IF d = c THEN "spawned" ELSE pc[d]
      BY <2>1, <2>3, Zenon
    <3> QED BY <2>3, <3>2, <3>3, <3>4, Zenon
  <2> QED BY <2>2, <2>3, Zenon
<1>2. Types'
  BY <1>0, <1>1 DEF IInv, Types
<1>3. LockInv'
  BY <1>1 DEF IInv, LockInv
<1>4. ChildInv'
  BY <1>0, <1>1, Zenon DEF IInv, ChildInv
<1>5. PlaceInv'
  BY <1>0, <1>1 DEF IInv, PlaceInv
<1>6. StopInv'
  BY <1>0, <1>1 DEF IInv, StopInv
<1>7. OnlyOwn'
  BY <1>0, Zenon DEF IInv, OnlyOwn
<1> QED BY <1>2, <1>3, <1>4, <1>5, <1>6, <1>7, Zenon DEF IInv

\* Every step of a command keeps the invariant.
LEMMA ProgressKeeps ==
    ASSUME IInv, NEW c \in Commands, Step(c)
    PROVE  IInv'
<1>1. /\ Progress(c) /\ UNCHANGED windows /\ (raced => raced')
      /\ raced' = (raced \/ (pc[c] = "break" /\ lock.there /\ ~LeftOver(lock) /\ pc'[c] = "mkdir"))
  BY Zenon DEF Step
<1>2. ASSUME NEW p \in Pids, Spawn(c, p) PROVE IInv'
  <2>1. pc[c] = "spawn" /\ raced' = raced
    <3>1. pc[c] = "spawn"
      BY <1>2, Zenon DEF Spawn, At
    <3>2. raced <=> raced'
      BY <1>1, <3>1, Zenon
    <3> QED BY <3>1, <3>2, <1>1, Zenon
  <2> QED BY <1>1, <1>2, <2>1, Newborn, Zenon DEF Spawn, Goto, bounds
<1> QED
  BY <1>1, <1>2, SilentSteps, ReportingSteps, SignallingSteps, ThrowingSteps, LockSteps, RecordSteps,
     Zenon DEF Progress

\* Crashes, exits and new foreign processes keep the invariant.
LEMMA EnvironmentKeeps ==
    ASSUME IInv, Environment
    PROVE  IInv'
<1> USE DEF Labels, Holding, Critical, At, Goto, bounds, osVars
<1>0. UNCHANGED <<raced, windows>> /\ (raced => raced')
  BY Zenon DEF Environment
<1>1. ASSUME NEW c \in Commands, Crash(c) PROVE IInv'
  <2>1. dead' = dead \cup {c} /\ orphans' \subseteq ours
    BY <1>1, Zenon DEF Crash, IInv, Types, ChildInv
  <2> QED
    BY <1>0, <1>1, <2>1 DEF Crash, IInv, Types, LockInv, ChildInv, PlaceInv, StopInv, OnlyOwn
<1>2. ASSUME NEW c \in Commands, NEW o \in {"start", "stop"}, Begin(c, o) PROVE IInv'
  <2>1. /\ \A d \in Commands : pc'[d] = IF d = c THEN "mkdir" ELSE pc[d]
        /\ \A d \in Commands : result'[d] = IF d = c THEN "none" ELSE result[d]
        /\ UNCHANGED <<osVars, record, lock, rec, orphans, dead, unreadable>>
    BY <1>2, Zenon DEF Begin, IInv, Types
  <2>2. Types'
    BY <1>2, Zenon DEF Begin, IInv, Types
  <2>3. LockInv' /\ ChildInv'
    BY <1>0, <2>1 DEF IInv, LockInv, ChildInv
  <2>4. PlaceInv' /\ OnlyOwn'
    BY <1>0, <2>1, Zenon DEF IInv, PlaceInv, OnlyOwn
  <2>5. StopInv'
    BY <1>0, <2>1, Zenon DEF IInv, StopInv
  <2> QED BY <2>2, <2>3, <2>4, <2>5, Zenon DEF IInv
<1>3. ASSUME NEW p \in Pids, Foreign(p) PROVE IInv'
  BY <1>0, <1>3, Newborn, Zenon DEF Foreign
<1>4. ASSUME NEW p \in Pids, Exit(p) \/ Bind(p) PROVE IInv'
  <2>1. /\ table' \in [Pids -> 0..born] /\ \A q \in Pids : table'[q] \in {0, table[q]}
        /\ serving' \in 0..born
        /\ UNCHANGED <<born, ours, record, lock, pc, op, rec, result, signalled, orphans, dead, unreadable>>
    BY <1>4, NumbersHold DEF Exit, Bind, Ends, Nobody, IInv, Types, Numbers
  <2>2. Types'
    BY <2>1, Zenon DEF IInv, Types
  <2>3. LockInv' /\ ChildInv' /\ OnlyOwn'
    BY <1>0, <2>1, Zenon DEF IInv, LockInv, ChildInv, OnlyOwn
  <2>4. PlaceInv'
    BY <2>1 DEF IInv, PlaceInv
  <2>5. StopInv'
    BY <1>0, <2>1, ZenonT(60) DEF IInv, StopInv
  <2> QED BY <2>2, <2>3, <2>4, <2>5, Zenon DEF IInv
<1>5. CASE LockAges
  <2>1. lock' = [lock EXCEPT !.old = TRUE]
    BY <1>5, Zenon DEF LockAges
  <2>2. /\ lock' \in [there : BOOLEAN, by : Commands \cup {NoCommand}, old : BOOLEAN]
        /\ lock'.there = lock.there /\ lock'.by = lock.by
    BY <2>1, Zenon DEF IInv, Types
  <2>3. Types'
    BY <1>5, <2>2, Zenon DEF LockAges, IInv, Types
  <2>4. LockInv'
    BY <1>0, <1>5, <2>2, Zenon DEF LockAges, IInv, LockInv
  <2>5. ChildInv' /\ PlaceInv' /\ OnlyOwn'
    BY <1>0, <1>5, Zenon DEF LockAges, IInv, ChildInv, PlaceInv, OnlyOwn
  <2>6. StopInv'
    BY <1>0, <1>5, Zenon DEF LockAges, IInv, StopInv
  <2> QED BY <2>3, <2>4, <2>5, <2>6, Zenon DEF IInv
<1> QED BY <1>1, <1>2, <1>3, <1>4, <1>5, Zenon DEF Environment

\* The invariant holds at the start.
LEMMA InitEstablishes == Init => IInv
<1> SUFFICES ASSUME Init PROVE IInv
  BY Zenon
<1> USE DEF Init, Nobody
<1>0. NoRecord \in [pid : Pids, at : {0}] /\ NoRecord.at = 0
  BY ProcessAssumption, Zenon DEF NoRecord
<1>1. lock \in [there : BOOLEAN, by : Commands \cup {NoCommand}, old : BOOLEAN]
  <2>1. /\ Free \in [there : BOOLEAN, by : {NoCommand}, old : BOOLEAN]
        /\ LeftBehind \in [there : BOOLEAN, by : {NoCommand}, old : BOOLEAN]
    BY Zenon DEF Free, LeftBehind
  <2> QED BY <2>1, Zenon
<1>2. Types
  BY <1>0, <1>1, NumbersHold DEF Types, Labels, Critical, Numbers
<1>3. LockInv /\ ChildInv
  BY Zenon DEF LockInv, ChildInv, Holding, Critical
<1>4. PlaceInv /\ StopInv
  BY Zenon DEF PlaceInv, StopInv
<1>5. OnlyOwn
  BY Zenon DEF OnlyOwn
<1> QED BY <1>2, <1>3, <1>4, <1>5, Zenon DEF IInv

\* The invariant is inductive.
LEMMA Inductive == IInv /\ [Next]_vars => IInv'
<1>1. ASSUME IInv, Next PROVE IInv'
  BY <1>1, ProgressKeeps, EnvironmentKeeps, Zenon DEF Next
<1>2. ASSUME IInv, UNCHANGED vars PROVE IInv'
  BY <1>2 DEF vars, IInv, Types, LockInv, ChildInv, PlaceInv, StopInv, OnlyOwn
<1> QED BY <1>1, <1>2, Zenon

\* The invariant holds in every reachable state.
LEMMA InvariantHolds == Spec => []IInv
BY InitEstablishes, Inductive, PTL DEF Spec

-----------------------------------------------------------------------------
\* Every variable keeps its type and nothing but an instance HardKAS started is
\* recorded (managed-process.ts: startManagedProcess, statusOf).
THEOREM TypeCorrect == Spec => []TypeOK
<1>1. IInv => TypeOK
  BY NumbersHold DEF IInv, Types, TypeOK, Labels, Instances, Nobody, Numbers
<1> QED BY <1>1, InvariantHolds, PTL

\* At most one live command is inside withLock, until a lock was broken that had
\* been taken since the left-over one was judged (withLock's rm of a stale lock).
THEOREM SerialisedHolds == Spec => []Serialised
<1>1. IInv => Serialised
  BY Zenon DEF IInv, LockInv, Serialised, Holding
<1> QED BY <1>1, InvariantHolds, PTL

\* On Windows nothing but a process HardKAS started is ever signalled
\* (terminateVerified's handle, killChild).
THEOREM OnlyOwnHolds == Spec => []OnlyOwn
<1>1. IInv => OnlyOwn
  BY Zenon DEF IInv
<1> QED BY <1>1, InvariantHolds, PTL

\* What a stop reported as stopped is gone and stays so, however PIDs are reused
\* (terminateVerified, waitGone).
THEOREM StoppedIsGoneHolds == Spec => []StoppedIsGone
<1>1. IInv => StoppedIsGone
  BY Zenon DEF IInv, StopInv, StoppedIsGone, Alive, Nobody
<1> QED BY <1>1, InvariantHolds, PTL

-----------------------------------------------------------------------------
\* No PID names instance i.
Absent(i) == \A p \in Pids : table[p] # 0 => table[p] # i

Unrecorded == {"spawned", "killChild", "record"}
Recorded == {"identify", "drop", "ready", "terminate", "sigterm", "wait", "lastWait", "force",
             "kill", "remove"}

\* What a live command inside withLock knows of the record: it is the one it works
\* on, or there is none; and it removes only that of a process that is gone.
PathInv ==
    \A c \in Commands \ dead :
        /\ pc[c] \in Recorded => rec[c] = record
        /\ pc[c] \in {"port", "spawn"} \cup Unrecorded => record.at = 0
        /\ pc[c] \in {"drop", "remove"} => Absent(rec[c].at) \/ rec[c].at \in misread

\* Tracked, with the instances of live starters spelled out.
KnownInv ==
    \A i \in ours :
        \/ i = record.at \/ i \in orphans \cup misread \/ Absent(i)
        \/ \E c \in Commands \ dead : pc[c] \in Unrecorded /\ rec[c].at = i

TrackInv == raced \/ (PathInv /\ KnownInv)

\* A live command inside withLock is the only one.
LEMMA Lone ==
    ASSUME IInv, ~raced, NEW c \in Commands \ dead, NEW d \in Commands \ dead,
           pc[c] \in Holding, pc[d] \in Holding
    PROVE  c = d
BY Zenon DEF IInv, LockInv

\* An instance that its PID does not name is gone.
LEMMA Vanished ==
    ASSUME IInv, NEW c \in Commands, ~isAlive(rec[c]) \/ table[rec[c].pid] # rec[c].at
    PROVE  Absent(rec[c].at)
BY Zenon DEF IInv, PlaceInv, isAlive, Absent, Nobody

\* An identity reading that does not find the recorded instance means that it is
\* gone, or it failed on a live process and is counted.
LEMMA OtherIsGone ==
    ASSUME IInv, NEW c \in Commands, NEW says, says # "same", Identity(rec[c], says)
    PROVE  unreadable' # unreadable \/ Absent(rec[c].at)
<1>1. unreadable \in Nat
  BY Zenon DEF IInv, Types
<1> QED BY <1>1, Vanished DEF Identity

\* A command moves on, and processes may end: it neither starts to work on a
\* record nor leaves an unrecorded child that lives.
LEMMA TrackMove ==
    ASSUME IInv, TrackInv, NEW c \in Commands \ dead, NEW l \in Labels,
           UNCHANGED <<ours, record, rec, dead>>, pc' = [pc EXCEPT ![c] = l],
           \A p \in Pids : table'[p] \in {0, table[p]},
           raced => raced', orphans \subseteq orphans', misread \subseteq misread',
           l \in Recorded => pc[c] \in Recorded,
           l \in {"port", "spawn"} \cup Unrecorded => pc[c] \in {"port", "spawn"} \cup Unrecorded,
           l \in {"drop", "remove"} => Absent(rec[c].at)' \/ rec[c].at \in misread',
           pc[c] \in Unrecorded /\ l \notin Unrecorded => Absent(rec[c].at)' \/ rec[c].at \in orphans'
    PROVE  TrackInv'
<1> SUFFICES ASSUME ~raced' PROVE PathInv' /\ KnownInv'
  BY Zenon DEF TrackInv
<1>1. PathInv /\ KnownInv
  BY Zenon DEF TrackInv
<1>2. \A d \in Commands : pc'[d] = IF d = c THEN l ELSE pc[d]
  BY Zenon DEF IInv, Types
<1>3. \A i : Absent(i) => Absent(i)'
  BY Zenon DEF Absent
<1>4. PathInv'
  <2> SUFFICES ASSUME NEW d \in Commands \ dead
               PROVE  /\ pc'[d] \in Recorded => rec[d] = record
                      /\ pc'[d] \in {"port", "spawn"} \cup Unrecorded => record.at = 0
                      /\ pc'[d] \in {"drop", "remove"} => Absent(rec[d].at)' \/ rec[d].at \in misread'
    BY Zenon DEF PathInv
  <2>1. CASE d = c
    BY <2>1, <1>1, <1>2, Zenon DEF PathInv
  <2>2. CASE d # c
    BY <2>2, <1>1, <1>2, <1>3, Zenon DEF PathInv
  <2> QED BY <2>1, <2>2, Zenon
<1>5. KnownInv'
  <2> SUFFICES ASSUME NEW i \in ours
               PROVE  \/ i = record.at \/ i \in orphans' \cup misread' \/ Absent(i)'
                      \/ \E d \in Commands \ dead : pc'[d] \in Unrecorded /\ rec[d].at = i
    BY Zenon DEF KnownInv
  <2>1. CASE i = record.at \/ i \in orphans \cup misread \/ Absent(i)
    BY <2>1, <1>3, Zenon
  <2>2. ASSUME NEW d \in Commands \ dead, pc[d] \in Unrecorded, rec[d].at = i
        PROVE  Absent(i)' \/ i \in orphans' \/ pc'[d] \in Unrecorded
    BY <2>2, <1>2, Zenon
  <2> QED BY <1>1, <2>1, <2>2, Zenon DEF KnownInv
<1> QED BY <1>4, <1>5, Zenon

\* The same when no process ends.
LEMMA TrackSilent ==
    ASSUME IInv, TrackInv, NEW c \in Commands \ dead, NEW l \in Labels,
           UNCHANGED <<table, ours, record, rec, dead>>, pc' = [pc EXCEPT ![c] = l],
           raced => raced', orphans \subseteq orphans', misread \subseteq misread',
           l \in Recorded => pc[c] \in Recorded,
           l \in {"port", "spawn"} \cup Unrecorded => pc[c] \in {"port", "spawn"} \cup Unrecorded,
           l \in {"drop", "remove"} => Absent(rec[c].at) \/ rec[c].at \in misread',
           pc[c] \in Unrecorded /\ l \notin Unrecorded => Absent(rec[c].at) \/ rec[c].at \in orphans'
    PROVE  TrackInv'
<1>1. \A p \in Pids : table'[p] \in {0, table[p]}
  BY Zenon
<1>2. Absent(rec[c].at) => Absent(rec[c].at)'
  BY Zenon DEF Absent
<1> QED BY <1>1, <1>2, TrackMove, Zenon

\* The steps of a command that look at no identity.
LEMMA TrackPlain ==
    ASSUME IInv, TrackInv, NEW c \in Commands, raced => raced', misread \subseteq misread',
           \/ Mkdir(c) \/ WriteOwner(c) \/ JudgeLeftOver(c) \/ BreakLock(c) \/ GiveUp(c)
           \/ Unlock(c) \/ CheckPort(c) \/ SpawnFails(c) \/ Ready(c) \/ NotReady(c) \/ Signal(c)
           \/ ForceGone(c) \/ HandleElse(c) \/ HandleFails(c)
    PROVE  TrackInv'
<1>1. /\ UNCHANGED <<table, ours, record, rec, orphans, dead>> /\ c \notin dead
  BY Zenon DEF Mkdir, WriteOwner, JudgeLeftOver, BreakLock, GiveUp, Unlock, CheckPort, SpawnFails, Ready,
     NotReady, Signal, ForceGone, HandleElse, HandleFails, At, osVars, bounds
<1>2. PICK l \in Labels :
        /\ pc' = [pc EXCEPT ![c] = l] /\ pc[c] \notin Unrecorded /\ l \notin Unrecorded
        /\ l \in Recorded => pc[c] \in Recorded
        /\ l \in {"port", "spawn"} => pc[c] \in {"port", "spawn"}
        /\ l \in {"drop", "remove"} => ~isAlive(rec[c]) \/ table[rec[c].pid] # rec[c].at
  <2> USE DEF At, Goto, Labels, Critical, Unrecorded, Recorded
  <2>1. CASE Mkdir(c)
    BY <2>1, SMTT(30) DEF Mkdir
  <2>2. CASE WriteOwner(c)
    BY <2>2, ZenonT(60) DEF WriteOwner
  <2>3. CASE JudgeLeftOver(c)
    BY <2>3 DEF JudgeLeftOver
  <2>4. CASE BreakLock(c)
    BY <2>4, SMTT(30) DEF BreakLock
  <2>5. CASE GiveUp(c)
    BY <2>5 DEF GiveUp
  <2>6. CASE Unlock(c)
    BY <2>6 DEF Unlock
  <2>7. CASE CheckPort(c)
    <3>1. pc[c] = "port" /\ \E l \in {"spawn", "unlock"} : pc' = [pc EXCEPT ![c] = l]
      BY <2>7, Zenon DEF CheckPort
    <3> QED BY <3>1, Zenon
  <2>8. CASE SpawnFails(c)
    BY <2>8, SMTT(30) DEF SpawnFails
  <2>9. CASE Ready(c)
    BY <2>9, SMTT(30) DEF Ready
  <2>10. CASE NotReady(c)
    <3>1. CASE isAlive(rec[c])
      BY <2>10, <3>1, SMTT(30) DEF NotReady
    <3>2. CASE ~isAlive(rec[c])
      BY <2>10, <3>2, Zenon DEF NotReady
    <3> QED BY <3>1, <3>2, Zenon
  <2>11. CASE Signal(c)
    <3>1. /\ pc[c] \in {"sigterm", "kill"}
          /\ \E l \in {"wait", "lastWait"} : pc' = [pc EXCEPT ![c] = l]
      BY <2>11, Zenon DEF Signal
    <3> QED BY <3>1, Zenon
  <2>12. CASE ForceGone(c)
    BY <2>12, Zenon DEF ForceGone
  <2>13. CASE HandleElse(c)
    BY <2>13, Zenon DEF HandleElse
  <2>14. CASE HandleFails(c)
    BY <2>14, SMTT(30) DEF HandleFails
  <2> QED BY <2>1, <2>2, <2>3, <2>4, <2>5, <2>6, <2>7, <2>8, <2>9, <2>10, <2>11, <2>12, <2>13, <2>14, Zenon
<1>3. l \in {"drop", "remove"} => Absent(rec[c].at)
  BY <1>2, Vanished, Zenon
<1> QED BY <1>1, <1>2, <1>3, TrackSilent, Zenon

\* The steps that read an identity: what leads to a removal found nothing there.
LEMMA TrackReading ==
    ASSUME IInv, TrackInv, NEW c \in Commands, raced => raced', misread \subseteq misread',
           unreadable' # unreadable /\ pc'[c] = "remove" => rec[c].at \in misread',
           \/ Identify(c) \/ IdentifyChild(c) \/ Terminate(c) \/ Gone(c) \/ StillThere(c)
           \/ CheckForced(c)
    PROVE  TrackInv'
<1>1. UNCHANGED <<table, ours, record, rec, orphans, dead>> /\ c \notin dead
  BY Zenon DEF Identify, IdentifyChild, Terminate, Gone, StillThere, CheckForced, At, osVars
<1>2. \E l \in Labels, says \in {"same", "other", "unreadable"} :
        /\ pc' = [pc EXCEPT ![c] = l]
        /\ l \in Recorded => pc[c] \in Recorded
        /\ l \in {"port", "spawn"} \cup Unrecorded => pc[c] \in Unrecorded
        /\ l \in {"drop", "remove"} => says # "same" /\ Identity(rec[c], says)
        /\ l = "drop" => says = "other"
        /\ pc[c] \in Unrecorded /\ l \notin Unrecorded => ~isAlive(rec[c])
  <2> USE DEF At, Goto, Labels, Critical, Unrecorded, Recorded
  <2>1. CASE Identify(c)
    BY <2>1, Zenon DEF Identify
  <2>2. CASE IdentifyChild(c)
    BY <2>2, Zenon DEF IdentifyChild
  <2>3. CASE Terminate(c)
    BY <2>3, Zenon DEF Terminate
  <2>4. CASE Gone(c)
    BY <2>4, Zenon DEF Gone
  <2>5. CASE StillThere(c)
    BY <2>5, Zenon DEF StillThere
  <2>6. CASE CheckForced(c)
    BY <2>6, Zenon DEF CheckForced
  <2> QED BY <2>1, <2>2, <2>3, <2>4, <2>5, <2>6, Zenon
<1>3. PICK l \in Labels, says \in {"same", "other", "unreadable"} : <1>2!(l, says)
  BY <1>2, Zenon
<1>4. pc'[c] = l
  BY <1>3, Zenon DEF IInv, Types
<1>5. l \in {"drop", "remove"} => Absent(rec[c].at) \/ rec[c].at \in misread'
  BY <1>3, <1>4, OtherIsGone, Vanished, Zenon DEF Identity
<1>6. pc[c] \in Unrecorded /\ l \notin Unrecorded => Absent(rec[c].at)
  BY <1>3, Vanished, Zenon
<1> QED BY <1>1, <1>3, <1>4, <1>5, <1>6, TrackSilent, Zenon

\* The steps that end a process: what they leave to be removed is gone.
LEMMA TrackKilling ==
    ASSUME IInv, TrackInv, NEW c \in Commands, raced => raced', misread \subseteq misread', KillChild(c) \/ HandleStopped(c)
    PROVE  TrackInv'
<1>0. table \in [Pids -> 0..born] /\ rec[c].pid \in Pids
  BY Zenon DEF IInv, Types
<1>1. /\ UNCHANGED <<ours, record, rec, orphans, dead>> /\ c \notin dead
  BY Zenon DEF KillChild, HandleStopped, Ends, At, bounds
<1>2. PICK l \in {"unlock", "remove"} :
        pc' = [pc EXCEPT ![c] = l] /\ (l = "remove" => pc[c] = "kill")
  BY Zenon DEF KillChild, HandleStopped, At, Goto
<1>3. (\A p \in Pids : table'[p] \in {0, table[p]}) /\ Absent(rec[c].at)'
  <2>1. CASE KillChild(c)
    BY <1>0, <1>1, <2>1, Zenon DEF KillChild, Absent, Nobody
  <2>2. CASE HandleStopped(c)
    <3>1. \A p \in Pids : table'[p] = IF p = rec[c].pid THEN 0 ELSE table[p]
      BY <1>0, <2>2, Zenon DEF HandleStopped, Ends, Nobody
    <3>2. \A p \in Pids : table[p] # 0 /\ table[p] = rec[c].at => p = rec[c].pid
      BY Zenon DEF IInv, PlaceInv
    <3> QED BY <1>1, <3>1, <3>2, Zenon DEF Absent
  <2> QED BY <2>1, <2>2, Zenon
<1>4. l \in Labels /\ l \notin {"port", "spawn"} \cup Unrecorded /\ (l \in Recorded => pc[c] \in Recorded)
  BY <1>2, Zenon DEF Labels, Critical, Unrecorded, Recorded
<1> QED BY <1>1, <1>2, <1>3, <1>4, TrackMove, Zenon

\* A throw leaves an unrecorded child as an orphan, and every record as it is.
LEMMA TrackThrow ==
    ASSUME IInv, TrackInv, NEW c \in Commands, raced => raced', misread \subseteq misread', Throws(c)
    PROVE  TrackInv'
<1>1. /\ UNCHANGED <<table, ours, record, rec, dead>> /\ c \notin dead
      /\ orphans' = orphans \cup (IF pc[c] \in {"spawned", "record"} THEN {rec[c].at} ELSE {})
  BY Zenon DEF Throws, At, osVars
<1>2. PICK l \in {"idle", "unlock"} :
        pc' = [pc EXCEPT ![c] = l] /\ (pc[c] \in Unrecorded => pc[c] \in {"spawned", "record"})
  BY Zenon DEF Throws, At, Goto, Unrecorded
<1>3. l \in Labels /\ l \notin {"port", "spawn", "drop", "remove"} \cup Unrecorded \cup Recorded
  BY <1>2, Zenon DEF Labels, Unrecorded, Recorded
<1> QED BY <1>1, <1>2, <1>3, TrackSilent, Zenon

\* process.json is read by the only command inside withLock.
LEMMA TrackRead ==
    ASSUME IInv, TrackInv, NEW c \in Commands, raced => raced', misread \subseteq misread', ReadRecord(c)
    PROVE  TrackInv'
<1> SUFFICES ASSUME ~raced' PROVE PathInv' /\ KnownInv'
  BY Zenon DEF TrackInv
<1>1. /\ UNCHANGED <<table, ours, record, orphans, dead>> /\ c \notin dead
      /\ pc[c] = "status" /\ rec' = [rec EXCEPT ![c] = record]
  BY Zenon DEF ReadRecord, At, osVars, bounds
<1>2. PathInv /\ KnownInv
  BY <1>1, Zenon DEF TrackInv
<1>3. PICK l \in {"port", "unlock", "identify", "drop"} :
        /\ pc' = [pc EXCEPT ![c] = l]
        /\ l = "port" => record = NoRecord
        /\ l = "drop" => table[record.pid] = 0
  BY Zenon DEF ReadRecord, Goto, isAlive, Nobody
<1>4. /\ \A d \in Commands : pc'[d] = IF d = c THEN l ELSE pc[d]
      /\ \A d \in Commands : rec'[d] = IF d = c THEN record ELSE rec[d]
  BY <1>1, <1>3, Zenon DEF IInv, Types
<1>5. l = "port" => record.at = 0
  BY <1>3 DEF NoRecord, Nobody
<1>6. l = "drop" => Absent(record.at)
  BY <1>3, Zenon DEF IInv, PlaceInv, Absent
<1>7. \A i : Absent(i) => Absent(i)'
  BY <1>1, Zenon DEF Absent
<1>8. PathInv'
  <2> SUFFICES ASSUME NEW d \in Commands \ dead
               PROVE  /\ pc'[d] \in Recorded => rec'[d] = record
                      /\ pc'[d] \in {"port", "spawn"} \cup Unrecorded => record.at = 0
                      /\ pc'[d] \in {"drop", "remove"} => Absent(rec[d].at)' \/ rec'[d].at \in misread'
    BY <1>1, Zenon DEF PathInv
  <2>1. CASE d = c
    BY <2>1, <1>3, <1>4, <1>5, <1>6, <1>7, Zenon DEF Unrecorded
  <2>2. CASE d # c
    BY <2>2, <1>2, <1>4, <1>7, Zenon DEF PathInv
  <2> QED BY <2>1, <2>2, Zenon
<1>9. KnownInv'
  <2>1. \A d \in Commands : pc[d] \in Unrecorded => pc'[d] = pc[d] /\ rec'[d] = rec[d]
    BY <1>1, <1>4, Zenon DEF Unrecorded
  <2> QED BY <1>1, <1>2, <1>7, <2>1, SMTT(30) DEF KnownInv
<1> QED BY <1>8, <1>9, Zenon

\* process.json is removed when its process is gone, and written when there is none.
LEMMA TrackWrite ==
    ASSUME IInv, TrackInv, NEW c \in Commands, raced => raced', misread \subseteq misread',
           DropRecord(c) \/ RemoveRecord(c) \/ WriteRecord(c)
    PROVE  TrackInv'
<1> SUFFICES ASSUME ~raced' PROVE PathInv' /\ KnownInv'
  BY Zenon DEF TrackInv
<1>1. /\ UNCHANGED <<table, ours, rec, orphans, dead>> /\ c \notin dead
  BY Zenon DEF DropRecord, RemoveRecord, WriteRecord, At, osVars, bounds
<1>2. PathInv /\ KnownInv /\ ~raced
  BY <1>1, Zenon DEF TrackInv
<1>3. PICK l \in {"port", "unlock", "ready"} :
        /\ pc' = [pc EXCEPT ![c] = l]
        /\ \/ pc[c] \in {"drop", "remove"} /\ record' = NoRecord /\ l # "ready"
           \/ pc[c] = "record" /\ record' = rec[c] /\ l = "ready"
  BY Zenon DEF DropRecord, RemoveRecord, WriteRecord, At, Goto
<1>4. \A d \in Commands : pc'[d] = IF d = c THEN l ELSE pc[d]
  BY <1>3, Zenon DEF IInv, Types
<1>5. pc[c] \in Holding
  BY <1>3, LabelFacts, Zenon
<1>6. \A d \in Commands \ dead : d # c => pc[d] \notin Recorded \cup {"port", "spawn"} \cup Unrecorded
  <2>1. \A d \in Commands \ dead : d # c => pc[d] \notin Holding
    BY <1>1, <1>2, <1>5, Lone, Zenon
  <2> QED BY <2>1, Zenon DEF Holding, Critical, Recorded, Unrecorded
<1>7. \A i : Absent(i) => Absent(i)'
  BY <1>1, Zenon DEF Absent
<1>8. PathInv'
  <2> SUFFICES ASSUME NEW d \in Commands \ dead
               PROVE  /\ pc'[d] \in Recorded => rec[d] = record'
                      /\ pc'[d] \in {"port", "spawn"} \cup Unrecorded => record'.at = 0
                      /\ pc'[d] \notin {"drop", "remove"}
    BY <1>1, Zenon DEF PathInv
  <2>1. CASE d = c
    <3>1. NoRecord.at = 0
      BY Zenon DEF NoRecord, Nobody
    <3> QED BY <2>1, <3>1, <1>3, <1>4, Zenon DEF Recorded, Unrecorded
  <2>2. CASE d # c
    BY <2>2, <1>4, <1>6, Zenon DEF Recorded
  <2> QED BY <2>1, <2>2, Zenon
<1>9. KnownInv'
  <2> SUFFICES ASSUME NEW i \in ours PROVE i = record'.at \/ i \in orphans \cup misread' \/ Absent(i)'
    BY <1>1, Zenon DEF KnownInv
  <2>1. i # 0
    BY DEF IInv, Types
  <2>2. CASE i \in orphans \cup misread \/ Absent(i)
    BY <2>2, <1>7, Zenon
  <2>3. CASE i = record.at
    <3>1. pc[c] \in {"drop", "remove"}
      BY <2>1, <2>3, <1>1, <1>2, <1>3, Zenon DEF PathInv, Unrecorded
    <3>2. rec[c] = record /\ (Absent(rec[c].at) \/ rec[c].at \in misread)
      BY <3>1, <1>1, <1>2, Zenon DEF PathInv, Recorded
    <3> QED BY <2>3, <3>2, <1>7, Zenon
  <2>4. ASSUME NEW d \in Commands \ dead, pc[d] \in Unrecorded, rec[d].at = i
        PROVE  i = record'.at
    BY <2>4, <1>3, <1>6, Zenon DEF Unrecorded
  <2> QED BY <1>2, <2>2, <2>3, <2>4, Zenon DEF KnownInv
<1> QED BY <1>8, <1>9, Zenon

\* A new instance is a foreign one, or its starter is alive and has not recorded it.
LEMMA TrackBorn ==
    ASSUME IInv, TrackInv, NEW p \in Pids, born' = born + 1,
           table' = [table EXCEPT ![p] = born'], UNCHANGED <<record, orphans, dead>>,
           raced => raced', misread \subseteq misread',
           \/ UNCHANGED <<ours, pc, rec>>
           \/ \E c \in Commands \ dead :
                /\ ours' = ours \cup {born'} /\ pc[c] = "spawn"
                /\ pc' = [pc EXCEPT ![c] = "spawned"]
                /\ rec' = [rec EXCEPT ![c] = [pid |-> p, at |-> born']]
    PROVE  TrackInv'
<1> SUFFICES ASSUME ~raced' PROVE PathInv' /\ KnownInv'
  BY Zenon DEF TrackInv
<1>1. PathInv /\ KnownInv
  BY Zenon DEF TrackInv
<1>2. /\ born \in Nat /\ born' # 0 /\ born' \notin ours
      /\ \A q \in Pids : table'[q] = IF q = p THEN born' ELSE table[q]
      /\ \A d \in Commands : rec[d].at \in {0} \cup ours
  BY NumbersHold, SMTT(30) DEF IInv, Types, Numbers
<1>3. \A i : i # born' /\ Absent(i) => Absent(i)'
  BY <1>2, Zenon DEF Absent
<1>4. CASE UNCHANGED <<ours, pc, rec>>
  <2>1. PathInv'
    BY <1>1, <1>2, <1>3, <1>4, Zenon DEF PathInv
  <2>2. KnownInv'
    BY <1>1, <1>2, <1>3, <1>4, Zenon DEF KnownInv
  <2> QED BY <2>1, <2>2, Zenon
<1>5. ASSUME NEW c \in Commands \ dead, ours' = ours \cup {born'}, pc[c] = "spawn",
             pc' = [pc EXCEPT ![c] = "spawned"], rec' = [rec EXCEPT ![c] = [pid |-> p, at |-> born']]
      PROVE  PathInv' /\ KnownInv'
  <2>1. /\ \A d \in Commands : pc'[d] = IF d = c THEN "spawned" ELSE pc[d]
        /\ \A d \in Commands : d # c => rec'[d] = rec[d]
        /\ rec'[c].at = born'
    BY <1>5, Zenon DEF IInv, Types
  <2>2. PathInv'
    <3> SUFFICES ASSUME NEW d \in Commands \ dead
                 PROVE  /\ pc'[d] \in Recorded => rec'[d] = record
                        /\ pc'[d] \in {"port", "spawn"} \cup Unrecorded => record.at = 0
                        /\ pc'[d] \in {"drop", "remove"} => Absent(rec[d].at)' \/ rec'[d].at \in misread'
      BY Zenon DEF PathInv
    <3>1. CASE d = c
      BY <3>1, <1>1, <1>5, <2>1, SMTT(30) DEF PathInv, Recorded
    <3>2. CASE d # c
      <4>1. rec'[d] = rec[d] /\ pc'[d] = pc[d] /\ rec[d].at # born'
        BY <3>2, <1>2, <2>1, Zenon
      <4> QED BY <4>1, <1>1, <1>3, Zenon DEF PathInv
    <3> QED BY <3>1, <3>2, Zenon
  <2>3. KnownInv'
    <3> SUFFICES ASSUME NEW i \in ours'
                 PROVE  \/ i = record.at \/ i \in orphans \cup misread' \/ Absent(i)'
                        \/ \E d \in Commands \ dead : pc'[d] \in Unrecorded /\ rec'[d].at = i
      BY Zenon DEF KnownInv
    <3>1. CASE i = born'
      BY <3>1, <2>1, Zenon DEF Unrecorded
    <3>2. CASE i # born'
      <4>1. i \in ours
        BY <3>2, <1>5, Zenon
      <4>2. \A d \in Commands \ dead : pc[d] \in Unrecorded => pc'[d] = pc[d] /\ rec'[d] = rec[d]
        BY <1>5, <2>1, Zenon DEF Unrecorded
      <4> QED BY <3>2, <4>1, <4>2, <1>1, <1>3, Zenon DEF KnownInv
    <3> QED BY <3>1, <3>2, Zenon
  <2> QED BY <2>2, <2>3, Zenon
<1> QED BY <1>4, <1>5, Zenon

\* Every step of a command keeps track of what was started.
LEMMA TrackStep ==
    ASSUME IInv, TrackInv, NEW c \in Commands, Step(c)
    PROVE  TrackInv'
<1>1. /\ Progress(c) /\ (raced => raced') /\ misread \subseteq misread'
      /\ unreadable' # unreadable /\ pc'[c] = "remove" => rec[c].at \in misread'
  BY Zenon DEF Step
<1>2. ASSUME NEW p \in Pids, Spawn(c, p) PROVE TrackInv'
  BY <1>1, <1>2, TrackBorn, Zenon DEF Spawn, At, Goto, bounds
<1> QED
  BY <1>1, <1>2, TrackPlain, TrackReading, TrackKilling, TrackThrow, TrackRead, TrackWrite,
     Zenon DEF Progress

\* So do crashes, which leave an orphan, and the operating system.
LEMMA TrackEnvironment ==
    ASSUME IInv, TrackInv, Environment \/ UNCHANGED vars
    PROVE  TrackInv'
<1>0. (raced => raced') /\ misread' = misread
  <2>1. CASE Environment
    BY <2>1, Zenon DEF Environment
  <2>2. CASE UNCHANGED vars
    BY <2>2, Zenon DEF vars
  <2> QED BY <2>1, <2>2, Zenon
<1>1. ASSUME NEW c \in Commands, Crash(c) PROVE TrackInv'
  <2> SUFFICES ASSUME ~raced' PROVE PathInv' /\ KnownInv'
    BY Zenon DEF TrackInv
  <2>1. /\ dead' = dead \cup {c} /\ orphans \subseteq orphans'
        /\ pc[c] \in Unrecorded => rec[c].at \in orphans'
        /\ UNCHANGED <<table, ours, record, pc, rec>>
    BY <1>1, Zenon DEF Crash, osVars, Unrecorded
  <2>2. PathInv /\ KnownInv
    BY <1>0, <2>1, Zenon DEF TrackInv
  <2>3. PathInv'
    BY <1>0, <2>1, <2>2, Zenon DEF PathInv, Absent
  <2>4. KnownInv'
    BY <1>0, <2>1, <2>2, Zenon DEF KnownInv, Absent
  <2> QED BY <2>3, <2>4, Zenon
<1>2. ASSUME NEW c \in Commands, NEW o \in {"start", "stop"}, Begin(c, o) PROVE TrackInv'
  <2>1. /\ pc' = [pc EXCEPT ![c] = "mkdir"] /\ pc[c] = "idle" /\ c \notin dead
        /\ UNCHANGED <<table, ours, record, rec, orphans, dead>>
    BY <1>2, Zenon DEF Begin, At, Goto, osVars
  <2> QED BY <1>0, <2>1, LabelFacts, TrackSilent, Zenon DEF Recorded, Unrecorded
<1>3. ASSUME NEW p \in Pids, Foreign(p) PROVE TrackInv'
  BY <1>0, <1>3, TrackBorn, Zenon DEF Foreign, bounds
<1>4. ASSUME UNCHANGED <<ours, record, pc, rec, orphans, dead>>,
             \A p \in Pids : table'[p] \in {0, table[p]}
      PROVE  TrackInv'
  <2>1. \A i : Absent(i) => Absent(i)'
    BY <1>4, Zenon DEF Absent
  <2> QED BY <1>0, <1>4, <2>1, Zenon DEF TrackInv, PathInv, KnownInv
<1>5. ASSUME NEW p \in Pids, Exit(p) \/ Bind(p) PROVE TrackInv'
  <2>1. \A q \in Pids : table'[q] \in {0, table[q]}
    BY <1>5, Zenon DEF Exit, Bind, Ends, Nobody, IInv, Types
  <2> QED BY <1>4, <1>5, <2>1, Zenon DEF Exit, Bind, Ends, bounds
<1>6. CASE LockAges \/ UNCHANGED vars
  BY <1>4, <1>6, Zenon DEF LockAges, osVars, bounds, vars
<1> QED BY <1>1, <1>2, <1>3, <1>5, <1>6, Zenon DEF Environment

\* A process HardKAS started is recorded for as long as it lives, or its starter
\* still holds it, but for the three ways to lose it that Tracked names: no other
\* removal of a record (statusOf, terminateVerified, waitGone), no throw and no
\* death of a command forgets a process that runs.
THEOREM TrackedHolds == Spec => []Tracked
<1>1. Init => TrackInv
  BY Zenon DEF Init, TrackInv, PathInv, KnownInv, Recorded, Unrecorded
<1>2. IInv /\ TrackInv /\ [Next]_vars => TrackInv'
  BY TrackStep, TrackEnvironment, Zenon DEF Next
<1>3. ASSUME IInv, TrackInv PROVE Tracked
  <2> SUFFICES ASSUME NEW i \in ours, ~raced, Alive(i)
               PROVE  i = record.at \/ i \in orphans \cup misread \cup Starting
    BY Zenon DEF Tracked
  <2>1. ~Absent(i)
    BY Zenon DEF Alive, Absent, Nobody
  <2>2. ASSUME NEW c \in Commands \ dead, pc[c] \in Unrecorded, rec[c].at = i PROVE i \in Starting
    BY <2>2, Zenon DEF Starting, Unrecorded
  <2> QED BY <1>3, <2>1, <2>2, Zenon DEF TrackInv, KnownInv
<1>4. IInv /\ TrackInv => Tracked
  BY <1>3, Zenon
<1> QED BY InvariantHolds, <1>1, <1>2, <1>4, PTL DEF Spec

=============================================================================
