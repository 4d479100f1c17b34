-------------------------- MODULE SyncDaemonProofs --------------------------
(***************************************************************************)
(* The sync daemon and its jobs, for any set of jobs, any number of runs,   *)
(* items, retries, callers and faults.                                      *)
(*                                                                         *)
(* The inductive invariant has three parts.  Work: the cursor of every run, *)
(* and the checkpoint of every record a run has read, name only items that  *)
(* were done, so no run can store a checkpoint it has not earned.  Own: a   *)
(* job that was not found unfinished while it had a live run has at most    *)
(* one, and what that run holds is what the file holds, or ahead of it;     *)
(* between the two halves of resumePendingJobs such a job has no run at     *)
(* all.  Scores: a score is processed in memory before it is saved, and     *)
(* resumed before it is processed.                                         *)
(***************************************************************************)
EXTENDS SyncDaemon, NonceManager, TLAPS

RunRecord == [pc : {"idle", "called", "read", "running", "catch"}, rec : Record \cup {None},
              cursor : 0..Items, tries : Nat]

Types ==
    /\ file \in [Jobs -> Record \cup {None}] /\ run \in [Jobs -> [Runs -> RunRecord]]
    /\ found \subseteq Jobs /\ torn \in Nat

Covered(d, j, k) == \A i \in 1..k : <<j, i>> \in d

RecordCovered(d, j, rec) ==
    rec # None => /\ Covered(d, j, rec.checkpoint)
                  /\ rec.status = "completed" => Covered(d, j, Items)

RunCovered(d, j, r) ==
    /\ Covered(d, j, r.cursor)
    /\ r.pc = "read" => r.rec # None /\ Covered(d, j, r.rec.checkpoint)

Work == \A j \in Jobs : /\ RecordCovered(done, j, file[j])
                        /\ \A n \in Runs : RunCovered(done, j, run[j][n])

InStep(r, rec) ==
    r.pc # "idle" /\ rec # None =>
        /\ rec.status \in {"pending", "running", "retrying"}
        /\ r.pc = "read" => r.rec = rec
        /\ r.pc \in {"running", "catch"} => rec.checkpoint <= r.cursor

Own == \A j \in Jobs : \/ j \in doubled
                       \/ \A n \in Runs :
                             /\ InStep(run[j][n], file[j])
                             /\ run[j][n].pc # "idle" => \A m \in Runs \ {n} : run[j][m].pc = "idle"

Fresh == \A j \in Jobs \ queued : /\ file[j] = None /\ j \notin found
                                  /\ \A n \in Runs : run[j][n].pc = "idle"

Awaiting == \A j \in found : \/ j \in doubled
                             \/ /\ \A n \in Runs : run[j][n].pc = "idle"
                                /\ file[j] # None => file[j].status \in {"pending", "running", "retrying"}

JobInv == Types /\ Work /\ Own /\ Fresh /\ Awaiting

\* What RecordAdvances and NotRedone say of one step.
Advances ==
    \A j \in Jobs : file[j] # None =>
        \/ torn' # torn \/ j \in doubled
        \/ /\ file'[j] # None
           /\ file'[j].checkpoint >= file[j].checkpoint
           /\ file[j].status \in {"completed", "failed"} => file'[j].status = file[j].status

Redoes ==
    \A j \in Jobs, n \in Runs :
        run'[j][n].cursor > run[j][n].cursor /\ run[j][n].pc = "running" /\ file[j] # None =>
            file[j].checkpoint < run'[j][n].cursor \/ j \in doubled

Good == JobInv' /\ Advances /\ Redoes

-----------------------------------------------------------------------------
\* An idle run, and what the assumption on the constants gives.
LEMMA IdleFacts ==
    /\ Idle \in RunRecord /\ Idle.pc = "idle" /\ Idle.cursor = 0 /\ Idle.rec = None
    /\ Items \in Nat /\ MaxRetries \in Nat /\ None \notin Record
BY JobRunnerAssumption DEF Idle, RunRecord

\* A live run n of job j stores r and goes on as x: enough for the step to keep
\* the invariant.
LEMMA Moved ==
    ASSUME JobInv, NEW j \in Jobs, NEW n \in Runs, run[j][n].pc # "idle",
           NEW r \in Record \cup {None}, NEW x \in RunRecord,
           file' = [file EXCEPT ![j] = r], run' = [run EXCEPT ![j][n] = x],
           done \subseteq done', doubled' = doubled, queued' = queued, found' = found, torn' = torn,
           RecordCovered(done', j, r), RunCovered(done', j, x),
           j \in doubled \/ InStep(x, r),
           file[j] # None => r # None /\ (j \in doubled \/ r.checkpoint >= file[j].checkpoint)
    PROVE  Good
<1>1. Types'
  BY Zenon DEF JobInv, Types
<1>2. /\ \A i \in Jobs : file'[i] = IF i = j THEN r ELSE file[i]
      /\ \A i \in Jobs, m \in Runs : run'[i][m] = IF i = j /\ m = n THEN x ELSE run[i][m]
  BY Zenon DEF JobInv, Types
<1>3. Work'
  <2> SUFFICES ASSUME NEW i \in Jobs
               PROVE  RecordCovered(done', i, file'[i]) /\ \A m \in Runs : RunCovered(done', i, run'[i][m])
    BY Zenon DEF Work
  <2>1. RecordCovered(done', i, file'[i])
    <3>1. CASE i = j
      BY <3>1, <1>2, Zenon DEF RecordCovered, Covered
    <3>2. CASE i # j
      BY <3>2, <1>2, Zenon DEF JobInv, Work, RecordCovered, Covered
    <3> QED BY <3>1, <3>2, Zenon
  <2>2. ASSUME NEW m \in Runs PROVE RunCovered(done', i, run'[i][m])
    <3>1. CASE i = j /\ m = n
      BY <3>1, <1>2 DEF RunCovered, Covered
    <3>2. CASE ~(i = j /\ m = n)
      BY <3>2, <1>2 DEF JobInv, Work, RunCovered, Covered
    <3> QED BY <3>1, <3>2, Zenon
  <2> QED BY <2>1, <2>2, Zenon
<1>4. Own'
  <2> SUFFICES ASSUME NEW i \in Jobs, i \notin doubled, NEW m \in Runs
               PROVE  /\ InStep(run'[i][m], file'[i])
                      /\ run'[i][m].pc # "idle" => \A l \in Runs \ {m} : run'[i][l].pc = "idle"
    BY Zenon DEF Own, InStep
  <2>1. CASE i = j
    BY <2>1, <1>2 DEF JobInv, Own, InStep
  <2>2. CASE i # j
    BY <2>2, <1>2 DEF JobInv, Own
  <2> QED BY <2>1, <2>2, Zenon
<1>5. Fresh' /\ Awaiting'
  <2>1. Fresh'
    BY <1>2 DEF JobInv, Fresh
  <2>2. ASSUME NEW i \in found, i \notin doubled
        PROVE  /\ \A m \in Runs : run'[i][m].pc = "idle"
               /\ file'[i] # None => file'[i].status \in {"pending", "running", "retrying"}
    <3>1. i \in Jobs /\ i # j
      BY <2>2, Zenon DEF JobInv, Types, Awaiting
    <3>2. file'[i] = file[i] /\ \A m \in Runs : run'[i][m] = run[i][m]
      BY <3>1, <1>2
    <3> QED BY <2>2, <3>2, Zenon DEF JobInv, Awaiting
  <2> QED BY <2>1, <2>2, Zenon DEF Awaiting
<1>6. Advances
  <2> SUFFICES ASSUME NEW i \in Jobs, file[i] # None, i \notin doubled
               PROVE  /\ file'[i] # None
                      /\ file'[i].checkpoint >= file[i].checkpoint
                      /\ file[i].status \in {"completed", "failed"} => file'[i].status = file[i].status
    BY Zenon DEF Advances
  <2>1. CASE i = j
    BY <2>1, <1>2, Zenon DEF JobInv, Own, InStep
  <2>2. CASE i # j
    <3>1. file[i].checkpoint \in Int
      BY DEF JobInv, Types, Record
    <3> QED BY <2>2, <3>1, <1>2
  <2> QED BY <2>1, <2>2, Zenon
<1>7. Redoes
  <2> SUFFICES ASSUME NEW i \in Jobs, NEW m \in Runs, file[i] # None, i \notin doubled,
                      run'[i][m].cursor > run[i][m].cursor, run[i][m].pc = "running"
               PROVE  file[i].checkpoint < run'[i][m].cursor
    BY Zenon DEF Redoes
  <2>1. file[i].checkpoint <= run[i][m].cursor
    BY Zenon DEF JobInv, Own, InStep
  <2>2. {file[i].checkpoint, run[i][m].cursor, run'[i][m].cursor} \subseteq Int
    BY <1>1 DEF JobInv, Types, Record, RunRecord
  <2> QED BY <2>1, <2>2
<1> QED BY <1>1, <1>3, <1>4, <1>5, <1>6, <1>7, Zenon DEF JobInv, Good

\* The file is cut short: nothing is left to be out of step with.
LEMMA CutShort ==
    ASSUME JobInv, file' = [j \in Jobs |-> None], torn' = torn + 1, run' \in [Jobs -> [Runs -> RunRecord]],
           done' = done, queued' = queued, found' \subseteq found,
           \A j \in Jobs \ doubled' :
               \/ \A n \in Runs : run'[j][n].pc = "idle"
               \/ /\ j \notin doubled
                  /\ \A n \in Runs : run'[j][n].pc = "idle" <=> run[j][n].pc = "idle",
           \A j \in Jobs, n \in Runs :
               /\ run[j][n].pc = "idle" => run'[j][n].pc = "idle"
               /\ run'[j][n].cursor <= run[j][n].cursor
               /\ RunCovered(done, j, run'[j][n])
    PROVE  Good
<1>1. \A j \in Jobs : file'[j] = None
  BY Zenon
<1>2. torn' # torn /\ torn' \in Nat
  BY DEF JobInv, Types
<1>3. Types'
  BY <1>2, Zenon DEF JobInv, Types
<1>4. Work'
  BY <1>1, Zenon DEF Work, RecordCovered
<1>5. Own'
  <2> SUFFICES ASSUME NEW j \in Jobs, j \notin doubled', NEW n \in Runs
               PROVE  run'[j][n].pc # "idle" => \A m \in Runs \ {n} : run'[j][m].pc = "idle"
    BY <1>1, Zenon DEF Own, InStep
  <2> QED BY Zenon DEF JobInv, Own
<1>6. Fresh'
  BY <1>1, Zenon DEF JobInv, Fresh
<1>7. Awaiting'
  <2> SUFFICES ASSUME NEW j \in found', j \notin doubled' PROVE \A n \in Runs : run'[j][n].pc = "idle"
    BY <1>1, <1>3, Zenon DEF Awaiting, Types
  <2> QED BY Zenon DEF JobInv, Types, Awaiting
<1>8. Advances
  BY <1>2, Zenon DEF Advances
<1>9. Redoes
  <2> SUFFICES ASSUME NEW j \in Jobs, NEW m \in Runs PROVE ~(run'[j][m].cursor > run[j][m].cursor)
    BY Zenon DEF Redoes
  <2>1. {run'[j][m].cursor, run[j][m].cursor} \subseteq Int
    BY <1>3 DEF JobInv, Types, RunRecord
  <2> QED BY <2>1
<1> QED BY <1>3, <1>4, <1>5, <1>6, <1>7, <1>8, <1>9, Zenon DEF JobInv, Good

\* A live run n of job j cannot store what it meant to, and goes on as x.
LEMMA Unstored ==
    ASSUME JobInv, NEW j \in Jobs, NEW n \in Runs, run[j][n].pc # "idle", WriteFails,
           NEW x \in RunRecord, run' = [run EXCEPT ![j][n] = x],
           done' = done, doubled' = doubled, queued' = queued, found' = found,
           RunCovered(done, j, x), x.cursor <= run[j][n].cursor,
           x.pc # "idle" => j \in doubled \/ InStep(x, file[j])
    PROVE  Good
<1>1. /\ file \in [Jobs -> Record \cup {None}] /\ run \in [Jobs -> [Runs -> RunRecord]]
      /\ RecordCovered(done, j, file[j])
  BY Zenon DEF JobInv, Types, Work
<1>2. CASE UNCHANGED <<file, torn>>
  <2>1. file' = [file EXCEPT ![j] = file[j]] /\ file[j] \in Record \cup {None}
    BY <1>1, <1>2, Zenon
  <2>2. file[j] # None => file[j].checkpoint >= file[j].checkpoint
    BY <2>1 DEF Record
  <2>3. j \in doubled \/ InStep(x, file[j])
    BY Zenon DEF InStep
  <2> QED BY <1>1, <1>2, <2>1, <2>2, <2>3, Moved, Zenon
<1>3. CASE file' = [i \in Jobs |-> None] /\ torn' = torn + 1
  <2>1. /\ run' \in [Jobs -> [Runs -> RunRecord]]
        /\ \A i \in Jobs, m \in Runs : run'[i][m] = IF i = j /\ m = n THEN x ELSE run[i][m]
    BY <1>1, Zenon
  <2>2. ASSUME NEW i \in Jobs, NEW m \in Runs
        PROVE  /\ run[i][m].pc = "idle" => run'[i][m].pc = "idle"
               /\ run'[i][m].cursor <= run[i][m].cursor
               /\ RunCovered(done, i, run'[i][m])
    <3>1. CASE i = j /\ m = n
      BY <3>1, <2>1, Zenon
    <3>2. CASE ~(i = j /\ m = n)
      <4>1. run'[i][m] = run[i][m] /\ RunCovered(done, i, run[i][m])
        BY <3>2, <2>1, Zenon DEF JobInv, Work
      <4>2. run[i][m].cursor \in Int
        BY <1>1 DEF RunRecord
      <4> QED BY <4>1, <4>2
    <3> QED BY <3>1, <3>2, Zenon
  <2>3. ASSUME NEW i \in Jobs \ doubled
        PROVE  \/ \A m \in Runs : run'[i][m].pc = "idle"
               \/ \A m \in Runs : run'[i][m].pc = "idle" <=> run[i][m].pc = "idle"
    <3>1. CASE i = j
      <4>1. \A m \in Runs \ {n} : run[j][m].pc = "idle"
        BY <2>3, <3>1, Zenon DEF JobInv, Own
      <4> QED BY <3>1, <4>1, <2>1, Zenon
    <3>2. CASE i # j
      BY <3>2, <2>1, Zenon
    <3> QED BY <3>1, <3>2, Zenon
  <2> QED BY <1>3, <2>1, <2>2, <2>3, CutShort, Zenon
<1> QED BY <1>2, <1>3, Zenon DEF WriteFails

\* Every step of a run is such a move.
LEMMA RunMoves ==
    ASSUME JobInv, faults \in Nat, NEW j \in Jobs, NEW n \in Runs,
           RunStep(j, n) \/ ItemFails(j, n) \/ Commit(j, n)
    PROVE  Good
<1> DEFINE q == run[j][n]
<1>0. /\ q \in RunRecord /\ file[j] \in Record \cup {None}
      /\ file = [file EXCEPT ![j] = file[j]] /\ run = [run EXCEPT ![j][n] = q]
      /\ RunCovered(done, j, q) /\ RecordCovered(done, j, file[j])
      /\ j \in doubled \/ InStep(q, file[j])
  BY Zenon DEF JobInv, Types, Work, Own
<1> HIDE DEF q
<1>1. CASE RunJob(j, n)
  <2> DEFINE x == IF file[j] = None THEN Idle ELSE [Idle EXCEPT !.pc = "read", !.rec = file[j]]
  <2>1. /\ file' = [file EXCEPT ![j] = file[j]] /\ run' = [run EXCEPT ![j][n] = x]
        /\ done' = done /\ doubled' = doubled /\ queued' = queued /\ found' = found /\ torn' = torn /\ q.pc = "called"
    BY <1>0, <1>1, Zenon DEF RunJob, q
  <2>2. x \in RunRecord /\ x.cursor = 0 /\ x.pc \in {"idle", "read"}
           /\ (x.pc = "read" => x.rec = file[j] /\ x.rec # None)
    BY <1>0, IdleFacts, Zenon DEF RunRecord, Idle
  <2> HIDE DEF x
  <2>3. /\ RecordCovered(done', j, file[j]) /\ RunCovered(done', j, x)
        /\ InStep(x, file[j]) \/ j \in doubled
        /\ file[j] # None => file[j].checkpoint >= file[j].checkpoint
    BY <1>0, <2>1, <2>2 DEF RecordCovered, RunCovered, Covered, InStep, Record
  <2> QED BY <2>1, <2>2, <2>3, <1>0, Moved, Zenon DEF q
<1>2. CASE Begin(j, n) /\ ~WriteFails /\ registered
  <2> DEFINE r == [q.rec EXCEPT !.status = IF q.rec.attempts > 0 THEN "retrying" ELSE "running",
                                !.attempts = @ + 1]
             x == [Idle EXCEPT !.pc = "running", !.cursor = q.rec.checkpoint]
  <2>1. /\ file' = [file EXCEPT ![j] = r] /\ run' = [run EXCEPT ![j][n] = x]
        /\ done' = done /\ doubled' = doubled /\ queued' = queued /\ found' = found /\ torn' = torn /\ q.pc = "read"
    BY <1>2, Zenon DEF Begin, Save, q
  <2>2. q.rec \in Record /\ Covered(done, j, q.rec.checkpoint)
    BY <1>0, <2>1, Zenon DEF RunCovered, RunRecord
  <2>3. r \in Record /\ r.checkpoint = q.rec.checkpoint /\ r.status \in {"retrying", "running"}
    <3>1. q.rec.attempts + 1 \in Nat /\ q.rec.attempts \in Nat
      BY <2>2 DEF Record
    <3>2. ASSUME NEW t \in {"retrying", "running"}
          PROVE  LET z == [q.rec EXCEPT !.status = t, !.attempts = q.rec.attempts + 1]
                 IN  z \in Record /\ z.checkpoint = q.rec.checkpoint /\ z.status = t
      BY <2>2, <3>1, Zenon DEF Record
    <3> QED BY <3>2, Zenon
  <2>5. x \in RunRecord /\ x.pc = "running" /\ x.cursor = q.rec.checkpoint
    BY <2>2, IdleFacts, Zenon DEF Record, RunRecord, Idle
  <2> HIDE DEF r, x
  <2>4. /\ RecordCovered(done', j, r) /\ RunCovered(done', j, x)
        /\ InStep(x, r) /\ r # None
        /\ j \in doubled \/ file[j] = None \/ r.checkpoint >= file[j].checkpoint
    BY <1>0, <2>1, <2>2, <2>3, <2>5, IdleFacts DEF RecordCovered, RunCovered, InStep, Record
  <2> QED BY <2>1, <2>3, <2>4, <2>5, <1>0, Moved, Zenon DEF q
<1>3. CASE Begin(j, n) /\ ~WriteFails /\ ~registered
  <2> DEFINE r == [q.rec EXCEPT !.status = "failed"]
  <2>1. /\ file' = [file EXCEPT ![j] = r] /\ run' = [run EXCEPT ![j][n] = Idle]
        /\ done' = done /\ doubled' = doubled /\ queued' = queued /\ found' = found /\ torn' = torn /\ q.pc = "read"
    BY <1>3, Zenon DEF Begin, Save, q
  <2>2. q.rec \in Record /\ Covered(done, j, q.rec.checkpoint)
    BY <1>0, <2>1, Zenon DEF RunCovered, RunRecord
  <2>3. r \in Record /\ r.checkpoint = q.rec.checkpoint /\ r.status = "failed"
    BY <2>2, Zenon DEF Record
  <2> HIDE DEF r
  <2>4. /\ RecordCovered(done', j, r) /\ RunCovered(done', j, Idle)
        /\ InStep(Idle, r) /\ r # None
        /\ j \in doubled \/ file[j] = None \/ r.checkpoint >= file[j].checkpoint
    BY <1>0, <2>1, <2>2, <2>3, IdleFacts DEF RecordCovered, RunCovered, Covered, InStep, Record
  <2> QED BY <2>1, <2>3, <2>4, <1>0, IdleFacts, Moved, Zenon DEF q
<1>4. CASE Item(j, n)
  <2> DEFINE x == [q EXCEPT !.cursor = q.cursor + 1, !.tries = 0]
  <2>1. /\ file' = [file EXCEPT ![j] = file[j]] /\ run' = [run EXCEPT ![j][n] = x]
        /\ doubled' = doubled /\ queued' = queued /\ found' = found /\ torn' = torn
        /\ q.pc = "running" /\ q.cursor < Items
    BY <1>0, <1>4, Zenon DEF Item, q, JobInv, Types
  <2>2. x \in RunRecord /\ x.pc = "running" /\ x.cursor = q.cursor + 1
    <3>1. q.cursor + 1 \in 0..Items /\ 0 \in Nat
      BY <1>0, <2>1, IdleFacts DEF RunRecord
    <3> QED BY <1>0, <2>1, <3>1, Zenon DEF RunRecord
  <2> HIDE DEF x
  <2>3. done' = done \cup {<<j, q.cursor + 1>>}
    BY <1>4, Zenon DEF Item, q
  <2>4. /\ RecordCovered(done', j, file[j]) /\ RunCovered(done', j, x)
        /\ InStep(x, file[j]) \/ j \in doubled
        /\ file[j] # None => file[j].checkpoint >= file[j].checkpoint
    BY <1>0, <2>1, <2>2, <2>3, IdleFacts DEF RecordCovered, RunCovered, Covered, InStep, Record,
       RunRecord
  <2> QED BY <2>1, <2>2, <2>3, <2>4, <1>0, Moved, Zenon DEF q
<1>5. CASE ItemFails(j, n) /\ q.tries < MaxRetries
  <2> DEFINE x == [q EXCEPT !.tries = @ + 1]
  <2>1. /\ file' = [file EXCEPT ![j] = file[j]] /\ run' = [run EXCEPT ![j][n] = x]
        /\ done' = done /\ doubled' = doubled /\ queued' = queued /\ found' = found /\ torn' = torn /\ q.pc = "running"
    BY <1>0, <1>5, Zenon DEF ItemFails, q, JobInv, Types
  <2>2. x \in RunRecord /\ x.pc = "running" /\ x.cursor = q.cursor
    BY <1>0, <2>1 DEF RunRecord
  <2> HIDE DEF x
  <2>3. /\ RecordCovered(done', j, file[j]) /\ RunCovered(done', j, x)
        /\ InStep(x, file[j]) \/ j \in doubled
        /\ file[j] # None => file[j].checkpoint >= file[j].checkpoint
    BY <1>0, <2>1, <2>2 DEF RecordCovered, RunCovered, InStep, Record
  <2> QED BY <2>1, <2>2, <2>3, <1>0, Moved, Zenon DEF q
<1>6. CASE ItemFails(j, n) /\ ~(q.tries < MaxRetries)
  <2> DEFINE x == [q EXCEPT !.pc = "catch"]
  <2>1. /\ file' = [file EXCEPT ![j] = file[j]] /\ run' = [run EXCEPT ![j][n] = x]
        /\ done' = done /\ doubled' = doubled /\ queued' = queued /\ found' = found /\ torn' = torn
        /\ q.pc = "running"
    BY <1>0, <1>6, Zenon DEF ItemFails, q
  <2>2. x \in RunRecord /\ x.pc = "catch" /\ x.cursor = q.cursor
    BY <1>0, Zenon DEF RunRecord
  <2> HIDE DEF x
  <2>3. /\ RecordCovered(done', j, file[j]) /\ RunCovered(done', j, x)
        /\ InStep(x, file[j]) \/ j \in doubled
        /\ file[j] # None => file[j].checkpoint >= file[j].checkpoint
    BY <1>0, <2>1, <2>2 DEF RecordCovered, RunCovered, InStep, Record
  <2> QED BY <2>1, <2>2, <2>3, <1>0, Moved, Zenon DEF q
<1>7. CASE Commit(j, n) /\ ~WriteFails
  <2> DEFINE r == IF file[j] = None THEN None ELSE [file[j] EXCEPT !.checkpoint = q.cursor]
  <2>1. /\ file' = [file EXCEPT ![j] = r] /\ run' = [run EXCEPT ![j][n] = q]
        /\ done' = done /\ doubled' = doubled /\ queued' = queued /\ found' = found /\ torn' = torn /\ q.pc = "running"
    BY <1>0, <1>7, Zenon DEF Commit, Update, UpdateFails, q
  <2>2. /\ r \in Record \cup {None} /\ (r = None <=> file[j] = None)
        /\ r # None => r.checkpoint = q.cursor /\ r.status = file[j].status
    BY <1>0, IdleFacts, ZenonT(60) DEF Record, RunRecord
  <2> HIDE DEF r
  <2>3. /\ RecordCovered(done', j, r) /\ RunCovered(done', j, q)
        /\ InStep(q, r) \/ j \in doubled
        /\ j \in doubled \/ file[j] = None \/ r.checkpoint >= file[j].checkpoint
    BY <1>0, <2>1, <2>2, IdleFacts DEF RecordCovered, RunCovered, InStep, Record, RunRecord
  <2> QED BY <2>1, <2>2, <2>3, <1>0, Moved, Zenon DEF q
<1>8. CASE Complete(j, n) /\ ~WriteFails
  <2> DEFINE r == IF file[j] = None THEN None
                  ELSE [file[j] EXCEPT !.status = "completed", !.checkpoint = Items]
  <2>1. /\ file' = [file EXCEPT ![j] = r] /\ run' = [run EXCEPT ![j][n] = Idle]
        /\ done' = done /\ doubled' = doubled /\ queued' = queued /\ found' = found /\ torn' = torn
        /\ q.pc = "running" /\ q.cursor = Items
    BY <1>0, <1>8, Zenon DEF Complete, Update, UpdateFails, q
  <2>2. /\ r \in Record \cup {None} /\ (r = None <=> file[j] = None)
        /\ r # None => r.checkpoint = Items
    <3>1. Items \in 0..Items
      BY IdleFacts
    <3>2. CASE file[j] \in Record
      <4>1. /\ [file[j] EXCEPT !.status = "completed", !.checkpoint = Items] \in Record
            /\ [file[j] EXCEPT !.status = "completed", !.checkpoint = Items].checkpoint = Items
        BY <3>1, <3>2, Zenon DEF Record
      <4> QED BY <3>2, <4>1, IdleFacts, Zenon
    <3>3. CASE file[j] = None
      BY <3>3, Zenon
    <3> QED BY <1>0, <3>2, <3>3, Zenon
  <2> HIDE DEF r
  <2>3. /\ RecordCovered(done', j, r) /\ RunCovered(done', j, Idle) /\ InStep(Idle, r)
        /\ j \in doubled \/ file[j] = None \/ r.checkpoint >= file[j].checkpoint
    BY <1>0, <2>1, <2>2, IdleFacts DEF RecordCovered, RunCovered, Covered, InStep, Record, RunRecord
  <2> QED BY <2>1, <2>2, <2>3, <1>0, IdleFacts, Moved, Zenon DEF q
<1>9. CASE Catch(j, n) /\ ~WriteFails
  <2> DEFINE r == IF file[j] = None THEN None
                  ELSE [file[j] EXCEPT !.status = "failed", !.checkpoint = q.cursor]
  <2>1. /\ file' = [file EXCEPT ![j] = r] /\ run' = [run EXCEPT ![j][n] = Idle]
        /\ done' = done /\ doubled' = doubled /\ queued' = queued /\ found' = found /\ torn' = torn /\ q.pc = "catch"
    BY <1>0, <1>9, Zenon DEF Catch, Update, UpdateFails, q
  <2>2. /\ r \in Record \cup {None} /\ (r = None <=> file[j] = None)
        /\ r # None => r.checkpoint = q.cursor /\ r.status = "failed"
    BY <1>0, IdleFacts, ZenonT(60) DEF Record, RunRecord
  <2> HIDE DEF r
  <2>3. /\ RecordCovered(done', j, r) /\ RunCovered(done', j, Idle) /\ InStep(Idle, r)
        /\ j \in doubled \/ file[j] = None \/ r.checkpoint >= file[j].checkpoint
    BY <1>0, <2>1, <2>2, IdleFacts DEF RecordCovered, RunCovered, Covered, InStep, Record, RunRecord
  <2> QED BY <2>1, <2>2, <2>3, <1>0, IdleFacts, Moved, Zenon DEF q
<1>10. ASSUME WriteFails, Begin(j, n) \/ Commit(j, n) \/ Complete(j, n) \/ Catch(j, n)
       PROVE  Good
  <2> DEFINE x == [q EXCEPT !.pc = "catch"]
  <2>1. x \in RunRecord /\ x.pc = "catch" /\ x.cursor = q.cursor
    BY <1>0, Zenon DEF RunRecord
  <2> HIDE DEF x
  <2>2. /\ done' = done /\ doubled' = doubled /\ queued' = queued /\ found' = found /\ q.pc # "idle"
        /\ \/ run' = [run EXCEPT ![j][n] = Idle]
           \/ run' = [run EXCEPT ![j][n] = q]
           \/ run' = [run EXCEPT ![j][n] = x] /\ q.pc = "running"
    <3>0. faults' # faults
      BY <1>10 DEF WriteFails
    <3>1. CASE Begin(j, n)
      BY <3>0, <3>1, Zenon DEF Begin, Save, q
    <3>2. CASE Commit(j, n)
      BY <1>0, <3>0, <3>2, Zenon DEF Commit, Update, q, x
    <3>3. CASE Complete(j, n)
      BY <3>0, <3>3, Zenon DEF Complete, Update, q, x
    <3>4. CASE Catch(j, n)
      BY <3>4, Zenon DEF Catch, q
    <3> QED BY <1>10, <3>1, <3>2, <3>3, <3>4, Zenon
  <2>3. q.cursor \in 0..Items /\ q.cursor <= q.cursor /\ 0 <= q.cursor
    BY <1>0, IdleFacts DEF RunRecord
  <2>4. CASE run' = [run EXCEPT ![j][n] = Idle]
    <3>1. RunCovered(done, j, Idle)
      BY IdleFacts DEF RunCovered, Covered
    <3> QED BY <1>10, <2>2, <2>3, <2>4, <3>1, IdleFacts, Unstored, Zenon DEF q
  <2>5. CASE run' = [run EXCEPT ![j][n] = q]
    BY <1>0, <1>10, <2>2, <2>3, <2>5, Unstored, Zenon DEF q
  <2>6. CASE run' = [run EXCEPT ![j][n] = x] /\ q.pc = "running"
    <3>1. RunCovered(done, j, x) /\ (j \in doubled \/ InStep(x, file[j]))
      BY <1>0, <2>1, <2>6, Zenon DEF RunCovered, InStep
    <3> QED BY <1>10, <2>1, <2>2, <2>3, <2>6, <3>1, Unstored, Zenon DEF q
  <2> QED BY <2>2, <2>4, <2>5, <2>6, Zenon
<1> QED
  BY <1>1, <1>2, <1>3, <1>4, <1>5, <1>6, <1>7, <1>8, <1>9, <1>10, Zenon DEF RunStep

\* A step that leaves the jobs alone.
LEMMA NoJobStep ==
    ASSUME JobInv, file' = file, run' = run, done' = done, doubled' = doubled, queued' = queued,
           found' = found, torn' = torn
    PROVE  Good
<1>1. JobInv'
  BY Zenon DEF JobInv, Types, Work, Own, Fresh, Awaiting
<1>2. Advances
  <2> SUFFICES ASSUME NEW j \in Jobs, file[j] # None PROVE file[j].checkpoint >= file[j].checkpoint
    BY Zenon DEF Advances
  <2> QED BY DEF JobInv, Types, Record
<1>3. Redoes
  <2> SUFFICES ASSUME NEW j \in Jobs, NEW n \in Runs PROVE ~(run[j][n].cursor > run[j][n].cursor)
    BY Zenon DEF Redoes
  <2> QED BY DEF JobInv, Types, RunRecord
<1> QED BY <1>1, <1>2, <1>3, Zenon DEF Good

\* A new job has a fresh record and its first run.
LEMMA EnqueueGood ==
    ASSUME JobInv, NEW j \in Jobs, Enqueue(j)
    PROVE  Good
<1> DEFINE r == [status |-> "pending", attempts |-> 0, checkpoint |-> 0]
           x == [Idle EXCEPT !.pc = "called"]
<1>1. r \in Record /\ r.checkpoint = 0 /\ r.status = "pending" /\ r # None
  <2>1. r \in Record /\ r.checkpoint = 0 /\ r.status = "pending"
    BY IdleFacts DEF Record
  <2> QED BY <2>1, IdleFacts, Zenon
<1>2. x \in RunRecord /\ x.pc = "called" /\ x.cursor = 0
  BY IdleFacts, Zenon DEF RunRecord, Idle
<1> HIDE DEF r, x
<1>3. ASSUME file' = [file EXCEPT ![j] = r], torn' = torn, run' = [run EXCEPT ![j][Slot(j)] = x],
             done' = done, doubled' = doubled, queued' = queued \cup {j}, j \notin queued, found' = found
      PROVE  Good
  <2>4. file[j] = None /\ j \notin found /\ \A n \in Runs : run[j][n].pc = "idle"
    BY <1>3, Zenon DEF JobInv, Fresh
  <2>5. Types'
    BY <1>1, <1>2, <1>3, Zenon DEF JobInv, Types
  <2>6. /\ \A i \in Jobs : file'[i] = IF i = j THEN r ELSE file[i]
        /\ \A i \in Jobs, m \in Runs : run'[i][m] = IF i = j /\ m = Slot(j) THEN x ELSE run[i][m]
    BY <1>3, Zenon DEF JobInv, Types
  <2>7. Work'
    BY <1>1, <1>2, <1>3, <2>6 DEF JobInv, Work, RecordCovered, RunCovered, Covered
  <2>8. Own'
    <3> SUFFICES ASSUME NEW i \in Jobs, i \notin doubled, NEW m \in Runs
                 PROVE  /\ InStep(run'[i][m], file'[i])
                        /\ run'[i][m].pc # "idle" => \A l \in Runs \ {m} : run'[i][l].pc = "idle"
      BY <1>3, Zenon DEF Own, InStep
    <3>1. CASE i = j
      BY <3>1, <1>1, <1>2, <2>4, <2>6, ZenonT(60) DEF InStep
    <3>2. CASE i # j
      BY <3>2, <2>6 DEF JobInv, Own
    <3> QED BY <3>1, <3>2, Zenon
  <2>9. Fresh' /\ Awaiting'
    <3>1. Fresh'
      BY <1>3, <2>6 DEF JobInv, Fresh
    <3>2. Awaiting'
      <4> SUFFICES ASSUME NEW i \in found, i \notin doubled
                   PROVE  /\ \A m \in Runs : run'[i][m].pc = "idle"
                          /\ file'[i] # None => file'[i].status \in {"pending", "running", "retrying"}
        BY <1>3, Zenon DEF Awaiting
      <4>1. i \in Jobs /\ i # j
        BY <2>4, Zenon DEF JobInv, Types
      <4>2. file'[i] = file[i] /\ \A m \in Runs : run'[i][m] = run[i][m]
        BY <4>1, <2>6, Zenon
      <4> QED BY <4>2, Zenon DEF JobInv, Awaiting
    <3> QED BY <3>1, <3>2, Zenon
  <2>10. Advances
    <3> SUFFICES ASSUME NEW i \in Jobs, file[i] # None
                 PROVE  file'[i] = file[i] /\ file[i].checkpoint >= file[i].checkpoint
      BY Zenon DEF Advances
    <3> QED BY <2>4, <2>6 DEF JobInv, Types, Record
  <2>11. Redoes
    BY <1>2, <2>4, <2>6 DEF Redoes, JobInv, Types, RunRecord
  <2> QED BY <2>5, <2>7, <2>8, <2>9, <2>10, <2>11, Zenon DEF JobInv, Good
<1>4. CASE WriteFails /\ UNCHANGED <<queued, run>>
  <2>1. UNCHANGED <<found, done, doubled>>
    BY Zenon DEF Enqueue
  <2>2. CASE UNCHANGED <<file, torn>>
    BY <1>4, <2>1, <2>2, NoJobStep, Zenon
  <2>3. CASE file' = [i \in Jobs |-> None] /\ torn' = torn + 1
    <3>1. ASSUME NEW i \in Jobs, NEW m \in Runs
          PROVE  run[i][m].cursor <= run[i][m].cursor /\ RunCovered(done, i, run[i][m])
      BY DEF JobInv, Types, Work, RunRecord
    <3> QED BY <1>4, <2>1, <2>3, <3>1, CutShort, Zenon DEF JobInv, Types
  <2> QED BY <1>4, <2>2, <2>3, Zenon DEF WriteFails
<1> QED BY <1>3, <1>4, Zenon DEF Enqueue, Save, r, x

\* resumePendingJobs reads the file: a job it finds has no run, or becomes a
\* member of doubled.
LEMMA FindGood ==
    ASSUME JobInv, ResumePendingJobs
    PROVE  Good
<1>1. /\ UNCHANGED <<file, run, done, queued, torn>>
      /\ found' = {j \in Jobs : Unfinished(j)}
      /\ doubled' = {j \in doubled \cup found' : Live(j) # {}}
  BY Zenon DEF ResumePendingJobs
<1>2. Types' /\ Work'
  BY <1>1, Zenon DEF JobInv, Types, Work
<1>3. ASSUME NEW j \in Jobs, j \notin doubled', j \in doubled \/ j \in found'
      PROVE  \A n \in Runs : run[j][n].pc = "idle"
  BY <1>1, <1>3, Zenon DEF Live
<1>4. Own'
  <2> SUFFICES ASSUME NEW j \in Jobs, j \notin doubled', NEW n \in Runs
               PROVE  /\ InStep(run[j][n], file[j])
                      /\ run[j][n].pc # "idle" => \A m \in Runs \ {n} : run[j][m].pc = "idle"
    BY <1>1, Zenon DEF Own
  <2>1. CASE j \in doubled
    BY <2>1, <1>3, Zenon DEF InStep
  <2>2. CASE j \notin doubled
    BY <2>2, Zenon DEF JobInv, Own
  <2> QED BY <2>1, <2>2, Zenon
<1>5. Fresh' /\ Awaiting'
  <2>1. Fresh'
    BY <1>1, Zenon DEF JobInv, Fresh, Unfinished
  <2>2. Awaiting'
    BY <1>1, <1>3, Zenon DEF Awaiting, Unfinished
  <2> QED BY <2>1, <2>2, Zenon
<1>6. Advances
  <2> SUFFICES ASSUME NEW j \in Jobs, file[j] # None PROVE file[j].checkpoint >= file[j].checkpoint
    BY <1>1, Zenon DEF Advances
  <2> QED BY DEF JobInv, Types, Record
<1>7. Redoes
  <2> SUFFICES ASSUME NEW j \in Jobs, NEW n \in Runs PROVE ~(run[j][n].cursor > run[j][n].cursor)
    BY <1>1, Zenon DEF Redoes
  <2> QED BY DEF JobInv, Types, RunRecord
<1> QED BY <1>2, <1>4, <1>5, <1>6, <1>7, Zenon DEF JobInv, Good

\* After the await: a job it found, and that is not doubled, had no run until now
\* and gets one that holds its record.
LEMMA ResumeGood ==
    ASSUME JobInv, StartRuns
    PROVE  Good
<1> DEFINE new == {j \in found : file[j] # None /\ Slots(j) # {}}
           x(j) == [Idle EXCEPT !.pc = "read", !.rec = file[j]]
<1>1. ASSUME NEW j \in Jobs, j \in new
      PROVE  /\ file[j] # None /\ j \in found
             /\ x(j) \in RunRecord /\ x(j).pc = "read" /\ x(j).cursor = 0 /\ x(j).rec = file[j]
  <2>1. file[j] \in Record
    BY <1>1, Zenon DEF JobInv, Types
  <2> QED BY <1>1, <2>1, IdleFacts, Zenon DEF RunRecord, Idle
<1> HIDE DEF x
<1>2. /\ run' = [j \in Jobs |-> IF j \in new THEN [run[j] EXCEPT ![Slot(j)] = x(j)] ELSE run[j]]
      /\ found' = {} /\ UNCHANGED <<file, done, queued, torn, doubled>>
  BY Zenon DEF StartRuns, x
<1> HIDE DEF new
<1>3. \A j \in Jobs, m \in Runs :
        run'[j][m] = IF j \in new /\ m = Slot(j) THEN x(j) ELSE run[j][m]
  BY <1>2, Zenon DEF JobInv, Types
<1>4. Types'
  BY <1>1, <1>2, Zenon DEF JobInv, Types
<1>5. Work'
  BY <1>1, <1>2, <1>3 DEF JobInv, Work, RecordCovered, RunCovered, Covered
<1>6. Own'
  <2> SUFFICES ASSUME NEW j \in Jobs, j \notin doubled, NEW m \in Runs
               PROVE  /\ InStep(run'[j][m], file[j])
                      /\ run'[j][m].pc # "idle" => \A l \in Runs \ {m} : run'[j][l].pc = "idle"
    <3>1. file' = file /\ doubled' = doubled
      BY <1>2, Zenon
    <3> QED BY <3>1, Zenon DEF Own
  <2>1. CASE j \notin new
    BY <2>1, <1>2, <1>3, ZenonT(60) DEF JobInv, Own
  <2>2. CASE j \in new
    <3>1. /\ \A l \in Runs : run[j][l].pc = "idle"
          /\ file[j].status \in {"pending", "running", "retrying"}
      BY <2>2, <1>1, Zenon DEF JobInv, Awaiting
    <3> QED BY <2>2, <3>1, <1>1, <1>3 DEF InStep
  <2> QED BY <2>1, <2>2, Zenon
<1>7. Fresh' /\ Awaiting'
  BY <1>1, <1>2, <1>3, Zenon DEF JobInv, Fresh, Awaiting
<1>8. Advances
  <2> SUFFICES ASSUME NEW j \in Jobs, file[j] # None PROVE file[j].checkpoint >= file[j].checkpoint
    BY <1>2, Zenon DEF Advances
  <2> QED BY DEF JobInv, Types, Record
<1>9. Redoes
  <2> SUFFICES ASSUME NEW j \in Jobs, NEW m \in Runs PROVE ~(run'[j][m].cursor > run[j][m].cursor)
    BY Zenon DEF Redoes
  <2>1. run[j][m].cursor \in 0..Items
    BY Zenon DEF JobInv, Types, RunRecord
  <2> QED BY <2>1, <1>1, <1>3, IdleFacts
<1> QED BY <1>4, <1>5, <1>6, <1>7, <1>8, <1>9, Zenon DEF JobInv, Good

\* A crash ends all runs and may cut the file short.
LEMMA CrashGood ==
    ASSUME JobInv, JobCrash
    PROVE  Good
<1>1. /\ run' = [j \in Jobs |-> [n \in Runs |-> Idle]]
      /\ done' = done /\ queued' = queued /\ doubled' = {} /\ found' = {}
      /\ UNCHANGED <<file, torn>> \/ (file' = [j \in Jobs |-> None] /\ torn' = torn + 1)
  BY Zenon DEF JobCrash, WriteFails
<1>2. /\ run' \in [Jobs -> [Runs -> RunRecord]]
      /\ \A j \in Jobs, n \in Runs : run'[j][n] = Idle /\ run'[j][n].pc = "idle"
  BY <1>1, IdleFacts, Zenon
<1>3. ASSUME NEW j \in Jobs, NEW n \in Runs
      PROVE  run'[j][n].cursor <= run[j][n].cursor /\ RunCovered(done, j, run'[j][n])
  BY <1>2, IdleFacts DEF JobInv, Types, RunRecord, RunCovered, Covered
<1>4. CASE file' = [j \in Jobs |-> None] /\ torn' = torn + 1
  BY <1>1, <1>2, <1>3, <1>4, CutShort, Zenon
<1>5. CASE UNCHANGED <<file, torn>>
  <2>1. Types' /\ Work'
    BY <1>1, <1>2, <1>3, <1>5, Zenon DEF JobInv, Types, Work
  <2>2. Own' /\ Fresh' /\ Awaiting'
    BY <1>1, <1>2, <1>5, Zenon DEF JobInv, Own, Fresh, Awaiting, InStep
  <2>3. Advances
    <3> SUFFICES ASSUME NEW j \in Jobs, file[j] # None PROVE file[j].checkpoint >= file[j].checkpoint
      BY <1>5, Zenon DEF Advances
    <3> QED BY DEF JobInv, Types, Record
  <2>4. Redoes
    <3> SUFFICES ASSUME NEW j \in Jobs, NEW m \in Runs PROVE ~(run'[j][m].cursor > run[j][m].cursor)
      BY Zenon DEF Redoes
    <3> QED BY <1>2, IdleFacts DEF JobInv, Types, RunRecord
  <2> QED BY <2>1, <2>2, <2>3, <2>4, Zenon DEF JobInv, Good
<1> QED BY <1>1, <1>4, <1>5, Zenon

-----------------------------------------------------------------------------
(* The loop *)
ScoreTypes ==
    /\ {score, saved, lastProcessedBlueScore, target, resumed} \subseteq Nat
    /\ {saved, lastProcessedBlueScore, target, resumed} \subseteq 0..score

ControlTypes ==
    /\ pc \in {"off", "poll", "resume", "start", "save", "wait", "exit", "ended"}
    /\ stop \in [Callers -> {"idle", "waiting", "resolved"}]
    /\ shutdownResolver \in Callers \cup {None}
    /\ pc \notin {"off", "ended"} => isRunning
    /\ isRunning => up
    /\ pc = "ended" => up

Scores ==
    /\ saved <= resumed /\ lastProcessedBlueScore <= resumed
    /\ up => saved <= lastProcessedBlueScore
    /\ pc \in {"resume", "start", "save"} => lastProcessedBlueScore < target
    /\ pc = "save" => target = resumed

LoopInv == ScoreTypes /\ ControlTypes /\ Scores

IInv == JobInv /\ LoopInv /\ faults \in Nat

\* A step that does not touch the loop.
LEMMA LoopStays ==
    ASSUME LoopInv, UNCHANGED <<up, loop, control>>
    PROVE  LoopInv'
BY Zenon DEF LoopInv, ScoreTypes, ControlTypes, Scores, loop, control

\* Every step keeps the invariant of the poll loop.
LEMMA LoopInductive ==
    ASSUME LoopInv, [Next]_vars
    PROVE  LoopInv'
<1> USE DEF LoopInv
<1>1. CASE JobStep /\ UNCHANGED <<loop, control>>
  <2>1. up' = up
    <3>1. RegisterHandler => up' = up
      BY Zenon DEF RegisterHandler
    <3>2. ASSUME NEW j \in Jobs PROVE Enqueue(j) => up' = up
      BY Zenon DEF Enqueue
    <3>3. ASSUME NEW j \in Jobs, NEW n \in Runs PROVE RunStep(j, n) => up' = up
      BY Zenon DEF RunStep, RunJob, Begin, Item, Complete, Catch
    <3>4. ASSUME NEW j \in Jobs, NEW n \in Runs PROVE ItemFails(j, n) \/ Commit(j, n) => up' = up
      BY Zenon DEF ItemFails, Commit
    <3> QED BY <1>1, <3>1, <3>2, <3>3, <3>4, Zenon DEF JobStep
  <2> QED BY <1>1, <2>1, LoopStays, Zenon
<1>2. CASE Poll
  <2>1. /\ UNCHANGED <<up, score, lastProcessedBlueScore, saved, resumed, control>> /\ pc = "poll"
        /\ \/ pc' \in {"exit", "wait"} /\ target' = target
           \/ pc' = "resume" /\ target' = score /\ lastProcessedBlueScore < score
    BY <1>2, Zenon DEF Poll, Step, ScoreTypes
  <2>2. ScoreTypes' /\ Scores'
    BY <2>1 DEF ScoreTypes, Scores
  <2>3. ControlTypes'
    BY <2>1, Zenon DEF ControlTypes, control
  <2> QED BY <2>2, <2>3, Zenon
<1>0. CASE FindJobs
  BY <1>0, Zenon DEF FindJobs, Step, control, ScoreTypes, ControlTypes, Scores
<1>3. CASE Resume
  BY <1>3 DEF Resume, Step, control, ScoreTypes, ControlTypes, Scores
<1>4. CASE SaveCheckpoint
  BY <1>4 DEF SaveCheckpoint, Step, control, ScoreTypes, ControlTypes, Scores
<1>5. CASE Wake
  BY <1>5, Zenon DEF Wake, Step, control, ScoreTypes, ControlTypes, Scores
<1>6. CASE Exit
  BY <1>6 DEF Exit, ScoreTypes, ControlTypes, Scores
<1>7. CASE CycleFails
  BY <1>7 DEF CycleFails, Step, control, ScoreTypes, ControlTypes, Scores
<1>8. CASE NewBlock
  BY <1>8 DEF NewBlock, control, ScoreTypes, ControlTypes, Scores
<1>9. CASE Start
  BY <1>9, Zenon DEF Start, ScoreTypes, ControlTypes, Scores
<1>10. CASE Crash
  BY <1>10 DEF Crash, JobCrash, ScoreTypes, ControlTypes, Scores
<1>11. CASE Restart
  BY <1>11 DEF Restart, control, ScoreTypes, ControlTypes, Scores
<1>12. ASSUME NEW c \in Callers, Stop(c) PROVE LoopInv'
  BY <1>12, Zenon DEF Stop, loop, ScoreTypes, ControlTypes, Scores
<1>13. ASSUME NEW c \in Callers, StopReturns(c) PROVE LoopInv'
  BY <1>13, Zenon DEF StopReturns, loop, ScoreTypes, ControlTypes, Scores
<1>14. CASE UNCHANGED vars
  BY <1>14, LoopStays, Zenon DEF vars
<1> QED
  BY <1>0, <1>1, <1>2, <1>3, <1>4, <1>5, <1>6, <1>7, <1>8, <1>9, <1>10, <1>11, <1>12, <1>13, <1>14,
     Zenon DEF Next, LoopStep

\* Every step keeps the invariant of the jobs and advances their records.
LEMMA JobsInductive ==
    ASSUME JobInv, faults \in Nat, [Next]_vars
    PROVE  Good
<1>1. CASE JobStep
  <2>1. CASE RegisterHandler
    BY <2>1, NoJobStep, Zenon DEF RegisterHandler
  <2>2. CASE \E j \in Jobs : Enqueue(j)
    BY <2>2, EnqueueGood, Zenon
  <2>3. CASE \E j \in Jobs, n \in Runs : RunStep(j, n) \/ ItemFails(j, n) \/ Commit(j, n)
    BY <2>3, RunMoves, Zenon
  <2> QED BY <1>1, <2>1, <2>2, <2>3, Zenon DEF JobStep
<1>0. CASE FindJobs
  BY <1>0, FindGood, Zenon DEF FindJobs
<1>2. CASE Resume
  BY <1>2, ResumeGood, Zenon DEF Resume
<1>3. CASE Crash
  BY <1>3, CrashGood, Zenon DEF Crash
<1>4. CASE UNCHANGED jobVars
  BY <1>4, NoJobStep, Zenon DEF jobVars
<1>5. CASE Poll \/ SaveCheckpoint \/ Wake \/ Exit \/ CycleFails \/ NewBlock \/ Start \/ Restart
  BY <1>4, <1>5, Zenon DEF Poll, SaveCheckpoint, Wake, Exit, CycleFails, NewBlock, Start, Restart
<1>6. CASE \E c \in Callers : Stop(c) \/ StopReturns(c)
  BY <1>4, <1>6, Zenon DEF Stop, StopReturns
<1>7. CASE UNCHANGED vars
  BY <1>4, <1>7, Zenon DEF vars
<1> QED BY <1>0, <1>1, <1>2, <1>3, <1>5, <1>6, <1>7, Zenon DEF Next, LoopStep

\* The faults are counted.
LEMMA FaultsCounted ==
    ASSUME faults \in Nat, [Next]_vars
    PROVE  faults' \in Nat
<1>1. WriteFails => faults' = faults + 1
  BY Zenon DEF WriteFails
<1>2. JobStep => faults' = faults \/ faults' = faults + 1
  BY <1>1, ZenonT(60) DEF JobStep, RegisterHandler, Enqueue, RunStep, RunJob, Begin, Item, Complete, Catch,
     ItemFails, Commit, Save, Update, UpdateFails
<1>3. LoopStep \/ CycleFails => faults' = faults \/ faults' = faults + 1
  BY ZenonT(60) DEF LoopStep, Poll, FindJobs, Resume, SaveCheckpoint, Wake, Exit, CycleFails
<1>4. NewBlock \/ Start \/ Crash \/ Restart => faults' = faults \/ faults' = faults + 1
  BY <1>1, Zenon DEF NewBlock, Start, Crash, JobCrash, Restart
<1>5. (\E c \in Callers : Stop(c) \/ StopReturns(c)) \/ UNCHANGED vars => faults' = faults
  BY Zenon DEF Stop, StopReturns, vars
<1>6. faults' = faults \/ faults' = faults + 1
  BY <1>2, <1>3, <1>4, <1>5, Zenon DEF Next
<1> QED BY <1>6

\* The invariant holds at the start.
LEMMA InitEstablishes == Init => IInv
<1> SUFFICES ASSUME Init PROVE IInv
  BY Zenon
<1>1. Types
  BY IdleFacts, Zenon DEF Init, JobInit, Types
<1>2. Work /\ Own /\ Fresh /\ Awaiting
  BY IdleFacts DEF Init, JobInit, Work, Own, Fresh, Awaiting, RecordCovered, RunCovered, Covered, InStep
<1>3. LoopInv /\ faults \in Nat
  BY DEF Init, JobInit, LoopInv, ScoreTypes, ControlTypes, Scores
<1> QED BY <1>1, <1>2, <1>3, Zenon DEF IInv, JobInv

\* The invariant is inductive.
LEMMA Inductive ==
    ASSUME IInv, [Next]_vars
    PROVE  IInv'
BY JobsInductive, LoopInductive, FaultsCounted, Zenon DEF IInv, Good

\* The invariant holds in every reachable state.
LEMMA InvariantHolds == Spec => []IInv
BY InitEstablishes, Inductive, PTL DEF Spec

-----------------------------------------------------------------------------
\* Every variable keeps its type, no score is ahead of the node's, and the daemon
\* says it is running as long as its loop is (daemon.ts: start, stop, pollLoop).
THEOREM TypeCorrect == Spec => []TypeOK
<1>1. IInv => TypeOK
  BY Zenon DEF IInv, JobInv, LoopInv, Types, ScoreTypes, ControlTypes, RunRecord, TypeOK
<1> QED BY <1>1, InvariantHolds, PTL

\* No checkpoint of jobs.json names an item that was not done, and no job is
\* completed before all of its items are, for any number of runs at once
\* (runJob, the handler's cursor, the timer of job-checkpoint.ts).
THEOREM CheckpointCoveredHolds == Spec => []CheckpointCovered
<1>1. IInv => CheckpointCovered
  <2> SUFFICES ASSUME IInv, NEW j \in Jobs, file[j] # None
               PROVE  /\ (1..file[j].checkpoint) \subseteq {i \in 1..Items : <<j, i>> \in done}
                      /\ file[j].status = "completed" => \A i \in 1..Items : <<j, i>> \in done
    BY Zenon DEF CheckpointCovered
  <2>1. RecordCovered(done, j, file[j]) /\ file[j] \in Record
    BY Zenon DEF IInv, JobInv, Work, Types
  <2>2. file[j].checkpoint \in 0..Items /\ Items \in Nat
    BY <2>1, IdleFacts, Zenon DEF Record
  <2> QED BY <2>1, <2>2 DEF RecordCovered, Covered
<1> QED BY <1>1, InvariantHolds, PTL

\* The checkpoint file of the daemon names no score whose cycle did not resume
\* the jobs (pollLoop, saveCheckpoint, the constructor's load).
THEOREM SavedWasResumedHolds == Spec => []SavedWasResumed
<1>1. IInv => SavedWasResumed
  BY Zenon DEF IInv, LoopInv, Scores, SavedWasResumed
<1> QED BY <1>1, InvariantHolds, PTL

\* A record never goes back, whichever writes of the store fail, unless its job
\* was found unfinished while it ran or the step cuts the file short (the record
\* runJob reads before an await and saves after it, the catch that stores 'failed'
\* when 'completed' cannot be stored, setAll of job-store-json.ts).
THEOREM RecordAdvancesHolds == Spec => RecordAdvances
<1>1. IInv /\ [Next]_vars => [Advances]_file
  BY JobsInductive, Zenon DEF IInv, Good
<1> QED BY <1>1, InvariantHolds, PTL DEF Spec, RecordAdvances, Advances

\* No run does an item again that the recorded checkpoint covers, unless its job
\* had two runs at once (batch-cursor.ts over runJob).
THEOREM NotRedoneHolds == Spec => NotRedone
<1>1. IInv /\ [Next]_vars => [Redoes]_run
  BY JobsInductive, Zenon DEF IInv, Good
<1> QED BY <1>1, InvariantHolds, PTL DEF Spec, NotRedone, Redoes

-----------------------------------------------------------------------------
(***************************************************************************)
(* The other counter that a process keeps in step with a node: the nonces  *)
(* of NonceManager, for any number of callers, resets and external signers.*)
(*                                                                         *)
(* UniqueNonces is not inductive: that a fresh nonce is new follows from   *)
(* the counter being above every reserved nonce, and that the counter is   *)
(* above them after an await follows from the lock chain, whose head is    *)
(* the only caller between asking the node and taking the answer.          *)
(* NoHole, about the steps that take a nonce, rests on HoleInv: the node   *)
(* keeps what it answered, and there is no hole below the counter.         *)
(***************************************************************************)

NoncePCs == {"idle", "queued", "asked", "answered", "holds", "sent", "uncertain", "refused",
             "failed"}

NonceTypes ==
    /\ epoch \in Epochs
    /\ next \in [Epochs -> Int]
    /\ queue \in [Epochs -> Seq(Signers)]
    /\ stage \in [Signers -> NoncePCs]
    /\ obj \in [Signers -> Epochs]
    /\ first \in [Signers -> BOOLEAN]
    /\ answer \in [Signers -> Nat]
    /\ nonce \in [Signers -> Nat]
    /\ forgot \in BOOLEAN

Carries(c) == Reserved(c) \/ Refused(c)
Asking(c) == stage[c] \in {"asked", "answered"}

\* Only the head of a state object's chain is between Ask and Assign.
ChainInv ==
    \A c \in Signers : Asking(c) => queue[obj[c]] # <<>> /\ Head(queue[obj[c]]) = c

\* While no counter was dropped there is one state object; a caller that found
\* it unsynced finds it unsynced still; and the counter is above what is
\* reserved.
CounterInv ==
    /\ epoch = 0
    /\ \A c \in Signers : obj[c] = 0
    /\ \A c \in Signers : Asking(c) /\ first[c] => next[0] < 0
    /\ next[0] < 0 => \A c \in Signers : ~Carries(c)
    /\ \A c \in Signers : Carries(c) => nonce[c] < next[0]

Distinct ==
    \A c, d \in Signers : c # d /\ Carries(c) /\ Carries(d) => nonce[c] # nonce[d]

NonceInv == NonceTypes /\ ChainInv /\ (forgot \/ (CounterInv /\ Distinct))

-----------------------------------------------------------------------------
\* There is a first state object.
LEMMA ZeroEpoch == 0 \in Epochs
BY NonceAssumption DEF Epochs

\* A caller that queues behind others leaves the head of the chain as it is.
LEMMA AppendKeepsHead ==
    ASSUME NEW q \in Seq(Signers), q # <<>>, NEW c \in Signers
    PROVE  Append(q, c) # <<>> /\ Head(Append(q, c)) = Head(q)
BY SMTT(30)

\* A nonce is a natural number, whatever the counter was while the node was
\* asked, if a caller that is not the first to sync ends up at or above both.
LEMMA SyncedIsNat ==
    ASSUME NonceTypes, NEW c \in Signers
    PROVE  Synced(c, next[obj[c]]) \in Nat
BY DEF NonceTypes, Synced

\* The types and the lock chains are preserved by every step.  A queued caller
\* needs its turn to ask, so a caller that runs is at the head of its chain.
LEMMA NonceTypesStep ==
    ASSUME NonceTypes, ChainInv, [NonceNext]_nonceVars
    PROVE  NonceTypes' /\ ChainInv'
<1> USE NonceAssumption DEF NonceTypes, NoncePCs
<1>1. ASSUME NEW c \in Signers, Acquire(c) PROVE NonceTypes' /\ ChainInv'
  <2>1. NonceTypes'
    BY <1>1 DEF Acquire
  <2>2. ASSUME NEW d \in Signers, Asking(d)' PROVE (queue[obj[d]] # <<>> /\ Head(queue[obj[d]]) = d)'
    <3>1. d # c /\ Asking(d) /\ obj'[d] = obj[d]
      BY <1>1, <2>2, Zenon DEF Acquire, Asking
    <3>2. queue[obj[d]] # <<>> /\ Head(queue[obj[d]]) = d /\ queue[obj[d]] \in Seq(Signers)
      BY <3>1, Zenon DEF ChainInv
    <3>3. CASE obj[d] = epoch
      <4>1. queue'[obj[d]] = Append(queue[obj[d]], c)
        BY <1>1, <3>3, Zenon DEF Acquire
      <4>2. Append(queue[obj[d]], c) # <<>> /\ Head(Append(queue[obj[d]], c)) = Head(queue[obj[d]])
        BY <3>2, AppendKeepsHead, Zenon
      <4> QED
        BY <3>1, <3>2, <4>1, <4>2, Zenon
    <3>4. CASE obj[d] # epoch
      BY <1>1, <3>1, <3>2, <3>4, Zenon DEF Acquire
    <3> QED
      BY <3>3, <3>4, Zenon
  <2> QED
    BY <2>1, <2>2, Zenon DEF ChainInv
<1>2. ASSUME NEW c \in Signers, Ask(c) PROVE NonceTypes' /\ ChainInv'
  <2>1. NonceTypes'
    BY <1>2 DEF Ask
  <2> QED
    BY <1>2, <2>1, Zenon DEF Ask, ChainInv, Asking, HasTurn
<1>3. ASSUME NEW c \in Signers, Answer(c) PROVE NonceTypes' /\ ChainInv'
  <2>1. NonceTypes'
    BY <1>3 DEF Answer, Nonces
  <2> QED
    BY <1>3, <2>1, Zenon DEF Answer, ChainInv, Asking
<1>4. ASSUME NEW c \in Signers, Assign(c) PROVE NonceTypes' /\ ChainInv'
  <2> DEFINE n == Synced(c, next[obj[c]])
  <2>1. n \in Nat
    BY SyncedIsNat, Zenon
  <2> HIDE DEF n
  <2>2. nonce' = [nonce EXCEPT ![c] = n] /\ next' = [next EXCEPT ![obj[c]] = n + 1]
    BY <1>4, Zenon DEF Assign, n
  <2>3. queue[obj[c]] # <<>> /\ Head(queue[obj[c]]) = c /\ Tail(queue[obj[c]]) \in Seq(Signers)
    BY <1>4 DEF Assign, ChainInv, Asking
  <2>4. NonceTypes'
    <3>1. queue' \in [Epochs -> Seq(Signers)]
      BY <1>4, <2>3, Zenon DEF Assign, Unlock
    <3>2. nonce' \in [Signers -> Nat] /\ next' \in [Epochs -> Int]
      BY <2>1, <2>2
    <3> QED
      BY <1>4, <3>1, <3>2, Zenon DEF Assign
  <2>5. ChainInv'
    BY <1>4, <2>3, Zenon DEF Assign, Unlock, ChainInv, Asking
  <2> QED
    BY <2>4, <2>5, Zenon
<1>5. ASSUME NEW c \in Signers, RpcFails(c) PROVE NonceTypes' /\ ChainInv'
  <2>1. queue[obj[c]] # <<>> /\ Head(queue[obj[c]]) = c /\ Tail(queue[obj[c]]) \in Seq(Signers)
    BY <1>5 DEF RpcFails, ChainInv, Asking
  <2> QED
    BY <1>5, <2>1, Zenon DEF RpcFails, Unlock, ChainInv, Asking
<1>6. ASSUME NEW c \in Signers, PrepareFails(c) PROVE NonceTypes' /\ ChainInv'
  BY <1>6 DEF PrepareFails, Released, Unsynced, ChainInv, Asking
<1>7. ASSUME NEW c \in Signers, Send(c) PROVE NonceTypes' /\ ChainInv'
  BY <1>7, Zenon DEF Send, ChainInv, Asking
<1>8. ASSUME NEW c \in Signers, SendLost(c) PROVE NonceTypes' /\ ChainInv'
  BY <1>8, Zenon DEF SendLost, ChainInv, Asking
<1>12. ASSUME NEW c \in Signers, SendRefused(c) PROVE NonceTypes' /\ ChainInv'
  BY <1>12, Zenon DEF SendRefused, ChainInv, Asking
<1>9. CASE ExternalSend
  BY <1>9, Zenon DEF ExternalSend, ChainInv, Asking
<1>10. CASE Reset
  BY <1>10 DEF Reset, Epochs, ChainInv, Asking
<1>11. CASE UNCHANGED nonceVars
  BY <1>11, Zenon DEF nonceVars, ChainInv, Asking
<1> QED
  BY <1>1, <1>2, <1>3, <1>4, <1>5, <1>6, <1>7, <1>8, <1>9, <1>10, <1>11, <1>12, Zenon DEF NonceNext

-----------------------------------------------------------------------------
\* While no counter is dropped, every step keeps the counter above the reserved
\* nonces and these distinct.  Two steps matter: the assignment, which takes a
\* nonce at or above the counter, and the return of the latest nonce.
LEMMA CounterStep ==
    ASSUME NonceTypes, ChainInv, NonceTypes', CounterInv, Distinct,
           [NonceNext]_nonceVars, ~forgot'
    PROVE  CounterInv' /\ Distinct'
<1> USE ZeroEpoch DEF NonceTypes, NoncePCs
<1>1. ASSUME NEW c \in Signers, Acquire(c) PROVE CounterInv' /\ Distinct'
  BY <1>1, ZenonT(60) DEF Acquire, CounterInv, Distinct, Asking, Carries, Reserved, Refused
<1>2. ASSUME NEW c \in Signers, Ask(c) PROVE CounterInv' /\ Distinct'
  BY <1>2, ZenonT(60) DEF Ask, CounterInv, Distinct, Asking, Carries, Reserved, Refused
<1>3. ASSUME NEW c \in Signers, Answer(c) PROVE CounterInv' /\ Distinct'
  BY <1>3, ZenonT(60) DEF Answer, CounterInv, Distinct, Asking, Carries, Reserved, Refused
<1>4. ASSUME NEW c \in Signers, Assign(c) PROVE CounterInv' /\ Distinct'
  <2> DEFINE n == Synced(c, next[obj[c]])
  <2>1. n \in Nat
    BY SyncedIsNat, Zenon
  <2>2. obj[c] = 0
    BY Zenon DEF CounterInv
  <2>3. \A d \in Signers : Carries(d) => nonce[d] < n
    BY <1>4, <2>1, <2>2 DEF CounterInv, Synced, Assign, Asking
  <2> HIDE DEF n
  <2>4. nonce' = [nonce EXCEPT ![c] = n] /\ next' = [next EXCEPT ![0] = n + 1]
    BY <1>4, <2>2, Zenon DEF Assign, n
  <2>5. \A d \in Signers \ {c} : ~Asking(d)'
    BY <1>4, <2>2, Zenon DEF Assign, ChainInv, Asking, CounterInv
  <2>6. ~Asking(c)' /\ next'[0] > 0
    BY <1>4, <2>1, <2>4 DEF Assign, Asking
  <2>7. \A d \in Signers \ {c} : (Carries(d)' <=> Carries(d)) /\ nonce'[d] = nonce[d]
    BY <1>4, <2>4 DEF Assign, Carries, Reserved, Refused
  <2>8. CounterInv'
    BY <1>4, <2>1, <2>3, <2>4, <2>5, <2>6, <2>7 DEF CounterInv, Assign
  <2>9. Distinct'
    <3> SUFFICES ASSUME NEW d \in Signers, NEW e \in Signers, d # e, Carries(d)', Carries(e)'
                 PROVE  nonce'[d] # nonce'[e]
      BY Zenon DEF Distinct
    <3>1. nonce'[c] = n
      BY <2>4, Zenon
    <3>2. CASE d # c /\ e # c
      BY <2>7, <3>2, Zenon DEF Distinct
    <3>3. CASE d = c
      BY <2>1, <2>3, <2>7, <3>1, <3>3
    <3>4. CASE e = c
      BY <2>1, <2>3, <2>7, <3>1, <3>4
    <3> QED
      BY <3>2, <3>3, <3>4, Zenon
  <2> QED
    BY <2>8, <2>9, Zenon
<1>5. ASSUME NEW c \in Signers, RpcFails(c) PROVE CounterInv' /\ Distinct'
  BY <1>5, ZenonT(60) DEF RpcFails, CounterInv, Distinct, Asking, Carries, Reserved, Refused
<1>6. ASSUME NEW c \in Signers, PrepareFails(c) PROVE CounterInv' /\ Distinct'
  <2>1. Carries(c) /\ epoch = 0 /\ nonce[c] < next[0] /\ next'[0] # Unsynced
    BY <1>6, Zenon DEF PrepareFails, Carries, Reserved, Refused, CounterInv
  <2>2. next'[0] = nonce[c] /\ next[0] - 1 = nonce[c]
    BY <1>6, <2>1, Zenon DEF PrepareFails, Released
  <2>3. \A d \in Signers \ {c} : (Carries(d)' <=> Carries(d)) /\ nonce'[d] = nonce[d]
    BY <1>6, Zenon DEF PrepareFails, Carries, Reserved, Refused
  <2>4. ~Carries(c)'
    BY <1>6, Zenon DEF PrepareFails, Carries, Reserved, Refused
  <2>5. \A d \in Signers \ {c} : Carries(d) => nonce[d] < nonce[c]
    <3>1. \A d \in Signers \ {c} : Carries(d) => nonce[d] < next[0] /\ nonce[d] # nonce[c]
      BY <2>1, Zenon DEF CounterInv, Distinct
    <3>2. nonce \in [Signers -> Nat] /\ next[0] \in Int
      BY Zenon
    <3> HIDE DEF NonceTypes
    <3> QED
      BY <2>2, <3>1, <3>2
  <2>6. \A d \in Signers : Asking(d)' => ~first'[d]
    BY <1>6, <2>1, Zenon DEF PrepareFails, Asking, CounterInv
  <2>7. CounterInv'
    <3>1. epoch' = 0 /\ \A d \in Signers : obj'[d] = 0
      BY <1>6, Zenon DEF PrepareFails, CounterInv
    <3>2. next'[0] \in Nat
      BY <2>2, Zenon
    <3>3. \A d \in Signers : Carries(d)' => nonce'[d] < next'[0]
      BY <2>2, <2>3, <2>4, <2>5, Zenon
    <3> QED
      BY <2>6, <3>1, <3>2, <3>3 DEF CounterInv
  <2>8. Distinct'
    BY <2>3, <2>4, Zenon DEF Distinct
  <2> QED
    BY <2>7, <2>8
<1>7. ASSUME NEW c \in Signers, Send(c) PROVE CounterInv' /\ Distinct'
  BY <1>7 DEF Send, CounterInv, Distinct, Asking, Carries, Reserved, Refused
<1>8. ASSUME NEW c \in Signers, SendLost(c) PROVE CounterInv' /\ Distinct'
  BY <1>8 DEF SendLost, CounterInv, Distinct, Asking, Carries, Reserved, Refused
<1>12. ASSUME NEW c \in Signers, SendRefused(c) PROVE CounterInv' /\ Distinct'
  BY <1>12 DEF SendRefused, CounterInv, Distinct, Asking, Carries, Reserved, Refused
<1>9. CASE ExternalSend
  BY <1>9, Zenon DEF ExternalSend, CounterInv, Distinct, Asking, Carries, Reserved, Refused
<1>10. CASE Reset
  BY <1>10, Zenon DEF Reset
<1>11. CASE UNCHANGED nonceVars
  BY <1>11, Zenon DEF nonceVars, CounterInv, Distinct, Asking, Carries, Reserved, Refused
<1> QED
  BY <1>1, <1>2, <1>3, <1>4, <1>5, <1>6, <1>7, <1>8, <1>9, <1>10, <1>11, <1>12, Zenon DEF NonceNext

\* A counter that was dropped stays recorded as dropped.
LEMMA ForgotStays == ASSUME NonceTypes, [NonceNext]_nonceVars, forgot PROVE forgot'
BY Zenon DEF NonceTypes, NonceNext, nonceVars, Acquire, Ask, Answer,
   Assign, RpcFails, PrepareFails, Send, SendLost, SendRefused,
    ExternalSend, Reset

\* No two transactions that one process prepares carry the same nonce, as long
\* as no release or reset dropped a counter: for every number of callers, and
\* however other signers of the account interfere.
THEOREM UniqueNoncesHolds == NonceSpec => []UniqueNonces
<1>1. NonceInit => NonceInv
  <2> SUFFICES ASSUME NonceInit PROVE NonceInv
    BY Zenon
  <2>1. NonceTypes
    BY ZeroEpoch DEF NonceInit, NonceTypes, NoncePCs, Unsynced
  <2>2. \A c \in Signers : ~Asking(c) /\ ~Carries(c)
    BY Zenon DEF NonceInit, Asking, Carries, Reserved, Refused
  <2>3. ChainInv /\ Distinct
    BY <2>2, Zenon DEF ChainInv, Distinct
  <2>4. CounterInv
    BY <2>2, Zenon DEF NonceInit, CounterInv
  <2> QED
    BY <2>1, <2>3, <2>4, Zenon DEF NonceInv
<1>2. NonceInv /\ [NonceNext]_nonceVars => NonceInv'
  <2> SUFFICES ASSUME NonceInv, [NonceNext]_nonceVars PROVE NonceInv'
    BY Zenon
  <2>1. NonceTypes' /\ ChainInv'
    BY NonceTypesStep, Zenon DEF NonceInv
  <2>2. CASE forgot'
    BY <2>1, <2>2, Zenon DEF NonceInv
  <2>3. CASE ~forgot'
    BY <2>1, <2>3, ForgotStays, CounterStep, Zenon DEF NonceInv
  <2> QED
    BY <2>2, <2>3, Zenon
<1>3. NonceInv => UniqueNonces
  BY Zenon DEF NonceInv, UniqueNonces, Distinct, Carries
<1> QED
  BY <1>1, <1>2, <1>3, PTL DEF NonceSpec

\* The types and the lock chains hold in every reachable state.
LEMMA NonceTypesHold == NonceSpec => [](NonceTypes /\ ChainInv)
<1>1. NonceInit => NonceTypes /\ ChainInv
  BY ZeroEpoch DEF NonceInit, NonceTypes, NoncePCs, Unsynced, ChainInv, Asking
<1>2. (NonceTypes /\ ChainInv) /\ [NonceNext]_nonceVars => (NonceTypes /\ ChainInv)'
  BY NonceTypesStep, ZenonT(60)
<1> QED
  BY <1>1, <1>2, PTL DEF NonceSpec

-----------------------------------------------------------------------------
\* Nonce k is not a hole: the node has it, or a caller holds it or may have sent it.
Filled(k) == k \in node \/ \E d \in Signers : Carries(d) /\ nonce[d] = k

\* What the node answered it still has; before a reset there is one state object,
\* and no hole below its counter.
HoleInv ==
    /\ \A c \in Signers : stage[c] = "answered" => \A k \in 0..(answer[c] - 1) : k \in node
    /\ epoch = 0 => /\ \A c \in Signers : obj[c] = 0
                    /\ \A k \in 0..(next[0] - 1) : Filled(k)

\* The node never forgets a nonce, and epochs do not come back.
LEMMA NodeGrows ==
    ASSUME NonceTypes, [NonceNext]_nonceVars
    PROVE  node \subseteq node' /\ (epoch' = 0 => epoch = 0)
BY DEF NonceTypes, Epochs, NonceNext, nonceVars, Acquire, Ask, Answer,
   Assign, RpcFails, PrepareFails, Send,
   SendLost, SendRefused, ExternalSend, Reset

\* The first two parts of HoleInv.
LEMMA AnswersStand ==
    ASSUME NonceTypes, HoleInv, [NonceNext]_nonceVars
    PROVE  /\ \A c \in Signers : stage'[c] = "answered" => \A k \in 0..(answer'[c] - 1) : k \in node'
           /\ epoch' = 0 => \A c \in Signers : obj'[c] = 0
<1>1. ASSUME NEW c \in Signers, stage'[c] = "answered" PROVE \A k \in 0..(answer'[c] - 1) : k \in node'
  <2>1. CASE stage[c] = "answered" /\ answer'[c] = answer[c]
    BY <2>1, NodeGrows, Zenon DEF HoleInv
  <2>2. CASE Answer(c)
    <3>1. PICK k \in Nonces : Pending(k) /\ answer' = [answer EXCEPT ![c] = k]
      BY <2>2, Zenon DEF Answer
    <3>2. answer'[c] = k /\ node' = node
      BY <2>2, <3>1, ZenonT(60) DEF NonceTypes, Answer
    <3> QED
      BY <3>1, <3>2, Zenon DEF Pending
  <2>3. ASSUME ~Answer(c) PROVE stage[c] = "answered" /\ answer'[c] = answer[c]
    BY <1>1, <2>3 DEF NonceTypes, NonceNext, nonceVars, Acquire, Ask, Answer,
       Assign, RpcFails, PrepareFails,
       Send, SendLost, SendRefused, ExternalSend, Reset
  <2> QED
    BY <2>1, <2>2, <2>3, Zenon
<1>2. ASSUME epoch' = 0 PROVE \A c \in Signers : obj'[c] = 0
  <2>1. epoch = 0 /\ \A c \in Signers : obj[c] = 0
    BY <1>2, NodeGrows, Zenon DEF HoleInv
  <2> QED
    BY <2>1, ZenonT(60) DEF NonceTypes, NonceNext, nonceVars, Acquire, Ask,
       Answer, Assign, RpcFails, PrepareFails, Send,
       SendLost, SendRefused, ExternalSend, Reset
<1> QED
  BY <1>1, <1>2, Zenon

\* An assignment before any reset leaves no hole below the nonce it takes.
LEMMA AssignCovered ==
    ASSUME NonceTypes, HoleInv, epoch = 0, NEW c \in Signers, Assign(c)
    PROVE  /\ next'[0] = nonce'[c] + 1 /\ nonce'[c] \in Nat
           /\ \A k \in 0..(nonce'[c] - 1) : Filled(k)
<1> DEFINE n == Synced(c, next[obj[c]])
<1>1. n \in Nat
  BY SyncedIsNat, Zenon
<1>2. obj[c] = 0 /\ stage[c] = "answered"
  BY Zenon DEF HoleInv, Assign
<1>3. n = answer[c] \/ n = next[0]
  BY <1>2, Zenon DEF Synced
<1>4. \A k \in 0..(answer[c] - 1) : Filled(k)
  BY <1>2, Zenon DEF HoleInv, Filled
<1>5. \A k \in 0..(next[0] - 1) : Filled(k)
  BY Zenon DEF HoleInv
<1>6. nonce'[c] = n /\ next'[obj[c]] = n + 1
  BY Zenon DEF Assign, NonceTypes
<1> HIDE DEF n
<1>7. \A k \in 0..(n - 1) : Filled(k)
  BY <1>3, <1>4, <1>5, Zenon
<1> QED
  BY <1>1, <1>2, <1>6, <1>7, Zenon

\* Before any reset no step opens a hole below the counter: what leaves a
\* reservation is sent, or the counter goes back to it, or the counter is dropped.
LEMMA HolesStay ==
    ASSUME NonceTypes, HoleInv, [NonceNext]_nonceVars, epoch' = 0,
           NEW k \in 0..(next'[0] - 1)
    PROVE  Filled(k)'
<1> USE ZeroEpoch DEF NonceTypes, NoncePCs
<1>1. epoch = 0 /\ node \subseteq node' /\ \A j \in 0..(next[0] - 1) : Filled(j)
  BY NodeGrows, Zenon DEF HoleInv
<1>2. ASSUME NEW c \in Signers, Assign(c) PROVE Filled(k)'
  <2>1. /\ next'[0] = nonce'[c] + 1 /\ nonce'[c] \in Nat
        /\ \A j \in 0..(nonce'[c] - 1) : Filled(j)
    BY <1>1, <1>2, AssignCovered, Zenon
  <2>2. stage'[c] = "holds" /\ \A d \in Signers \ {c} : stage'[d] = stage[d] /\ nonce'[d] = nonce[d]
    BY <1>2, Zenon DEF Assign
  <2>3. ~Carries(c) /\ node' = node
    BY <1>2, Zenon DEF Assign, Carries, Reserved, Refused
  <2>4. CASE k = nonce'[c]
    BY <2>2, <2>4, Zenon DEF Filled, Carries, Reserved, Refused
  <2>5. CASE k # nonce'[c]
    <3>1. Filled(k)
      BY <2>1, <2>5, SMTT(30)
    <3> QED
      BY <2>2, <2>3, <3>1, Zenon DEF Filled, Carries, Reserved, Refused
  <2> QED
    BY <2>4, <2>5, Zenon
<1>3. ASSUME NEW c \in Signers, PrepareFails(c) PROVE Filled(k)'
  <2>1. next'[0] = Released(next[0], nonce[c]) /\ nonce' = nonce /\ node' = node
    BY <1>1, <1>3, Zenon DEF PrepareFails
  <2>2. k \in 0..(next[0] - 1) /\ k # nonce[c]
    BY <2>1 DEF Released, Unsynced
  <2>3. \A d \in Signers \ {c} : stage'[d] = stage[d]
    BY <1>3, Zenon DEF PrepareFails
  <2> QED
    BY <1>1, <2>1, <2>2, <2>3, Zenon DEF Filled, Carries, Reserved, Refused
<1>4. ASSUME NEW c \in Signers, Send(c) PROVE Filled(k)'
  <2>1. next' = next /\ nonce' = nonce /\ nonce[c] \in node' /\ \A d \in Signers \ {c} : stage'[d] = stage[d]
    BY <1>4, Zenon DEF Send
  <2>2. CASE k \in node
    BY <2>2, <1>1, Zenon DEF Filled
  <2>3. ASSUME NEW d \in Signers, Carries(d), nonce[d] = k PROVE Filled(k)'
    <3>1. CASE d = c
      BY <2>1, <2>3, <3>1, Zenon DEF Filled
    <3>2. CASE d # c
      BY <2>1, <2>3, <3>2, Zenon DEF Filled, Carries, Reserved, Refused
    <3> QED
      BY <3>1, <3>2, Zenon
  <2> QED
    BY <1>1, <2>1, <2>2, <2>3, Zenon DEF Filled
<1>5. ASSUME \A c \in Signers : ~Assign(c) /\ ~PrepareFails(c) /\ ~Send(c) PROVE Filled(k)'
  <2>1. next' = next /\ nonce' = nonce /\ \A d \in Signers : Carries(d) => Carries(d)'
    BY <1>5, Zenon DEF NonceNext, nonceVars, Acquire, Ask, Answer,
       RpcFails, SendLost, SendRefused, ExternalSend, Reset, Carries, Reserved, Refused
  <2> QED
    BY <1>1, <2>1, Zenon DEF Filled
<1> QED
  BY <1>2, <1>3, <1>4, <1>5, Zenon

\* No nonce is assigned over a hole before a reset (acquireNonce,
\* releaseUnusedNonce: "the gap is filled instead of blocking"), for any number
\* of callers and whatever other signers of the account send.
THEOREM NoHoleHolds == NonceSpec => NoHole
<1> DEFINE Full == \A c \in Signers : epoch = 0 /\ stage[c] = "answered" /\ stage'[c] = "holds" =>
                        \A k \in 0..(nonce'[c] - 1) :
                            \/ k \in node
                            \/ \E d \in Signers : (Reserved(d) \/ Refused(d)) /\ nonce[d] = k
<1>1. NonceInit => HoleInv
  BY ZeroEpoch DEF NonceInit, HoleInv, Unsynced
<1>2. (NonceTypes /\ ChainInv) /\ HoleInv /\ [NonceNext]_nonceVars => HoleInv'
  BY AnswersStand, HolesStay, Zenon DEF HoleInv
<1>3. ASSUME NonceTypes, HoleInv, [NonceNext]_nonceVars PROVE [Full]_nonceVars
  <2> SUFFICES ASSUME NEW c \in Signers, epoch = 0, stage[c] = "answered", stage'[c] = "holds"
               PROVE  \A k \in 0..(nonce'[c] - 1) : Filled(k)
    BY Zenon DEF Filled, Carries
  <2>1. Assign(c)
    BY <1>3, ZenonT(60) DEF NonceTypes, NonceNext, nonceVars, Acquire, Ask,
       Answer, Assign, RpcFails, PrepareFails, Send,
       SendLost, SendRefused, ExternalSend, Reset
  <2> QED
    BY <1>3, <2>1, AssignCovered, Zenon
<1>4. (NonceTypes /\ ChainInv) /\ HoleInv /\ [NonceNext]_nonceVars => [Full]_nonceVars
  BY <1>3, Zenon
<1> QED
  BY NonceTypesHold, <1>1, <1>2, <1>4, PTL DEF NonceSpec, NoHole

=============================================================================
