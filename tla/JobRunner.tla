----------------------------- MODULE JobRunner -----------------------------
(***************************************************************************)
(* Background jobs: JobRunner over JobStoreJson (packages/jobs/src), with a *)
(* handler that works through a batch and saves its cursor after every item *)
(* (batch-cursor.ts, job-checkpoint.ts, retry-policy.ts).                   *)
(*                                                                         *)
(* The store reads and writes the whole file synchronously, so a save or an *)
(* update is one step; what is read before an await and stored after it is  *)
(* kept in the run.  setAll rewrites jobs.json in place: a write that fails, *)
(* or a process that dies in it, leaves the file as it was or one that       *)
(* getAll reads as no jobs at all.                                          *)
(***************************************************************************)
EXTENDS Integers, FiniteSets

CONSTANTS
    Jobs,        \* the jobs that may be enqueued
    Runs,        \* runs of one job that may be live at once: 1..n
    Items,       \* items of a batch
    MaxRetries,  \* retries of one item
    MaxFaults,   \* bound on crashes, failed calls and failed writes
    None

Record == [status : {"pending", "running", "retrying", "completed", "failed"},
           attempts : Nat, checkpoint : 0..Items]

ASSUME JobRunnerAssumption ==
    /\ Runs = 1..Cardinality(Runs) /\ Runs # {}
    /\ {Items, MaxRetries, MaxFaults} \subseteq Nat
    /\ None \notin Record

VARIABLES
    up,          \* the process is running
    registered,  \* registerHandler has been called
    queued,      \* the jobs that have been enqueued
    file,        \* jobs.json: a record for every job, or None
    run,         \* run[j][n]: the runs of job j in this process
    found,       \* the jobs that resumePendingJobs found unfinished and goes on to run
    done,        \* the items whose work has been done: <<job, item>>
    faults,
    doubled,     \* ghost: jobs found unfinished while they had a live run
    torn         \* ghost: how often jobs.json has been cut short

jobVars == <<registered, queued, file, run, found, done, doubled, torn>>

Idle == [pc |-> "idle", rec |-> None, cursor |-> 0, tries |-> 0]
Unfinished(j) == file[j] # None /\ file[j].status \in {"pending", "running", "retrying"}
Live(j) == {n \in Runs : run[j][n].pc # "idle"}
Slots(j) == Runs \ Live(j)
Slot(j) == CHOOSE n \in Slots(j) : \A m \in Slots(j) : n <= m

JobInit ==
    /\ up = TRUE /\ registered = FALSE
    /\ queued = {} /\ file = [j \in Jobs |-> None]
    /\ run = [j \in Jobs |-> [n \in Runs |-> Idle]]
    /\ found = {} /\ done = {} /\ faults = 0
    /\ doubled = {} /\ torn = 0

-----------------------------------------------------------------------------
\* setAll throws, with the file untouched or cut short.
WriteFails ==
    /\ faults < MaxFaults /\ faults' = faults + 1
    /\ \/ UNCHANGED <<file, torn>>
       \/ file' = [j \in Jobs |-> None] /\ torn' = torn + 1

\* save, and update, which writes nothing when the file has lost the job.
Save(j, rec) == file' = [file EXCEPT ![j] = rec] /\ UNCHANGED <<faults, torn>>
Update(j, rec) ==
    /\ file' = IF file[j] = None THEN file ELSE [file EXCEPT ![j] = rec]
    /\ UNCHANGED <<faults, torn>>
UpdateFails(j) == file[j] # None /\ WriteFails

RegisterHandler ==
    /\ up /\ ~registered /\ registered' = TRUE
    /\ UNCHANGED <<up, queued, file, run, found, done, faults, doubled, torn>>

\* enqueue, up to its call of runJob; it throws when the record is not saved.
Enqueue(j) ==
    /\ up /\ j \notin queued
    /\ \/ /\ Save(j, [status |-> "pending", attempts |-> 0, checkpoint |-> 0])
          /\ queued' = queued \cup {j}
          /\ run' = [run EXCEPT ![j][Slot(j)] = [Idle EXCEPT !.pc = "called"]]
       \/ WriteFails /\ UNCHANGED <<queued, run>>
    /\ UNCHANGED <<up, registered, found, done, doubled>>

\* runJob reads the record.
RunJob(j, n) ==
    /\ run[j][n].pc = "called"
    /\ run' = [run EXCEPT ![j][n] = IF file[j] = None THEN Idle
                                    ELSE [Idle EXCEPT !.pc = "read", !.rec = file[j]]]
    /\ UNCHANGED <<up, registered, queued, file, found, done, faults, doubled, torn>>

\* Mutant: every job of the file is resumed, whatever its status.
ResumePendingJobs_All ==
    /\ found' = {j \in Jobs : file[j] # None}
    /\ doubled' = {j \in doubled \cup found' : Live(j) # {}}
    /\ UNCHANGED <<registered, queued, file, run, done, torn>>

\* resumePendingJobs up to its await: the jobs of the file that are not finished,
\* whether they have a run or not.
ResumePendingJobs ==
    /\ found' = {j \in Jobs : Unfinished(j)}
    /\ doubled' = {j \in doubled \cup found' : Live(j) # {}}
    /\ UNCHANGED <<registered, queued, file, run, done, torn>>

\* resumePendingJobs after it: runJob reads the record of each again and looks at
\* its status no more.  Runs beyond the bound are left out.
StartRuns ==
    /\ run' = [j \in Jobs |->
                 IF j \in found /\ file[j] # None /\ Slots(j) # {}
                 THEN [run[j] EXCEPT ![Slot(j)] = [Idle EXCEPT !.pc = "read", !.rec = file[j]]]
                 ELSE run[j]]
    /\ found' = {}
    /\ UNCHANGED <<registered, queued, file, done, doubled, torn>>

\* runJob after its first await: the record it read is stored as running, or as
\* failed when nobody has registered the handler.  It throws, and the run is over,
\* when it cannot be stored.
Begin(j, n) ==
    LET rec == run[j][n].rec
        begun == IF registered
                 THEN [rec EXCEPT !.status = IF rec.attempts > 0 THEN "retrying" ELSE "running",
                                  !.attempts = @ + 1]
                 ELSE [rec EXCEPT !.status = "failed"]
        running == [Idle EXCEPT !.pc = "running", !.cursor = rec.checkpoint]
    IN /\ run[j][n].pc = "read"
       /\ \/ Save(j, begun) /\ run' = [run EXCEPT ![j][n] = IF registered THEN running ELSE Idle]
          \/ WriteFails /\ run' = [run EXCEPT ![j][n] = Idle]
       /\ UNCHANGED <<up, registered, queued, found, done, doubled>>

\* The handler does the next item and saves its cursor.
Item(j, n) ==
    LET r == run[j][n]
    IN /\ r.pc = "running" /\ r.cursor < Items
       /\ run' = [run EXCEPT ![j][n] = [r EXCEPT !.cursor = r.cursor + 1, !.tries = 0]]
       /\ done' = done \cup {<<j, r.cursor + 1>>}
       /\ UNCHANGED <<up, registered, queued, file, found, faults, doubled, torn>>

\* RetryPolicy.execute: an item that fails is tried again; after the last retry
\* the handler throws.
ItemFails(j, n) ==
    LET r == run[j][n]
    IN /\ r.pc = "running" /\ r.cursor < Items
       /\ run' = [run EXCEPT ![j][n] = IF r.tries < MaxRetries THEN [r EXCEPT !.tries = @ + 1]
                                       ELSE [r EXCEPT !.pc = "catch"]]
       /\ UNCHANGED <<up, registered, queued, file, found, done, faults, doubled, torn>>

\* checkpoint.commit, and the timer that stores the cursor every second.  When the
\* write fails the handler's own commit throws; the timer's throw is uncaught, and
\* the process goes on only if it handles that.
Commit(j, n) ==
    /\ run[j][n].pc = "running"
    /\ \/ Update(j, [file[j] EXCEPT !.checkpoint = run[j][n].cursor]) /\ UNCHANGED run
       \/ UpdateFails(j) /\ (UNCHANGED run \/ run' = [run EXCEPT ![j][n].pc = "catch"])
    /\ UNCHANGED <<up, registered, queued, found, done, doubled>>

\* The handler returns.  A record that cannot be stored as completed is one more
\* error for the catch.
Complete(j, n) ==
    /\ run[j][n].pc = "running" /\ run[j][n].cursor = Items
    /\ \/ /\ Update(j, [file[j] EXCEPT !.status = "completed", !.checkpoint = Items])
          /\ run' = [run EXCEPT ![j][n] = Idle]
       \/ UpdateFails(j) /\ run' = [run EXCEPT ![j][n].pc = "catch"]
    /\ UNCHANGED <<up, registered, queued, found, done, doubled>>

\* The catch of runJob: the job is recorded as failed, if that can be stored.
Catch(j, n) ==
    /\ run[j][n].pc = "catch"
    /\ \/ Update(j, [file[j] EXCEPT !.status = "failed", !.checkpoint = run[j][n].cursor])
       \/ UpdateFails(j)
    /\ run' = [run EXCEPT ![j][n] = Idle]
    /\ UNCHANGED <<up, registered, queued, found, done, doubled>>

RunStep(j, n) == RunJob(j, n) \/ Begin(j, n) \/ Item(j, n) \/ Complete(j, n) \/ Catch(j, n)
JobStep ==
    \/ RegisterHandler
    \/ \E j \in Jobs : Enqueue(j)
    \/ \E j \in Jobs, n \in Runs : RunStep(j, n) \/ ItemFails(j, n) \/ Commit(j, n)

\* The process dies, possibly while it writes jobs.json.
JobCrash ==
    /\ up /\ up' = FALSE
    /\ WriteFails
    /\ registered' = FALSE
    /\ run' = [j \in Jobs |-> [n \in Runs |-> Idle]]
    /\ found' = {} /\ doubled' = {}
    /\ UNCHANGED <<queued, done>>

=============================================================================
