----------------------------- MODULE SyncDaemon -----------------------------
(***************************************************************************)
(* The sync daemon (packages/sync-daemon/src/daemon.ts) and the jobs it     *)
(* resumes (JobRunner): its poll loop, its checkpoint file, start and stop,  *)
(* in a process that may die and be started again.                          *)
(***************************************************************************)
EXTENDS JobRunner

CONSTANTS
    Callers,     \* who may call stop
    MaxScore,    \* bound on the blue score of the node
    MaxStops     \* bound on the calls of stop

ASSUME SyncDaemonAssumption == {MaxScore, MaxStops} \subseteq Nat

VARIABLES
    score,         \* the node's blue score
    pc,            \* where the poll loop is; "off" before start, "ended" after it
    target,        \* currentBlueScore of the cycle, 0 outside one
    lastProcessedBlueScore,
    saved,         \* the checkpoint file
    isRunning, isShuttingDown,
    stop,          \* stop[c]: "idle", "waiting" or "resolved"
    shutdownResolver,
    stops,
    resumed,       \* ghost: the highest score whose cycle has resumed the jobs
    stranded       \* ghost: callers of stop whose resolver nobody will call

loop == <<score, pc, target, lastProcessedBlueScore, saved, resumed>>
control == <<isRunning, isShuttingDown, stop, shutdownResolver, stops, stranded>>
vars == <<up, faults, jobVars, loop, control>>

Init ==
    /\ JobInit
    /\ score = 1 /\ saved = 0 /\ resumed = 0
    /\ pc = "off" /\ target = 0 /\ lastProcessedBlueScore = 0
    /\ isRunning = FALSE /\ isShuttingDown = FALSE
    /\ stop = [c \in Callers |-> "idle"] /\ shutdownResolver = None
    /\ stops = 0 /\ stranded = {}

NewBlock ==
    /\ score < MaxScore /\ score' = score + 1
    /\ UNCHANGED <<up, faults, jobVars, pc, target, lastProcessedBlueScore, saved, resumed, control>>

-----------------------------------------------------------------------------
Start ==
    /\ up /\ ~isRunning
    /\ isRunning' = TRUE /\ isShuttingDown' = FALSE
    /\ pc' = "poll"
    /\ UNCHANGED <<up, faults, jobVars, score, target, lastProcessedBlueScore, saved, resumed,
                   stop, shutdownResolver, stops, stranded>>

\* stop, up to its first await.  There is one resolver, and the loop calls it
\* once.
Stop(c) ==
    /\ up /\ isRunning /\ stop[c] = "idle"
    /\ stops < MaxStops /\ stops' = stops + 1
    /\ isShuttingDown' = TRUE
    /\ shutdownResolver' = c
    /\ stop' = [stop EXCEPT ![c] = "waiting"]
    /\ stranded' = stranded \cup {d \in Callers : d = shutdownResolver /\ stop[d] = "waiting"}
                            \cup {d \in {c} : pc = "ended"}
    /\ UNCHANGED <<up, faults, jobVars, loop, isRunning>>

\* stop after its awaits.
StopReturns(c) ==
    /\ stop[c] = "resolved" /\ pc = "ended"
    /\ stop' = [stop EXCEPT ![c] = "idle"]
    /\ isRunning' = FALSE
    /\ UNCHANGED <<up, faults, jobVars, loop, isShuttingDown, shutdownResolver, stops, stranded>>

-----------------------------------------------------------------------------
(* pollLoop *)
Step(next) == pc' = next /\ UNCHANGED <<up, score, control>>

\* Mutant: the loop condition is tested by the first cycle only.
Poll_Forever ==
    /\ pc = "poll"
    /\ target' = score
    /\ Step(IF score > lastProcessedBlueScore THEN "resume" ELSE "wait")
    /\ UNCHANGED <<faults, jobVars, lastProcessedBlueScore, saved, resumed>>

\* The loop condition, connect and the request for the blue score; a new score
\* goes on to the indexer, the wallets and their UTXOs.
Poll ==
    /\ pc = "poll"
    /\ IF isShuttingDown THEN Step("exit") /\ UNCHANGED target
       ELSE IF score > lastProcessedBlueScore THEN Step("resume") /\ target' = score
       ELSE Step("wait") /\ UNCHANGED target
    /\ UNCHANGED <<faults, jobVars, lastProcessedBlueScore, saved, resumed>>

\* A call to the node, the indexer or a wallet fails; the loop waits longer.
CycleFails ==
    /\ \/ pc = "poll" /\ ~isShuttingDown
       \/ pc = "resume"
    /\ faults < MaxFaults /\ faults' = faults + 1
    /\ Step("wait") /\ target' = 0
    /\ UNCHANGED <<jobVars, lastProcessedBlueScore, saved, resumed>>

\* resumePendingJobs reads the jobs, and after an await it runs them.
FindJobs ==
    /\ pc = "resume" /\ Step("start")
    /\ ResumePendingJobs
    /\ UNCHANGED <<faults, target, lastProcessedBlueScore, saved, resumed>>

\* Mutant: the jobs are not resumed.
Resume_Nothing ==
    /\ pc = "start" /\ Step("save")
    /\ resumed' = target
    /\ UNCHANGED <<faults, jobVars, target, lastProcessedBlueScore, saved>>

Resume ==
    /\ pc = "start" /\ Step("save")
    /\ StartRuns
    /\ resumed' = target
    /\ UNCHANGED <<faults, target, lastProcessedBlueScore, saved>>

\* The cycle is recorded in memory, then in the checkpoint file, unless that
\* write fails.
SaveCheckpoint ==
    /\ pc = "save" /\ Step("wait")
    /\ lastProcessedBlueScore' = target /\ target' = 0
    /\ \/ saved' = target /\ UNCHANGED faults
       \/ faults < MaxFaults /\ faults' = faults + 1 /\ UNCHANGED saved
    /\ UNCHANGED <<jobVars, resumed>>

Wake ==
    /\ pc = "wait" /\ Step("poll")
    /\ UNCHANGED <<faults, jobVars, target, lastProcessedBlueScore, saved, resumed>>

\* The clean exit.  When its checkpoint cannot be written the loop rejects before
\* it calls the resolver: unless that ends the process (Crash), nobody will.
Exit ==
    /\ pc = "exit" /\ pc' = "ended"
    /\ \/ /\ saved' = lastProcessedBlueScore
          /\ stop' = [c \in Callers |->
                        IF c = shutdownResolver /\ stop[c] = "waiting" THEN "resolved" ELSE stop[c]]
          /\ UNCHANGED <<faults, stranded>>
       \/ /\ faults < MaxFaults /\ faults' = faults + 1
          /\ stranded' = stranded \cup {c \in Callers : stop[c] = "waiting"}
          /\ UNCHANGED <<saved, stop>>
    /\ UNCHANGED <<up, jobVars, score, target, lastProcessedBlueScore, resumed,
                   isRunning, isShuttingDown, shutdownResolver, stops>>

-----------------------------------------------------------------------------
Crash ==
    /\ JobCrash
    /\ pc' = "off" /\ target' = 0 /\ lastProcessedBlueScore' = 0
    /\ isRunning' = FALSE /\ isShuttingDown' = FALSE
    /\ stop' = [c \in Callers |-> "idle"] /\ shutdownResolver' = None /\ stranded' = {}
    /\ UNCHANGED <<score, saved, resumed, stops>>

\* A new process, whose constructor loads the checkpoint.
Restart ==
    /\ ~up /\ up' = TRUE
    /\ lastProcessedBlueScore' = saved
    /\ UNCHANGED <<faults, jobVars, score, pc, target, saved, resumed, control>>

LoopStep == Poll \/ FindJobs \/ Resume \/ SaveCheckpoint \/ Wake \/ Exit

Next ==
    \/ JobStep /\ UNCHANGED <<loop, control>>
    \/ LoopStep \/ CycleFails
    \/ NewBlock \/ Start \/ Crash \/ Restart
    \/ \E c \in Callers : Stop(c) \/ StopReturns(c)

\* The event loop runs what is ready: the poll loop, whose calls to the node
\* return or time out, or, once it has ended, the continuation of stop.
Fairness == WF_vars(LoopStep \/ \E c \in Callers : StopReturns(c))

Spec == Init /\ [][Next]_vars /\ Fairness

-----------------------------------------------------------------------------
(* Properties *)
\* The types; the daemon says it is running as long as its loop is.
TypeOK ==
    /\ \A j \in Jobs : file[j] \in Record \cup {None} /\ \A n \in Runs : run[j][n].cursor \in 0..Items
    /\ {saved, lastProcessedBlueScore, target, resumed} \subseteq 0..score
    /\ pc \in {"off", "poll", "resume", "start", "save", "wait", "exit", "ended"}
    /\ \A c \in Callers : stop[c] \in {"idle", "waiting", "resolved"}
    /\ shutdownResolver \in Callers \cup {None}
    /\ (pc \notin {"off", "ended"} => isRunning) /\ (isRunning => up)

\* The checkpoint of a job names only items whose work was done, and a job is
\* completed only when all of it was, however often it was resumed, in however
\* many runs at once and after whatever crash.
CheckpointCovered ==
    \A j \in Jobs : file[j] # None =>
        /\ (1..file[j].checkpoint) \subseteq {i \in 1..Items : <<j, i>> \in done}
        /\ file[j].status = "completed" => \A i \in 1..Items : <<j, i>> \in done

\* The checkpoint file names no score whose cycle did not resume the jobs: a
\* cycle that failed, or a crash, is made up for by a later cycle.
SavedWasResumed == saved <= resumed

\* A record of jobs.json stays, its checkpoint never goes back and a finished
\* job stays finished, whichever writes fail and whatever is read before an await
\* and stored after it, but for a step that cuts the file short, and for a job that
\* resumePendingJobs found unfinished while it had a live run: it takes the record
\* of a running job for an abandoned one, and runs it even when it has completed
\* by then.  Once the runs of that job are over the promise holds again.
RecordAdvances ==
    [][\A j \in Jobs : file[j] # None =>
         \/ torn' # torn \/ j \in doubled
         \/ /\ file'[j] # None
            /\ file'[j].checkpoint >= file[j].checkpoint
            /\ file[j].status \in {"completed", "failed"} => file'[j].status = file[j].status]_file

\* No run does an item again that the recorded checkpoint covers, unless the
\* job had two runs at once.
NotRedone ==
    [][\A j \in Jobs, n \in Runs :
         run'[j][n].cursor > run[j][n].cursor /\ run[j][n].pc = "running" /\ file[j] # None =>
             file[j].checkpoint < run'[j][n].cursor \/ j \in doubled]_run

\* A job that is not finished has a live run, or gets one, once the node is
\* ahead of the daemon, unless the daemon stops or dies first.
JobsResumed ==
    \A j \in Jobs :
        (Unfinished(j) /\ pc = "poll" /\ score > lastProcessedBlueScore)
            ~> (Live(j) # {} \/ ~Unfinished(j) \/ isShuttingDown \/ ~up)

\* The callers of stop return, all but those whose place as the one the loop
\* resolves another caller took, who called when the loop had already ended, or
\* whose loop could not write its last checkpoint and ended without calling the
\* resolver.
StopEnds == (\E c \in Callers : stop[c] = "waiting") ~> (\A c \in Callers : stop[c] = "idle" \/ c \in stranded)

=============================================================================
