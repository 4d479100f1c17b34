------------------------------ MODULE SendGuard ------------------------------
(***************************************************************************)
(* The guard of the dev server's `POST /api/tx/send'                       *)
(* (packages/dev-server/src/routes/send-guard.ts and the handler in        *)
(* dapp-tx.ts): one lock file, one hash-chained append-only log, and the   *)
(* memory each dev-server process keeps of it.                             *)
(*                                                                         *)
(* A server is one process life.  Its handlers interleave at awaits only,  *)
(* while other processes may act between any two of its file operations.   *)
(* A hash is modelled by the position it stands for: an event carries the  *)
(* position its writer believed to be the head, and a log verifies when    *)
(* every event carries that of its predecessor.                            *)
(***************************************************************************)
EXTENDS Naturals, Sequences, FiniteSets, FiniteSetsExt

CONSTANTS
    Servers,      \* dev-server process lives
    NoServer,
    Keys,         \* idempotency keys
    NoKey,        \* a request without a key
    Payments,     \* payment terms (network, from, to, amount, feeRate)
    MaxKeys,      \* MAX_IDEMPOTENCY_KEYS
    MaxSends,     \* bound on admitted sends
    MaxFaults,    \* bound on failed log writes
    Operators     \* operators that may archive a stale lock

ASSUME GuardConstants ==
    /\ NoServer \notin Servers
    /\ NoKey \notin Keys
    /\ MaxKeys \in Nat /\ MaxSends \in Nat /\ MaxFaults \in Nat

VARIABLES
    life,      \* "off", "up" or "dead" for each server
    lock,      \* the server the lock file names
    log,       \* the verified part of the log file
    damaged,   \* does the log end in a torn line?
    mem,       \* the memory of each server
    sends,     \* the admitted sends
    reading,   \* operators between reading the stale lock and renaming it
    faults,    \* failed writes so far
    usurped    \* ghost: an operator has renamed the lock of a running server

vars == <<life, lock, log, damaged, mem, sends, reading, faults, usurped>>

Requests == [key : Keys \cup {NoKey}, payment : Payments, allowNew : BOOLEAN]

EmptyMemory == [owner |-> FALSE, conflict |-> FALSE, unavailable |-> FALSE,
                head |-> 0, nextSeq |-> 1,
                byKey |-> [k \in Keys |-> "none"], unknown |-> {}]

NoSend == [pc |-> "none"]
Ids == 1..MaxSends
\* The steps in the middle of a turn of the server's event loop.
MidTurn == {"admitted", "checked", "unrecorded"}
Running == MidTurn \cup {"begun", "signed", "sent"}

Init ==
    /\ life = [s \in Servers |-> "off"]
    /\ lock = NoServer
    /\ log = <<>>
    /\ damaged = FALSE
    /\ mem = [s \in Servers |-> EmptyMemory]
    /\ sends = [i \in Ids |-> NoSend]
    /\ reading = {}
    /\ faults = 0
    /\ usurped = FALSE

SendsOf(s) == {i \in Ids : sends[i].pc # "none" /\ sends[i].server = s}
Turn(s) ==
    life[s] = "up" /\ \A i \in SendsOf(s) : sends[i].pc \notin MidTurn
InFlight(s) == {i \in SendsOf(s) : sends[i].pc \in Running \ {"admitted"}}

-----------------------------------------------------------------------------
\* What load() makes of a log: its begins, and how they ended.
Begins(l) == {n \in DOMAIN l : l[n].op = "begin"}
Ended(l, q, op) == {n \in DOMAIN l : l[n].op = op /\ l[n].seq = q}
\* The number of lines before the first one whose chain is broken.
Verified(l) ==
    CHOOSE n \in 0..Len(l) :
        /\ \A m \in 1..n : l[m].prev = m - 1
        /\ n < Len(l) => l[n + 1].prev # n

\* The begins that were not abandoned.
Kept(l) == {n \in Begins(l) : Ended(l, l[n].seq, "abandon") = {}}

\* Mutant: only a recorded unknown outcome blocks the payment.
UnknownIn_Finished(l) ==
    {<<l[n].req.payment, l[n].seq>> : n \in
        {m \in Kept(l) : \E f \in Ended(l, l[m].seq, "finish") :
                            l[f].outcome = "unknown"}}

\* A send that finished unknown, or never finished, blocks its payment.
UnknownIn(l) ==
    {<<l[n].req.payment, l[n].seq>> : n \in
        {m \in Kept(l) : \A f \in Ended(l, l[m].seq, "finish") :
                            l[f].outcome = "unknown"}}

\* Mutant: a key whose request never finished is forgotten by a restart.
KeysIn_Finished(l) ==
    [k \in Keys |->
        LET of == {n \in Kept(l) : l[n].req.key = k} IN
        IF \E n \in of : Ended(l, l[n].seq, "finish") # {} THEN "done" ELSE "none"]

\* The entry of a key: in flight until its request finished.
KeysIn(l) ==
    [k \in Keys |->
        LET of == {n \in Kept(l) : l[n].req.key = k} IN
        IF \E n \in of : Ended(l, l[n].seq, "finish") # {} THEN "done"
        ELSE IF of # {} THEN "in-flight" ELSE "none"]

\* load: the memory after reading the log as far as it verifies; a log that
\* does not verify to its end makes the guard unavailable.
Loaded(m) ==
    LET n == Verified(log)
        l == SubSeq(log, 1, n)
    IN  [m EXCEPT !.head = n,
                  !.nextSeq = Max({@} \cup {l[i].seq + 1 : i \in DOMAIN l}),
                  !.byKey = KeysIn(l),
                  !.unknown = UnknownIn(l),
                  !.unavailable = @ \/ damaged \/ n < Len(log)]

\* Mutant: a guard that takes the lock after a conflict keeps its old memory.
EnsureOwner_NoReload(s, m) ==
    CASE m.owner /\ lock = s -> m
      [] m.owner /\ lock # s -> [m EXCEPT !.owner = FALSE, !.conflict = TRUE]
      [] ~m.owner /\ lock # NoServer -> [m EXCEPT !.conflict = TRUE]
      [] ~m.owner /\ lock = NoServer -> [m EXCEPT !.owner = TRUE, !.conflict = FALSE]

\* ensureOwner: the memory after it.  The lock is only ever created; a guard
\* that takes it after a conflict reads the log again.
EnsureOwner(s, m) ==
    CASE m.owner /\ lock = s -> m
      [] m.owner /\ lock # s -> [m EXCEPT !.owner = FALSE, !.conflict = TRUE]
      [] ~m.owner /\ lock # NoServer -> [m EXCEPT !.conflict = TRUE]
      [] ~m.owner /\ lock = NoServer ->
            LET taken == [m EXCEPT !.owner = TRUE, !.conflict = FALSE] IN
            IF m.conflict THEN Loaded([taken EXCEPT !.unavailable = FALSE])
            ELSE taken

LockAfter(s, m) == IF EnsureOwner(s, m).owner THEN s ELSE lock

Event(s, i, op, outcome) ==
    [op |-> op, seq |-> sends[i].seq, req |-> sends[i].req, outcome |-> outcome,
     prev |-> mem[s].head]

\* append: the line is written and fsynced, and the head moves to it.
Appends(s, e, m) ==
    /\ log' = Append(log, e)
    /\ mem' = [mem EXCEPT ![s] = [m EXCEPT !.head = Len(log) + 1]]
    /\ UNCHANGED <<damaged, faults>>

\* append fails: nothing, part of the line or all of it is in the file, and
\* the guard turns unavailable.
AppendFails(s, e, m) ==
    /\ faults < MaxFaults
    /\ faults' = faults + 1
    /\ mem' = [mem EXCEPT ![s] = [m EXCEPT !.unavailable = TRUE]]
    /\ \/ UNCHANGED <<log, damaged>>
       \/ damaged' = TRUE /\ UNCHANGED log
       \/ log' = Append(log, e) /\ UNCHANGED damaged

\* tryAppend where the caller goes on whatever its result: a guard that does
\* not believe to own the log leaves it alone.
TryAppend(s, e, m) ==
    \/ m.owner /\ Appends(s, e, m)
    \/ m.owner /\ AppendFails(s, e, m)
    \/ /\ ~m.owner
       /\ mem' = [mem EXCEPT ![s] = m]
       /\ UNCHANGED <<log, damaged, faults>>

-----------------------------------------------------------------------------
\* The first request of a process makes its guard: ensureOwner, then load.
Start(s) ==
    /\ life[s] = "off"
    /\ life' = [life EXCEPT ![s] = "up"]
    /\ lock' = LockAfter(s, EmptyMemory)
    /\ mem' = [mem EXCEPT ![s] = Loaded(EnsureOwner(s, EmptyMemory))]
    /\ UNCHANGED <<log, damaged, sends, reading, faults, usurped>>

\* admit lets the request proceed.
Admits(s, m, r) ==
    /\ m.owner /\ ~m.unavailable
    /\ r.key # NoKey =>
         /\ m.byKey[r.key] = "none"
         /\ Cardinality({k \in Keys : m.byKey[k] # "none"}) < MaxKeys
    /\ \A i \in InFlight(s) : sends[i].req.payment # r.payment
    /\ r.allowNew \/ \A u \in m.unknown : u[1] # r.payment

\* A request is admitted and takes its sequence number.
Admit(s, i, r) ==
    /\ Turn(s)
    /\ sends[i].pc = "none" /\ \A j \in 1..(i - 1) : sends[j].pc # "none"
    /\ LET m == EnsureOwner(s, mem[s]) IN
       /\ Admits(s, m, r)
       /\ mem' = [mem EXCEPT ![s] = [m EXCEPT !.nextSeq = @ + 1]]
       /\ sends' = [sends EXCEPT ![i] =
             [pc |-> "admitted", server |-> s, req |-> r, seq |-> m.nextSeq]]
    /\ lock' = LockAfter(s, mem[s])
    /\ UNCHANGED <<life, log, damaged, reading, faults, usurped>>

\* A refused or replayed request: all it can change is what ensureOwner found.
Refuse(s) ==
    /\ Turn(s)
    /\ EnsureOwner(s, mem[s]) # mem[s]
    /\ mem' = [mem EXCEPT ![s] = EnsureOwner(s, mem[s])]
    /\ lock' = LockAfter(s, mem[s])
    /\ UNCHANGED <<life, log, damaged, sends, reading, faults, usurped>>

\* begin: the event is durable before anything is planned.
Begin(i) ==
    /\ sends[i].pc = "admitted"
    /\ LET s == sends[i].server  r == sends[i].req  m == mem[s] IN
       Appends(s, Event(s, i, "begin", "none"),
               IF r.key = NoKey THEN m ELSE [m EXCEPT !.byKey[r.key] = "in-flight"])
    /\ sends' = [sends EXCEPT ![i].pc = "begun"]
    /\ UNCHANGED <<life, lock, reading, usurped>>

\* begin fails to record: the send is refused.
BeginFails(i) ==
    /\ sends[i].pc = "admitted"
    /\ LET s == sends[i].server IN
       AppendFails(s, Event(s, i, "begin", "none"), mem[s])
    /\ sends' = [sends EXCEPT ![i].pc = "unsent"]
    /\ UNCHANGED <<life, lock, reading, usurped>>

\* abandon: nothing was sent; the key is free again.
Abandon(s, i, m) ==
    LET k == sends[i].req.key IN
    /\ TryAppend(s, Event(s, i, "abandon", "none"),
                 IF k # NoKey /\ m.byKey[k] = "in-flight"
                 THEN [m EXCEPT !.byKey[k] = "none"] ELSE m)
    /\ sends' = [sends EXCEPT ![i].pc = "unsent"]

\* Planning or signing failed, or the request was not allowed to be signed.
PlanFails(i) ==
    /\ sends[i].pc = "begun"
    /\ Turn(sends[i].server)
    /\ Abandon(sends[i].server, i, mem[sends[i].server])
    /\ UNCHANGED <<life, lock, reading, usurped>>

\* signed: the guard must still own the lock, else the send is abandoned.
SignedCheck(i) ==
    /\ sends[i].pc = "begun"
    /\ LET s == sends[i].server  m == EnsureOwner(s, mem[s]) IN
       /\ Turn(s)
       /\ lock' = LockAfter(s, mem[s])
       /\ IF m.owner
          THEN /\ mem' = [mem EXCEPT ![s] = m]
               /\ sends' = [sends EXCEPT ![i].pc = "checked"]
               /\ UNCHANGED <<log, damaged, faults>>
          ELSE Abandon(s, i, m)
    /\ UNCHANGED <<life, reading, usurped>>

\* signed: the txId is durable before the broadcast.
SignedRecord(i) ==
    /\ sends[i].pc = "checked"
    /\ LET s == sends[i].server IN
       Appends(s, Event(s, i, "signed", "none"), mem[s])
    /\ sends' = [sends EXCEPT ![i].pc = "signed"]
    /\ UNCHANGED <<life, lock, reading, usurped>>

\* signed fails to record: the caller abandons the send.
SignedRecordFails(i) ==
    /\ sends[i].pc = "checked"
    /\ LET s == sends[i].server IN
       AppendFails(s, Event(s, i, "signed", "none"), mem[s])
    /\ sends' = [sends EXCEPT ![i].pc = "unrecorded"]
    /\ UNCHANGED <<life, lock, reading, usurped>>

AbandonUnrecorded(i) ==
    /\ sends[i].pc = "unrecorded"
    /\ Abandon(sends[i].server, i, mem[sends[i].server])
    /\ UNCHANGED <<life, lock, reading, usurped>>

\* sdk.tx.send hands the transaction to the node.
Broadcast(i) ==
    /\ sends[i].pc = "signed"
    /\ Turn(sends[i].server)
    /\ sends' = [sends EXCEPT ![i].pc = "sent"]
    /\ UNCHANGED <<life, lock, log, damaged, mem, reading, faults, usurped>>

\* sdk.tx.send refuses with one of NOT_SENT_CODES.
NotSent(i) ==
    /\ sends[i].pc = "signed"
    /\ Turn(sends[i].server)
    /\ Abandon(sends[i].server, i, mem[sends[i].server])
    /\ UNCHANGED <<life, lock, reading, usurped>>

\* finish: memory follows even if the record fails; an unknown outcome is
\* added, never cleared.  The guard treats accepted and rejected alike.
Finish(i, outcome) ==
    /\ sends[i].pc = "sent"
    /\ LET s == sends[i].server  r == sends[i].req
           done == IF r.key = NoKey THEN mem[s]
                   ELSE [mem[s] EXCEPT !.byKey[r.key] = "done"]
       IN
       /\ Turn(s)
       /\ TryAppend(s, Event(s, i, "finish", outcome),
             IF outcome # "unknown" THEN done
             ELSE [done EXCEPT !.unknown = @ \cup {<<r.payment, sends[i].seq>>}])
    /\ sends' = [sends EXCEPT ![i].pc = outcome]
    /\ UNCHANGED <<life, lock, reading, usurped>>

-----------------------------------------------------------------------------
\* What becomes of the sends of a process that ends.
Orphaned(s) ==
    [i \in Ids |->
        IF i \notin SendsOf(s) \/ sends[i].pc \notin Running THEN sends[i]
        ELSE [sends[i] EXCEPT !.pc =
                IF sends[i].pc = "sent" THEN "unanswered" ELSE "unsent"]]

\* The process dies at any point, possibly in the middle of a log line.
Crash(s) ==
    /\ life[s] = "up"
    /\ life' = [life EXCEPT ![s] = "dead"]
    /\ damaged' \in IF Turn(s) THEN {damaged} ELSE {damaged, TRUE}
    /\ sends' = Orphaned(s)
    /\ mem' = [mem EXCEPT ![s] = EmptyMemory]
    /\ UNCHANGED <<lock, log, reading, faults, usurped>>

\* Mutant: a clean exit removes the lock whoever it names.
Exit_AnyLock(s) ==
    /\ Turn(s)
    /\ life' = [life EXCEPT ![s] = "dead"]
    /\ lock' = NoServer
    /\ sends' = Orphaned(s)
    /\ mem' = [mem EXCEPT ![s] = EmptyMemory]
    /\ UNCHANGED <<log, damaged, reading, faults, usurped>>

\* A clean exit releases the lock if it still names this guard.
Exit(s) ==
    /\ Turn(s)
    /\ life' = [life EXCEPT ![s] = "dead"]
    /\ lock' = IF lock = s THEN NoServer ELSE lock
    /\ sends' = Orphaned(s)
    /\ mem' = [mem EXCEPT ![s] = EmptyMemory]
    /\ UNCHANGED <<log, damaged, reading, faults, usurped>>

\* recoverStaleSendGuardLock reads a lock of a process that is not running.
\* The operator has stopped every dev server first.
RecoverRead(o) ==
    /\ o \notin reading
    /\ lock # NoServer /\ life[lock] = "dead"
    /\ \A s \in Servers : life[s] # "up"
    /\ reading' = reading \cup {o}
    /\ UNCHANGED <<life, lock, log, damaged, mem, sends, faults, usurped>>

\* It renames whatever lock is there now.
RecoverRename(o) ==
    /\ o \in reading
    /\ reading' = reading \ {o}
    /\ usurped' = (usurped \/ (lock # NoServer /\ life[lock] = "up"))
    /\ lock' = NoServer
    /\ UNCHANGED <<life, log, damaged, mem, sends, faults>>

Next ==
    \/ \E s \in Servers :
         \/ Start(s) \/ Refuse(s) \/ Crash(s) \/ Exit(s)
         \/ \E i \in Ids, r \in Requests : Admit(s, i, r)
    \/ \E i \in Ids :
         \/ Begin(i) \/ BeginFails(i) \/ PlanFails(i)
         \/ SignedCheck(i) \/ SignedRecord(i) \/ SignedRecordFails(i)
         \/ AbandonUnrecorded(i)
         \/ Broadcast(i) \/ NotSent(i)
         \/ \E o \in {"known", "unknown"} : Finish(i, o)
    \/ \E o \in Operators : RecoverRead(o) \/ RecoverRename(o)

Spec == Init /\ [][Next]_vars

-----------------------------------------------------------------------------
Events == [op : {"begin", "signed", "abandon", "finish"}, seq : Nat, req : Requests,
           outcome : {"none", "known", "unknown"}, prev : Nat]
Memories == [owner : BOOLEAN, conflict : BOOLEAN, unavailable : BOOLEAN,
             head : Nat, nextSeq : Nat,
             byKey : [Keys -> {"none", "in-flight", "done"}],
             unknown : SUBSET (Payments \X Nat)]
Admitted == [pc : Running \cup {"unsent", "known", "unknown", "unanswered"},
             server : Servers, req : Requests, seq : Nat]

\* The types; what a server takes for the head of the chain is a line of the log.
TypeOK ==
    /\ life \in [Servers -> {"off", "up", "dead"}]
    /\ lock \in Servers \cup {NoServer}
    /\ log \in Seq(Events)
    /\ damaged \in BOOLEAN
    /\ mem \in [Servers -> Memories]
    /\ \A s \in Servers : mem[s].head <= Len(log)
    /\ sends \in [Ids -> {NoSend} \cup Admitted]
    /\ reading \subseteq Operators
    /\ faults \in 0..MaxFaults
    /\ usurped \in BOOLEAN

\* A broadcast that may have reached the node and has no known result.
Open(i) == sends[i].pc \in {"sent", "unknown", "unanswered"}
Broadcasted(i) == Open(i) \/ sends[i].pc = "known"

\* A send that does not ask for it is never broadcast while another broadcast
\* of the same payment has no known outcome, across restarts, lost locks and
\* several dev servers; the one exception is an operator who took the lock of a
\* running server (send-guard.ts: the dev server never turns an unknown outcome
\* into another transaction by itself).
NoBlindRepeat ==
    [][\A i, j \in Ids :
          /\ i # j /\ sends[i].pc = "signed" /\ sends'[i].pc = "sent"
          /\ Open(j) /\ sends[j].req.payment = sends[i].req.payment
          => usurped \/ sends[i].req.allowNew]_vars

\* An idempotency key broadcasts at most once, whatever ends the process that
\* accepted it: keys are never forgotten.  The exception is an operator who took
\* the lock of a running server: a send of its that has begun goes on when the
\* server takes the lock again (ensureOwner in signed), whoever has broadcast the
\* key in between.
KeyOnce ==
    usurped \/ \A i, j \in Ids :
        /\ Broadcasted(i) /\ Broadcasted(j)
        /\ sends[i].req.key # NoKey /\ sends[i].req.key = sends[j].req.key
        => i = j

\* At most one running server believes it owns the guard, and the lock names
\* it (LOCK-RACE-1: the lock is only created, and released by its creator),
\* unless one of two operators renamed a lock that was not the one it had read.
OneOwner ==
    usurped \/ \A s \in Servers : life[s] = "up" /\ mem[s].owner => lock = s

\* Only a failed write, a torn line or a usurped lock breaks the hash chain:
\* owners that follow each other never fork it (takeOwnership reads the log
\* again).
ChainUnbroken ==
    faults = 0 /\ ~usurped => \A n \in DOMAIN log : log[n].prev = n - 1

=============================================================================
