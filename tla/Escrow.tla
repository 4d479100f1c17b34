------------------------------- MODULE Escrow -------------------------------
(***************************************************************************)
(* The escrow routes of the dev server (packages/dev-server/src/routes/     *)
(* escrow.ts) over their journal (store/atomic-journal.ts), for one escrow. *)
(*                                                                         *)
(* Every server process keeps the records in a Map of objects.  A handler   *)
(* takes the object of the escrow with get, awaits, changes the object and  *)
(* stores it with set, which writes all records of the process to the       *)
(* journal file.  Handlers of one process share the object until a set of   *)
(* another escrow, or a newer journal, puts a fresh copy into the Map; from *)
(* then on they hold a copy of their own (heap, mem and base below).        *)
(*                                                                         *)
(* A funding is identified by the coin it spends, a release by the draft it *)
(* finalises: the branch and the funding it spends.                         *)
(***************************************************************************)
EXTENDS Integers, FiniteSets, FiniteSetsExt

CONSTANTS
    Procs,       \* server processes that share the journal
    Handlers,    \* requests that can be under way at once
    Setups,      \* the processes that may serve the handlers
    Coins,       \* the buyer's coins: a set of positive integers
    Branches,    \* resolution branches
    Roles,       \* buyer, seller, arbiter
    Required,    \* Required[b]: the signers of branch b
    Starts,      \* records the run starts from
    None,        \* an absent value
    MaxRequests, \* bound on the requests on the escrow
    MaxOther,    \* bound on the sets of another escrow
    MaxFaults    \* bound on crashes, failed writes and slow lock holders

Fundings == {"fund"} \X Coins
Drafts == Branches \X Coins
Funded == {"FUNDED", "PARTIALLY_SIGNED", "READY_TO_RELEASE"}
Pending == {"verification_timeout", "broadcast"}
NoSigs == [r \in Roles |-> None]
Record == [state : {"CREATED", "RELEASED"} \cup Funded,
           fund : {"none", "confirmed"} \cup Pending, ftx : Fundings \cup {None},
           draft : Drafts \cup {None}, sigs : [Roles -> Drafts \cup {None}],
           rel : {"none", "confirmed"} \cup Pending, rtx : Drafts \cup {None}]

ASSUME EscrowAssumption ==
    /\ Setups \subseteq [Handlers -> Procs]
    /\ Coins \subseteq Nat /\ IsFiniteSet(Coins)
    /\ Required \in [Branches -> (SUBSET Roles) \ {{}}] /\ "fund" \notin Branches
    /\ \A r \in Starts : r \in Record
    /\ {MaxRequests, MaxOther, MaxFaults} \subseteq Nat

VARIABLES
    procOf,     \* the process that serves each handler
    h,          \* the handlers
    heap,       \* the record objects: their value, and the journal they came from
    mem,        \* mem[p]: the object in the Map of p
    fresh,      \* fresh[p]: the journal has not changed since p read or wrote it
    other,      \* other[p]: the version of the other escrow in the Map of p
    disk,       \* the journal: the record and the other escrow
    lock,       \* the lock file: its maker, "left" by a crash, or None
    held,       \* the transactions the node holds (mempool or chain)
    flight,     \* requests that have left and not arrived
    requests, faults,
    raced,      \* ghost: two fundings, or two releases, were under way at once
    crossed,    \* ghost: a funding, preparation or signature and another request were
    lost,       \* ghost: a set has overwritten a record it had not seen
    unflushed,  \* ghost: a write of the journal has failed
    overlap     \* ghost: two processes were between load and write at once

store == <<heap, mem, fresh, other>>
node == <<held, flight>>
ghosts == <<raced, crossed, lost, unflushed, overlap>>
vars == <<procOf, h, store, disk, lock, node, requests, faults, ghosts>>

Idle == [pc |-> "idle", kind |-> None, obj |-> None, arg |-> None, tx |-> None,
         res |-> None, next |-> None]
Objects == Procs \cup Handlers
Empty == [rec |-> None, base |-> None]
Loaded(r) == [rec |-> r, base |-> r]

Init ==
    /\ procOf \in Setups
    /\ h = [x \in Handlers |-> Idle]
    /\ \E r \in Starts :
         /\ disk = [rec |-> r, other |-> 0]
         /\ heap = [o \in Objects |-> IF o \in Procs THEN Loaded(r) ELSE Empty]
         /\ held = {r.ftx} \ {None}
    /\ mem = [p \in Procs |-> p]
    /\ fresh = [p \in Procs |-> TRUE] /\ other = [p \in Procs |-> 0]
    /\ lock = None /\ flight = {}
    /\ requests = 0 /\ faults = 0
    /\ raced = FALSE /\ crossed = FALSE /\ lost = FALSE /\ unflushed = FALSE /\ overlap = FALSE

-----------------------------------------------------------------------------
(* The store *)
\* The objects that are still referenced; the others are garbage.
Collect(hp, m, hs) ==
    [o \in Objects |-> IF o \in {m[p] : p \in Procs} \cup {hs[x].obj : x \in Handlers}
                       THEN hp[o] ELSE Empty]

\* The object handler x reads the journal into.
Free(x) ==
    IF heap[procOf[x]] = Empty THEN procOf[x]
    ELSE IF heap[x] = Empty THEN x ELSE CHOOSE o \in Handlers : heap[o] = Empty

\* Handlers run in the one thread of their process, and set is synchronous.
Setting(p) == \E x \in Handlers : procOf[x] = p /\ h[x].pc \in {"set", "write", "failed"}
Runs(x, pc) == h[x].pc = pc /\ ~Setting(procOf[x])

\* checkReload and loadFromDisk: a newer journal puts a fresh object into the
\* Map.
Current(x) == IF fresh[procOf[x]] THEN mem[procOf[x]] ELSE Free(x)

\* get, by handler x, which becomes hx.
Get(x, hx) ==
    LET p == procOf[x]
        o == Current(x)
        h2 == [h EXCEPT ![x] = [hx EXCEPT !.obj = o]]
    IN /\ h' = h2
       /\ mem' = [mem EXCEPT ![p] = o]
       /\ heap' = Collect(IF fresh[p] THEN heap ELSE [heap EXCEPT ![o] = Loaded(disk.rec)], mem', h2)
       /\ other' = IF fresh[p] THEN other ELSE [other EXCEPT ![p] = disk.other]
       /\ fresh' = [fresh EXCEPT ![p] = TRUE]

\* The record handler x holds.
Rec(x) == heap[h[x].obj].rec

\* Handler x makes its record r and calls set, to go on at pc next.
Set(x, r, hx, next) ==
    /\ h' = [h EXCEPT ![x] = [hx EXCEPT !.pc = "set", !.next = next]]
    /\ heap' = [heap EXCEPT ![h[x].obj].rec = r]
    /\ UNCHANGED <<mem, fresh, other>>

\* The same, for a change that puts a new release object into the record: what
\* a reconciliation writes to the old one is lost.
SetRelease(x, r, next) ==
    /\ h' = [y \in Handlers |->
               IF y = x THEN [h[x] EXCEPT !.pc = "set", !.next = next]
               ELSE IF h[y].pc = "reconcile2" /\ h[y].obj = h[x].obj THEN [h[y] EXCEPT !.res = "replaced"]
               ELSE h[y]]
    /\ heap' = [heap EXCEPT ![h[x].obj].rec = r]
    /\ UNCHANGED <<mem, fresh, other>>

Finish(x) ==
    /\ h' = [h EXCEPT ![x] = Idle]
    /\ heap' = Collect(heap, mem, h')
    /\ UNCHANGED <<mem, fresh, other>>

Goto(x, hx, pc) == h' = [h EXCEPT ![x] = [hx EXCEPT !.pc = pc]] /\ UNCHANGED store

\* Mutant: set writes the Map as it is, without reading the journal again.
SetLoad_Stale(x) ==
    LET p == procOf[x]
        isOther == h[x].kind = "other"
    IN /\ h[x].pc = "set"
       /\ lock = None /\ lock' = p
       /\ h' = [h EXCEPT ![x].pc = "write"]
       /\ mem' = IF isOther THEN mem ELSE [mem EXCEPT ![p] = h[x].obj]
       /\ heap' = Collect(heap, mem', h')
       /\ other' = [other EXCEPT ![p] = IF isOther THEN @ + 1 ELSE @]
       /\ UNCHANGED <<procOf, fresh, disk, node, requests, faults, ghosts>>

\* acquireLock and loadFromDisk.  A lock that exists is waited for, but after
\* ten seconds it is removed and after two hundred tries done without: at
\* once when a crash left it, otherwise when its maker is slow (a fault).
SetLoad(x) ==
    LET p == procOf[x]
        isOther == h[x].kind = "other"
        o == IF isOther THEN Free(x) ELSE h[x].obj
    IN /\ h[x].pc = "set"
       /\ \/ lock = None /\ lock' = p /\ UNCHANGED faults
          \/ lock # None /\ lock' \in {lock, p}
             /\ IF lock = "left" THEN UNCHANGED faults
                ELSE faults < MaxFaults /\ faults' = faults + 1
       /\ h' = [h EXCEPT ![x].pc = "write"]
       /\ mem' = [mem EXCEPT ![p] = o]
       /\ heap' = Collect(IF isOther THEN [heap EXCEPT ![o] = Loaded(disk.rec)] ELSE heap, mem', h')
       /\ other' = [other EXCEPT ![p] = IF isOther THEN disk.other + 1 ELSE disk.other]
       /\ fresh' = [fresh EXCEPT ![p] = TRUE]
       /\ overlap' = (overlap \/ \E y \in Handlers : h[y].pc = "write")
       /\ UNCHANGED <<procOf, disk, node, requests, raced, crossed, lost, unflushed>>

\* writeToDiskWithoutLock, whose errors are only logged, and releaseLock, which
\* removes the lock that is there.
SetWrite(x) ==
    LET p == procOf[x]
        o == mem[p]
    IN /\ h[x].pc = "write"
       /\ \/ /\ disk' = [rec |-> heap[o].rec, other |-> other[p]]
             /\ fresh' = [q \in Procs |-> q = p]
             /\ lost' = (lost \/ heap[o].base # disk.rec)
             /\ UNCHANGED <<faults, unflushed>>
          \/ /\ faults < MaxFaults /\ faults' = faults + 1
             /\ unflushed' = TRUE
             /\ UNCHANGED <<disk, fresh, lost>>
       /\ lock' = None
       /\ h' = [h EXCEPT ![x] = IF h[x].next = "end" THEN Idle
                                        ELSE [h[x] EXCEPT !.pc = h[x].next, !.next = None]]
       /\ heap' = Collect([heap EXCEPT ![o].base = disk'.rec], mem, h')
       /\ UNCHANGED <<procOf, mem, other, node, requests, raced, crossed, overlap>>

-----------------------------------------------------------------------------
(* The node *)
Arrived(tx) == held' = held \cup {tx} /\ UNCHANGED flight

\* The node can take tx: its input exists and nothing else spends it.
Spendable(tx) ==
    /\ tx \notin held
    /\ tx[1] # "fund" => <<"fund", tx[2]>> \in held /\ \A b \in Branches : <<b, tx[2]>> \notin held

\* submitOnce: what it establishes, and what really happened.  A transaction
\* the node already holds is answered with an error that is no refusal.
Submitted(tx, res) ==
    CASE res = "not-sent" -> UNCHANGED node
      [] res = "accepted" -> Spendable(tx) /\ Arrived(tx)
      [] res = "rejected" -> tx \notin held /\ UNCHANGED node
      [] res = "unknown" -> \/ Spendable(tx) /\ Arrived(tx)
                            \/ flight' = flight \cup ({tx} \ held) /\ UNCHANGED held

Arrive(tx) ==
    /\ tx \in flight
    /\ flight' = flight \ {tx}
    /\ held' = IF Spendable(tx) THEN held \cup {tx} ELSE held
    /\ UNCHANGED <<procOf, h, store, disk, lock, requests, faults, ghosts>>

\* observeOnce: a finding about tx.  Whether the node's chain has accepted what
\* it holds is left open, and any look may fail.
Findings(tx) == IF tx \in held THEN {"none", "mempool_entry", "chain_accepted"} ELSE {"none"}

-----------------------------------------------------------------------------
(* The requests *)
\* Mutant: a preparation is not refused by the state.
Admits_PrepareAny(r, kind, arg) ==
    CASE kind = "fund" -> r.fund = "none"
      [] kind = "prepare" -> r.ftx # None
      [] kind = "sign" -> r.draft # None /\ arg \in Required[r.draft[1]] /\ r.ftx # None
      [] kind = "release" -> r.state = "READY_TO_RELEASE" /\ r.rel = "none"
      [] kind = "reconcile" -> TRUE

\* The conditions a request is refused by.
Admits(r, kind, arg) ==
    CASE kind = "fund" -> r.fund = "none"
      [] kind = "prepare" -> r.state \in Funded /\ r.ftx # None
      [] kind = "sign" -> r.draft # None /\ arg \in Required[r.draft[1]] /\ r.ftx # None
      [] kind = "release" -> r.state = "READY_TO_RELEASE" /\ r.rel = "none"
      [] kind = "reconcile" -> TRUE

Args(kind) == CASE kind = "prepare" -> Branches [] kind = "sign" -> Roles [] OTHER -> {None}

Others(x) == {h[y].kind : y \in Handlers \ {x}} \ {None, "other"}

\* A request gets the record and passes its checks; a signature keeps the
\* branch it checked, a release the draft, a reconciliation what is pending.
Begin(x, kind, arg) ==
    LET p == procOf[x]
        r == IF fresh[p] THEN heap[mem[p]].rec ELSE disk.rec
        hx == [Idle EXCEPT !.pc = kind, !.kind = kind, !.arg = arg,
                 !.tx = CASE kind \in {"sign", "release"} -> r.draft
                          [] kind = "reconcile" /\ r.fund \in Pending -> r.ftx
                          [] OTHER -> None,
                 !.res = IF kind = "reconcile" /\ r.rel \in Pending THEN "release" ELSE None]
    IN /\ Runs(x, "idle") /\ requests < MaxRequests /\ arg \in Args(kind)
       /\ Admits(r, kind, arg)
       /\ requests' = requests + 1
       /\ Get(x, hx)
       /\ raced' = (raced \/ (kind \in {"fund", "release"} /\ kind \in Others(x)))
       /\ crossed' = (crossed \/ (Others(x) # {} /\ (Others(x) \cup {kind}) \cap {"fund", "prepare", "sign"} # {}))
       /\ UNCHANGED <<procOf, disk, lock, node, faults, lost, unflushed, overlap>>

\* A request on another escrow stores it.
SetOther(x) ==
    /\ Runs(x, "idle") /\ disk.other < MaxOther
    /\ h' = [h EXCEPT ![x] = [Idle EXCEPT !.pc = "set", !.kind = "other", !.next = "end"]]
    /\ UNCHANGED <<procOf, store, disk, lock, node, requests, faults, ghosts>>

Step(x) == UNCHANGED <<procOf, disk, lock, requests, faults, ghosts>>
Local(x) == Step(x) /\ UNCHANGED node

-----------------------------------------------------------------------------
(* POST /:id/fund *)
\* The handler of every error up to the answer of the submission.
FundCatch(x) ==
    IF Rec(x).fund # "verification_timeout"
    THEN Set(x, [Rec(x) EXCEPT !.fund = "none", !.ftx = None], h[x], "end")
    ELSE Finish(x)

\* The coin is the first the node's answers show unspent; without one, and
\* after any failed call, the error is handled.  Without the buyer's account
\* nothing is done, and so without what a preparation, a signature or a release
\* needs.
FundBuild(x) ==
    LET free == {c \in Coins : <<"fund", c>> \notin held}
    IN /\ Runs(x, "fund")
       /\ \/ free # {} /\ Goto(x, [h[x] EXCEPT !.tx = <<"fund", Min(free)>>], "ahead")
          \/ FundCatch(x)
          \/ Finish(x)
       /\ Local(x)

\* Mutant: the transaction leaves before it is recorded.
FundAhead_Unrecorded(x) ==
    /\ Runs(x, "ahead") /\ h[x].kind = "fund"
    /\ Goto(x, h[x], "submit")
    /\ Local(x)

\* The write-ahead intent, before the transaction leaves.
FundAhead(x) ==
    /\ Runs(x, "ahead") /\ h[x].kind = "fund"
    /\ Set(x, [Rec(x) EXCEPT !.fund = "verification_timeout", !.ftx = h[x].tx], h[x], "submit")
    /\ Local(x)

Submit(x) ==
    /\ Runs(x, "submit")
    /\ \E res \in {"accepted", "not-sent", "rejected", "unknown"} :
         /\ Submitted(h[x].tx, res)
         /\ Goto(x, [h[x] EXCEPT !.res = res], "answered")
    /\ Step(x)

FundAnswered(x) ==
    /\ Runs(x, "answered") /\ h[x].kind = "fund"
    /\ CASE h[x].res = "unknown" -> Finish(x)
         [] h[x].res = "accepted" ->
              Set(x, [Rec(x) EXCEPT !.fund = "broadcast", !.ftx = h[x].tx, !.state = "FUNDED"], h[x], "end")
         [] OTHER -> Set(x, [Rec(x) EXCEPT !.fund = "none", !.ftx = None], h[x], "failed")
    /\ Local(x)

\* A refused submission is thrown after it is recorded, and recorded again.
FundFailed(x) == h[x].pc = "failed" /\ FundCatch(x) /\ Local(x)

-----------------------------------------------------------------------------
(* POST /:id/reconcile *)
\* One look at the funding, if it was pending, then one at the release; a
\* release deleted in the meantime is an error, and nothing is stored.
ReconcileFunding(x) ==
    /\ Runs(x, "reconcile")
    /\ \E f \in Findings(h[x].tx) :
         LET r == Rec(x)
             s == IF f = "chain_accepted" THEN "confirmed"
                  ELSE IF f = "mempool_entry" /\ r.fund = "verification_timeout" THEN "broadcast" ELSE r.fund
             r2 == IF h[x].tx = None THEN r
                   ELSE [r EXCEPT !.fund = s,
                           !.state = IF @ = "CREATED" /\ s \in {"confirmed", "broadcast"} THEN "FUNDED" ELSE @]
         IN IF h[x].res = "release"
            THEN /\ h' = [h EXCEPT ![x] = IF r.rel = "none" THEN Idle
                                          ELSE [@ EXCEPT !.pc = "reconcile2", !.tx = r.rtx]]
                 /\ heap' = Collect([heap EXCEPT ![h[x].obj].rec = r2], mem, h')
                 /\ UNCHANGED <<mem, fresh, other>>
            ELSE Set(x, r2, h[x], "end")
    /\ Local(x)

ReconcileRelease(x) ==
    /\ Runs(x, "reconcile2")
    /\ \E f \in Findings(h[x].tx) :
         LET r == Rec(x) IN
         Set(x, [r EXCEPT !.rel = IF h[x].res = "replaced" THEN @
                                  ELSE IF f = "chain_accepted" THEN "confirmed"
                                  ELSE IF f = "mempool_entry" /\ @ = "verification_timeout" THEN "broadcast"
                                  ELSE @,
                          !.state = IF f = "chain_accepted" THEN "RELEASED" ELSE @], h[x], "end")
    /\ Local(x)

-----------------------------------------------------------------------------
(* POST /:id/release/prepare, /:id/sign and /:id/release *)
\* Mutant: a new draft keeps the signatures of the last one.
Prepare_KeepsSigs(x) ==
    /\ Runs(x, "prepare")
    /\ \/ Finish(x)
       \/ /\ Rec(x).ftx # None
          /\ Set(x, [Rec(x) EXCEPT !.draft = <<h[x].arg, Rec(x).ftx[2]>>, !.state = "PARTIALLY_SIGNED"], h[x], "end")
    /\ Local(x)

Prepare(x) ==
    /\ Runs(x, "prepare")
    /\ \/ Finish(x)
       \/ /\ Rec(x).ftx # None
          /\ Set(x, [Rec(x) EXCEPT !.draft = <<h[x].arg, Rec(x).ftx[2]>>, !.state = "PARTIALLY_SIGNED",
                                  !.sigs = NoSigs], h[x], "end")
    /\ Local(x)

\* The draft of the moment is signed; the signers that must be complete are
\* those of the branch read before the await.
Sign(x) ==
    /\ Runs(x, "sign")
    /\ \/ Finish(x)
       \/ LET r == Rec(x)
              sigs == [r.sigs EXCEPT ![h[x].arg] = r.draft]
              all == \A role \in Required[h[x].tx[1]] : sigs[role] # None
          IN Set(x, [r EXCEPT !.sigs = sigs, !.state = IF all THEN "READY_TO_RELEASE" ELSE @], h[x], "end")
    /\ Local(x)

\* finalizeSilverSpend and invalidReleaseSignature: the draft read first, with
\* the signatures of the moment.
ReleaseCheck(x) ==
    /\ Runs(x, "release")
    /\ \/ Finish(x)
       \/ /\ \A role \in Required[h[x].tx[1]] : Rec(x).sigs[role] = h[x].tx
          /\ Goto(x, h[x], "ahead")
    /\ Local(x)

ReleaseAhead(x) ==
    /\ Runs(x, "ahead") /\ h[x].kind = "release"
    /\ SetRelease(x, [Rec(x) EXCEPT !.rel = "verification_timeout", !.rtx = h[x].tx], "submit")
    /\ Local(x)

\* A refused release is deleted from the record; an accepted one is watched for
\* ten seconds.
ReleaseAnswered(x) ==
    /\ Runs(x, "answered") /\ h[x].kind = "release"
    /\ CASE h[x].res = "unknown" -> Finish(x)
         [] h[x].res = "accepted" -> Goto(x, h[x], "poll")
         [] OTHER -> SetRelease(x, [Rec(x) EXCEPT !.rel = "none", !.rtx = None], "end")
    /\ Local(x)

ReleasePoll(x) ==
    /\ Runs(x, "poll")
    /\ \E f \in Findings(h[x].tx) :
         LET confirmed == f = "chain_accepted"
         IN SetRelease(x, [Rec(x) EXCEPT !.rel = IF confirmed THEN "confirmed" ELSE "verification_timeout",
                                         !.rtx = h[x].tx,
                                         !.state = IF confirmed THEN "RELEASED" ELSE @], "end")
    /\ Local(x)

-----------------------------------------------------------------------------
\* Process p dies and is started again: its handlers are gone, its lock file
\* stays and its Map is read from the journal.
Crash(p) ==
    /\ faults < MaxFaults /\ faults' = faults + 1
    /\ \E x \in Handlers : procOf[x] = p /\ h[x].pc # "idle"
    /\ h' = [x \in Handlers |-> IF procOf[x] = p THEN Idle ELSE h[x]]
    /\ lock' = IF lock = p THEN "left" ELSE lock
    /\ heap' = Collect([heap EXCEPT ![mem[p]] = Loaded(disk.rec)], mem, h')
    /\ fresh' = [fresh EXCEPT ![p] = TRUE]
    /\ other' = [other EXCEPT ![p] = disk.other]
    /\ UNCHANGED <<procOf, mem, disk, node, requests, ghosts>>

Next ==
    \/ \E x \in Handlers :
         \/ \E kind \in {"fund", "prepare", "sign", "release", "reconcile"}, arg \in {None} \cup Branches \cup Roles :
              Begin(x, kind, arg)
         \/ SetOther(x) \/ SetLoad(x) \/ SetWrite(x)
         \/ FundBuild(x) \/ FundAhead(x) \/ Submit(x) \/ FundAnswered(x) \/ FundFailed(x)
         \/ ReconcileFunding(x) \/ ReconcileRelease(x)
         \/ Prepare(x) \/ Sign(x)
         \/ ReleaseCheck(x) \/ ReleaseAhead(x) \/ ReleaseAnswered(x) \/ ReleasePoll(x)
    \/ \E tx \in Fundings \cup Drafts : Arrive(tx)
    \/ \E p \in Procs : Crash(p)

Spec == Init /\ [][Next]_vars

-----------------------------------------------------------------------------
(* Properties *)
\* The journal holds a record in which a release has a transaction id exactly
\* when it has a status, and so has a funding unless requests overlapped (a failed
\* one resets the record that reconcile is about to confirm); no handler or Map
\* refers to an object that does not exist.
TypeOK ==
    /\ disk.rec \in Record /\ disk.other \in 0..MaxOther + 1
    /\ (disk.rec.fund = "none" <=> disk.rec.ftx = None) \/ crossed
    /\ disk.rec.rel = "none" <=> disk.rec.rtx = None
    /\ lock \in Procs \cup {None, "left"}
    /\ held \subseteq Fundings \cup Drafts
    /\ \A p \in Procs : heap[mem[p]] # Empty
    /\ \A x \in Handlers : h[x].obj # None => heap[h[x].obj] # Empty

\* The write-ahead intent: every transaction at the node, or still on its way
\* to it, is named by the record in the journal, through unknown outcomes,
\* crashes and restarts.  The record names one funding and one release, so this
\* is also "an escrow is funded once; a funding whose outcome is unknown is
\* reconciled, never followed by another", and the same of releases.  Two
\* fundings or two releases under way at once, a set that overwrote a newer
\* record and a failed journal write are the only exceptions.
SentIsRecorded ==
    held \cup flight \subseteq {disk.rec.ftx, disk.rec.rtx} \/ raced \/ lost \/ unflushed

\* A record that says READY_TO_RELEASE has, for its own draft, the signature of
\* everyone the branch requires, unless a funding, preparation or signature
\* overlapped another request (sign awaits between the branch it reads and the
\* draft it signs).
ReadyIsSigned ==
    disk.rec.state = "READY_TO_RELEASE" =>
        (\A role \in Required[disk.rec.draft[1]] : disk.rec.sigs[role] = disk.rec.draft) \/ crossed

\* A released escrow stays released: besides a lost or failed write, only a
\* late signature takes it back (sign asks for a draft, not for a state), or a
\* request that was under way when the release was confirmed.
ReleasedIsFinal ==
    [][disk.rec.state = "RELEASED" =>
         \/ disk'.rec.state = "RELEASED" \/ crossed \/ lost' \/ unflushed
         \/ \E x \in Handlers : h[x].kind = "sign" /\ h[x].pc = "write"]_disk

\* A set of this escrow, or of another, never takes a newer version of the other
\* escrow out of the journal, unless two processes were between load and write
\* at once (a lock older than ten seconds, or waited for two hundred times, is
\* ignored).
OthersKept == [][disk'.other >= disk.other \/ overlap]_disk

=============================================================================
