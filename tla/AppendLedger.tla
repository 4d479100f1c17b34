---------------------------- MODULE AppendLedger ----------------------------
(***************************************************************************)
(* AppendCoordinator.appendAtomic with the log it protects: under the      *)
(* append lock a process inspects the last line, truncates it if it is not *)
(* JSON (recoverCorruptedTail), appends its own line and fsyncs.           *)
(*                                                                         *)
(* The log is the sequence of its physical lines.  A line is the fragments *)
(* written since the last newline; it parses iff it is exactly one whole   *)
(* entry.  A write may leave a part of the line, the line without its      *)
(* newline, or all of it.                                                  *)
(***************************************************************************)
EXTENDS AppendLock, Sequences

CONSTANTS
    MaxAppends,   \* bound on the appends of one process
    TornWrites,   \* what a crash during the write may leave: subset of Cuts
    ShortWrites   \* what writeSync may write without throwing: subset of Cuts

Cuts == {"part", "bare", "full"}

ASSUME LedgerAssumption ==
    /\ MaxAppends \in Nat
    /\ TornWrites \subseteq Cuts
    /\ ShortWrites \subseteq Cuts

VARIABLES
    log,    \* the physical lines of the log
    step,   \* where a holder is: "inspect", "truncate", "write", "done"
    cut,    \* the length a holder is about to truncate the log to
    n,      \* appends started by each process
    acked,  \* entries whose append was reported as done
    lost    \* ghost: acknowledged entries that did not get a line of their own: the write
            \* was short, or it went on a line that lacks only its newline

ledgerVars == <<log, step, cut, n, acked, lost>>
allVars == <<vars, ledgerVars>>

Entries == Procs \X (1..MaxAppends)
Entry(p) == <<p, n[p]>>

Fragments == [entry : Entries, whole : BOOLEAN]
Lines == [parts : Seq(Fragments) \ {<<>>}, nl : BOOLEAN]

Parses(line) == Len(line.parts) = 1 /\ line.parts[1].whole

\* The number of lines recoverCorruptedTail leaves.
AfterRepair(l) == IF l = <<>> \/ Parses(l[Len(l)]) THEN Len(l) ELSE Len(l) - 1

\* The log after writing (a cut of) the line of entry e at its end: a line
\* without a newline is continued.
Written(l, e, c) ==
    LET fragment == [entry |-> e, whole |-> c # "part"]
    IN IF l = <<>> \/ l[Len(l)].nl
       THEN Append(l, [parts |-> <<fragment>>, nl |-> c = "full"])
       ELSE [l EXCEPT ![Len(l)] = [parts |-> Append(@.parts, fragment), nl |-> c = "full"]]

\* The last line is a whole entry and lacks its newline.  recoverCorruptedTail
\* finds that it parses, and leaves it.
LacksNewline(l) == l # <<>> /\ Parses(l[Len(l)]) /\ ~l[Len(l)].nl

LedgerInit ==
    /\ Init
    /\ log = <<>>
    /\ step = [p \in Procs |-> "inspect"]
    /\ cut = [p \in Procs |-> 0]
    /\ n = [p \in Procs |-> 0]
    /\ acked = {} /\ lost = {}

-----------------------------------------------------------------------------
LedgerStart(p) ==
    /\ Start(p)
    /\ n[p] < MaxAppends
    /\ n' = [n EXCEPT ![p] = @ + 1]
    /\ step' = [step EXCEPT ![p] = "inspect"]
    /\ UNCHANGED <<log, cut, acked, lost>>

Inside(p, s) == p \in alive /\ pc[p] = "holding" /\ step[p] = s

\* recoverCorruptedTail reads the file and decides.
InspectTail(p) ==
    /\ Inside(p, "inspect")
    /\ IF AfterRepair(log) = Len(log)
         THEN step' = [step EXCEPT ![p] = "write"] /\ UNCHANGED cut
         ELSE /\ step' = [step EXCEPT ![p] = "truncate"]
              /\ cut' = [cut EXCEPT ![p] = AfterRepair(log)]
    /\ UNCHANGED <<vars, log, n, acked, lost>>

\* truncateSync(filePath, truncateTo).
TruncateTail(p) ==
    /\ Inside(p, "truncate")
    /\ cut[p] <= Len(log)
    /\ log' = SubSeq(log, 1, cut[p])
    /\ step' = [step EXCEPT ![p] = "write"]
    /\ cut' = [cut EXCEPT ![p] = 0]
    /\ UNCHANGED <<vars, n, acked, lost>>

\* Mutant: the line is written a second time.
WriteLine_Twice(p) ==
    /\ Inside(p, "write")
    /\ log' = Written(Written(log, Entry(p), "full"), Entry(p), "full")
    /\ acked' = acked \cup {Entry(p)}
    /\ lost' = IF LacksNewline(log) THEN lost \cup {Entry(p)} ELSE lost
    /\ step' = [step EXCEPT ![p] = "done"]
    /\ UNCHANGED <<vars, cut, n>>

\* writeSync and fsyncSync.  The number of bytes written is not looked at; when
\* fsyncSync throws the append fails with its line in the log.
WriteLine(p) ==
    /\ Inside(p, "write")
    /\ \E c \in ShortWrites \cup {"full"} :
         /\ log' = Written(log, Entry(p), c)
         /\ \/ /\ acked' = acked \cup {Entry(p)}
               /\ lost' = IF c # "full" \/ LacksNewline(log) THEN lost \cup {Entry(p)} ELSE lost
            \/ UNCHANGED <<acked, lost>>
    /\ step' = [step EXCEPT ![p] = "done"]
    /\ UNCHANGED <<vars, cut, n>>

\* The process dies during the write.
CrashWriting(p) ==
    /\ Inside(p, "write")
    /\ Crash(p)
    /\ \E c \in TornWrites : log' = Written(log, Entry(p), c)
    /\ UNCHANGED <<step, cut, n, acked, lost>>

LedgerNext ==
    \/ \E p \in Procs :
         \/ LedgerStart(p)
         \/ InspectTail(p) \/ TruncateTail(p) \/ WriteLine(p) \/ CrashWriting(p)
         \/ (Step(p) \/ Crash(p)) /\ UNCHANGED ledgerVars
    \/ \E f \in Files : (Age(f) \/ AdminClear(f)) /\ UNCHANGED ledgerVars

LedgerSpec == LedgerInit /\ [][LedgerNext]_allVars

LedgerStep(p) ==
    \/ InspectTail(p) \/ TruncateTail(p) \/ WriteLine(p)
    \/ Step(p) /\ UNCHANGED ledgerVars

\* A live process keeps executing: nothing it does blocks, every wait polls.
LedgerFairSpec == LedgerSpec /\ \A p \in Procs : WF_allVars(LedgerStep(p))

-----------------------------------------------------------------------------
(* Properties *)

\* The k-th smallest element of a set of numbers.
Nth(S, k) == CHOOSE i \in S : Cardinality({j \in S : j <= i}) = k

\* What a reader of the log sees (indexer.ts, backend-fs.ts): it splits the file at
\* the newlines, parses every line, the last one with or without its newline, and
\* skips those that do not parse.
ParsedAt(l) == {i \in DOMAIN l : Parses(l[i])}
ReadableIn(l) ==
    [k \in 1..Cardinality(ParsedAt(l)) |-> l[Nth(ParsedAt(l), k)].parts[1].entry]

Readable == ReadableIn(log)

\* An entry whose appendAtomic returned is a line of its own in the log,
\* whatever crashed before or since.  The exceptions are an entry whose write was
\* short, and one appended right after a line that had lost just its newline.
AckedDurable == \A e \in acked \ lost : \E k \in DOMAIN Readable : Readable[k] = e

Durable == INSTANCE DurableLog WITH entries <- Readable, acked <- acked \ lost

\* The log refines a durable log: whatever crashes, fails or is written short, and
\* whatever is repaired, a reader sees entries come at the end, one at a time and
\* none twice, and sees none go but the last one, and that only while its append
\* has not returned (or was one of the lost ones).
RefinesDurableLog == Durable!Spec

\* The types of the lock and of the log; only an entry that was acknowledged can be
\* a lost one.
LedgerTypeOK ==
    /\ TypeOK
    /\ log \in Seq(Lines)
    /\ step \in [Procs -> {"inspect", "truncate", "write", "done"}]
    /\ cut \in [Procs -> Nat]
    /\ n \in [Procs -> 0..MaxAppends]
    /\ lost \subseteq acked /\ acked \subseteq Entries

=============================================================================
