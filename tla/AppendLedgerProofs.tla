------------------------- MODULE AppendLedgerProofs -------------------------
(***************************************************************************)
(* Proofs about AppendLock and AppendLedger for any number of processes,   *)
(* crashes and appends: first the lock, then the log it protects.          *)
(*                                                                         *)
(* Timely is the assumption the protocol rests on: a holder neither dies   *)
(* nor stalls past the grace between creating its lock and stamping it.    *)
(* (It is needed: empty locks of two creators have the same bytes.)        *)
(* Nothing is assumed of the writes: a crash, an error or a writeSync whose *)
(* count is not looked at may leave any part of a line.                    *)
(***************************************************************************)
EXTENDS AppendLedger, FiniteSetTheorems, SequenceTheorems, TLAPS

\* The prover of every leaf that names no other.
USE Zenon

Timely == ~CreationCrash /\ ~CanStall

\* The append lock names its live owner, in every step of its tenure.
OwnerInv ==
    /\ \A p \in Procs : p \in alive <=> pc[p] # "dead"
    /\ \A p \in Procs : pc[p] = "stamp" =>
          file["append"].kind = "empty" /\ file["append"].by = p
    /\ \A p \in Procs : pc[p] = "holding" =>
          file["append"].kind = "record" /\ file["append"].by = p

\* What an append lock that exists can be.
LockInv ==
    /\ file["append"].kind = "absent" => file["append"].by = NoProc
    /\ file["append"].kind = "legacy" => file["append"].by = NoProc
    /\ file["append"].kind = "empty" =>
          /\ ~file["append"].old
          /\ file["append"].by \in alive
          /\ pc[file["append"].by] = "stamp"
    /\ file["append"].kind = "record" =>
          /\ file["append"].by \in Procs
          /\ file["append"].by \in alive => pc[file["append"].by] = "holding"

\* Bytes judged abandoned are never those of a live process.
SeenInv ==
    \A p \in Procs :
       pc[p] \in {"recover", "judgeRecovery", "stampRecovery", "reread", "unlink"}
       => /\ seen[p].kind \in {"record", "legacy"}
          /\ seen[p].kind = "record" => seen[p].by \in Procs \ alive

\* The recovery lock names the one process inside the recovery.
RecoveryInv ==
    /\ file["recover"].kind = "absent" => file["recover"].by = NoProc
    /\ file["recover"].kind # "legacy"
    /\ \A p \in Procs : pc[p] = "stampRecovery" =>
          file["recover"].kind = "empty" /\ file["recover"].by = p
    /\ \A p \in Procs : pc[p] \in {"reread", "unlink", "releaseRecovery"} =>
          file["recover"].kind = "record" /\ file["recover"].by = p
    /\ file["recover"].by \in alive =>
          pc[file["recover"].by] \in {"stampRecovery", "reread", "unlink", "releaseRecovery"}

\* From the comparison to the unlink the append lock does not change.
UnlinkInv ==
    \A p \in Procs : pc[p] = "unlink" => SameBytes(file["append"], seen[p])

\* Every conjunct of the inductive invariant but the types.
Protocol == OwnerInv /\ LockInv /\ SeenInv /\ RecoveryInv /\ UnlinkInv

IInv == TypeOK /\ Protocol

-----------------------------------------------------------------------------
\* The type invariant is preserved by every step, without any assumption on
\* timing.
LEMMA TypeStep == TypeOK /\ [Next]_vars => TypeOK'
<1> SUFFICES ASSUME TypeOK, [Next]_vars PROVE TypeOK'
  BY ZenonT(60)
<1> USE ConstantsAssumption DEF TypeOK, Goto, Files, FileStates, PCs
<1>1. ASSUME NEW p \in Procs, Start(p) PROVE TypeOK'
  BY <1>1, SMT DEF Start
<1>2. ASSUME NEW p \in Procs, AcquireCreate(p) PROVE TypeOK'
  BY <1>2 DEF AcquireCreate, Create, Created
<1>3. ASSUME NEW p \in Procs, AcquireExists(p) PROVE TypeOK'
  BY <1>3 DEF AcquireExists
<1>4. ASSUME NEW p \in Procs, JudgeLock(p) PROVE TypeOK'
  BY <1>4, ZenonT(60) DEF JudgeLock, Verdict
<1>5. ASSUME NEW p \in Procs, Wait(p) PROVE TypeOK'
  BY <1>5, SMT DEF Wait
<1>6. ASSUME NEW p \in Procs, TimeOut(p) PROVE TypeOK'
  BY <1>6, SMT DEF TimeOut
<1>7. ASSUME NEW p \in Procs, Stamp(p) PROVE TypeOK'
  BY <1>7 DEF Stamp, WriteRecord, Record
<1>8. ASSUME NEW p \in Procs, Release(p) PROVE TypeOK'
  BY <1>8, SMT DEF Release, Unlink, Absent, Owning
<1>9. ASSUME NEW p \in Procs, RecoveryCreate(p) PROVE TypeOK'
  BY <1>9 DEF RecoveryCreate, Create, Created
<1>10. ASSUME NEW p \in Procs, RecoveryExists(p) PROVE TypeOK'
  BY <1>10 DEF RecoveryExists
<1>11. ASSUME NEW p \in Procs, JudgeRecovery(p) PROVE TypeOK'
  BY <1>11 DEF JudgeRecovery, Verdict, Absent
<1>12. ASSUME NEW p \in Procs, StampRecovery(p) PROVE TypeOK'
  BY <1>12, ZenonT(60) DEF StampRecovery, WriteRecord, Record
<1>13. ASSUME NEW p \in Procs, StampRecoveryFails(p) PROVE TypeOK'
  BY <1>13 DEF StampRecoveryFails, UnlinkIf, Absent
<1>14. ASSUME NEW p \in Procs, Reread(p) PROVE TypeOK'
  BY <1>14 DEF Reread
<1>15. ASSUME NEW p \in Procs, UnlinkAbandoned(p) PROVE TypeOK'
  BY <1>15 DEF UnlinkAbandoned, Unlink, Absent
<1>16. ASSUME NEW p \in Procs, ReleaseRecovery(p) PROVE TypeOK'
  BY <1>16 DEF ReleaseRecovery, UnlinkIf, Absent
<1>17. ASSUME NEW p \in Procs, Crash(p) PROVE TypeOK'
  BY <1>17, SMT DEF Crash, Absent
<1>18. ASSUME NEW f \in Files, Age(f) PROVE TypeOK'
  <2>1. file[f] \in FileStates
    OBVIOUS
  <2>2. [file[f] EXCEPT !.old = TRUE] \in FileStates
    BY <2>1
  <2>3. file' = [file EXCEPT ![f] = [file[f] EXCEPT !.old = TRUE]]
    BY <1>18 DEF Age
  <2> QED
    BY <1>18, <2>2, <2>3, SMT DEF Age
<1>19. ASSUME NEW f \in Files, AdminClear(f) PROVE TypeOK'
  BY <1>19 DEF AdminClear, Unlink, Absent
<1>20. CASE UNCHANGED vars
  BY <1>20 DEF vars
<1> QED
  BY <1>1, <1>2, <1>3, <1>4, <1>5, <1>6, <1>7, <1>8, <1>9, <1>10, <1>11, <1>12, <1>13, <1>14, <1>15, <1>16, <1>17, <1>18, <1>19, <1>20,
     SMTT(30) DEF Next, Step

\* The initial states are typed, with or without a lock of an earlier release.
LEMMA InitTypes == Init => TypeOK
<1> USE ConstantsAssumption DEF Init, TypeOK, Files, FileStates, PCs
<1>1. Absent \in FileStates /\ Legacy \in FileStates
  BY DEF Absent, Legacy
<1> QED
  BY <1>1, SMT

\* Type correctness of the append lock, for every set of processes.
THEOREM TypeCorrect == Spec => []TypeOK
  BY InitTypes, TypeStep, PTL DEF Spec

\* A step of the protocol preserves the inductive invariant, provided owners
\* stamp in time.
LEMMA ProtocolStep ==
    ASSUME Timely, TypeOK, TypeOK', Protocol, [Next]_vars
    PROVE  Protocol'
<1> USE ConstantsAssumption DEF Protocol, TypeOK, Goto, Files, FileStates, PCs
<1>1. ASSUME NEW p \in Procs, Start(p) PROVE Protocol'
  <2>1. OwnerInv'
    BY <1>1, SMT DEF Start, OwnerInv
  <2>2. LockInv'
    BY <1>1 DEF Start, LockInv, OwnerInv
  <2>3. SeenInv'
    BY <1>1, SMT DEF Start, SeenInv, OwnerInv, LockInv
  <2>4. RecoveryInv'
    BY <1>1, SMT DEF Start, RecoveryInv, OwnerInv
  <2>5. UnlinkInv'
    BY <1>1, SMTT(30) DEF Start, UnlinkInv, SeenInv, OwnerInv, LockInv, RecoveryInv, SameBytes
  <2> QED BY <2>1, <2>2, <2>3, <2>4, <2>5, ZenonT(60)
<1>2. ASSUME NEW p \in Procs, AcquireCreate(p) PROVE Protocol'
  <2>1. OwnerInv'
    BY <1>2, SMT DEF AcquireCreate, Create, Created, OwnerInv
  <2>2. LockInv'
    BY <1>2 DEF AcquireCreate, Create, Created, LockInv, OwnerInv
  <2>3. SeenInv'
    BY <1>2, SMT DEF AcquireCreate, Create, Created, SeenInv, OwnerInv, LockInv
  <2>4. RecoveryInv'
    BY <1>2, SMTT(30) DEF AcquireCreate, Create, Created, RecoveryInv, OwnerInv
  <2>5. UnlinkInv'
    BY <1>2, SMTT(30) DEF AcquireCreate, Create, Created, UnlinkInv, SeenInv, OwnerInv, LockInv,
       RecoveryInv, SameBytes
  <2> QED BY <2>1, <2>2, <2>3, <2>4, <2>5
<1>3. ASSUME NEW p \in Procs, AcquireExists(p) PROVE Protocol'
  <2>1. OwnerInv'
    BY <1>3, SMT DEF AcquireExists, OwnerInv
  <2>2. LockInv'
    BY <1>3 DEF AcquireExists, LockInv, OwnerInv
  <2>3. SeenInv'
    BY <1>3, SMT DEF AcquireExists, SeenInv, OwnerInv, LockInv
  <2>4. RecoveryInv'
    BY <1>3, SMTT(30) DEF AcquireExists, RecoveryInv, OwnerInv
  <2>5. UnlinkInv'
    BY <1>3, SMTT(30) DEF AcquireExists, UnlinkInv, SeenInv, OwnerInv, LockInv, RecoveryInv, SameBytes
  <2> QED BY <2>1, <2>2, <2>3, <2>4, <2>5
<1>4. ASSUME NEW p \in Procs, JudgeLock(p) PROVE Protocol'
  <2>1. OwnerInv'
    BY <1>4, SMT DEF JudgeLock, Verdict, OwnerInv
  <2>2. LockInv'
    BY <1>4, SMT DEF JudgeLock, Verdict, LockInv, OwnerInv
  <2>3. SeenInv'
    BY <1>4, SMT DEF JudgeLock, Verdict, SeenInv, OwnerInv, LockInv
  <2>4. RecoveryInv'
    BY <1>4, SMT DEF JudgeLock, Verdict, RecoveryInv, OwnerInv
  <2>5. UnlinkInv'
    BY <1>4, SMTT(30) DEF JudgeLock, Verdict, UnlinkInv, SeenInv, OwnerInv, LockInv, RecoveryInv,
       SameBytes
  <2> QED BY <2>1, <2>2, <2>3, <2>4, <2>5
<1>5. ASSUME NEW p \in Procs, Wait(p) PROVE Protocol'
  <2>1. OwnerInv'
    BY <1>5, SMT DEF Wait, OwnerInv
  <2>2. LockInv'
    BY <1>5, ZenonT(60) DEF Wait, LockInv, OwnerInv
  <2>3. SeenInv'
    BY <1>5, SMT DEF Wait, SeenInv, OwnerInv, LockInv
  <2>4. RecoveryInv'
    BY <1>5, SMTT(30) DEF Wait, RecoveryInv, OwnerInv
  <2>5. UnlinkInv'
    BY <1>5, SMTT(30) DEF Wait, UnlinkInv, SeenInv, OwnerInv, LockInv, RecoveryInv, SameBytes
  <2> QED BY <2>1, <2>2, <2>3, <2>4, <2>5
<1>6. ASSUME NEW p \in Procs, TimeOut(p) PROVE Protocol'
  <2>1. OwnerInv'
    BY <1>6, SMTT(30) DEF TimeOut, OwnerInv
  <2>2. LockInv'
    BY <1>6, ZenonT(60) DEF TimeOut, LockInv, OwnerInv
  <2>3. SeenInv'
    BY <1>6, SMTT(30) DEF TimeOut, SeenInv, OwnerInv, LockInv
  <2>4. RecoveryInv'
    BY <1>6, SMTT(30) DEF TimeOut, RecoveryInv, OwnerInv
  <2>5. UnlinkInv'
    BY <1>6, SMTT(30) DEF TimeOut, UnlinkInv, SeenInv, OwnerInv, LockInv, RecoveryInv, SameBytes
  <2> QED BY <2>1, <2>2, <2>3, <2>4, <2>5
<1>7. ASSUME NEW p \in Procs, Stamp(p) PROVE Protocol'
  <2>1. OwnerInv'
    BY <1>7, SMTT(30) DEF Stamp, WriteRecord, Record, OwnerInv
  <2>2. LockInv'
    BY <1>7, ZenonT(60) DEF Stamp, WriteRecord, Record, LockInv, OwnerInv
  <2>3. SeenInv'
    BY <1>7, SMTT(30) DEF Stamp, WriteRecord, Record, SeenInv, OwnerInv, LockInv
  <2>4. RecoveryInv'
    BY <1>7, SMTT(30) DEF Stamp, WriteRecord, Record, RecoveryInv, OwnerInv
  <2>5. UnlinkInv'
    BY <1>7, SMTT(30) DEF Stamp, WriteRecord, Record, UnlinkInv, SeenInv, OwnerInv, LockInv,
       RecoveryInv, SameBytes
  <2> QED BY <2>1, <2>2, <2>3, <2>4, <2>5
<1>8. ASSUME NEW p \in Procs, Release(p) PROVE Protocol'
  <2>1. OwnerInv'
    BY <1>8, SMT DEF Release, Unlink, Absent, Owning, OwnerInv
  <2>2. LockInv'
    BY <1>8 DEF Release, Unlink, Absent, Owning, LockInv, OwnerInv
  <2>3. SeenInv'
    BY <1>8, SMTT(30) DEF Release, Unlink, Absent, Owning, SeenInv, OwnerInv, LockInv
  <2>4. RecoveryInv'
    BY <1>8, SMT DEF Release, Unlink, Absent, Owning, RecoveryInv, OwnerInv
  <2>5. UnlinkInv'
    BY <1>8, SMTT(30) DEF Release, Unlink, Absent, Owning, UnlinkInv, SeenInv, OwnerInv, LockInv,
       RecoveryInv, SameBytes
  <2> QED BY <2>1, <2>2, <2>3, <2>4, <2>5
<1>9. ASSUME NEW p \in Procs, RecoveryCreate(p) PROVE Protocol'
  <2>1. OwnerInv'
    BY <1>9, SMT DEF RecoveryCreate, Create, Created, OwnerInv
  <2>2. LockInv'
    BY <1>9 DEF RecoveryCreate, Create, Created, LockInv, OwnerInv
  <2>3. SeenInv'
    BY <1>9, SMT DEF RecoveryCreate, Create, Created, SeenInv, OwnerInv, LockInv
  <2>4. RecoveryInv'
    BY <1>9, SMTT(30) DEF RecoveryCreate, Create, Created, RecoveryInv, OwnerInv
  <2>5. UnlinkInv'
    BY <1>9, SMTT(30) DEF RecoveryCreate, Create, Created, UnlinkInv, SeenInv, OwnerInv, LockInv,
       RecoveryInv, SameBytes
  <2> QED BY <2>1, <2>2, <2>3, <2>4, <2>5
<1>10. ASSUME NEW p \in Procs, RecoveryExists(p) PROVE Protocol'
  <2>1. OwnerInv'
    BY <1>10, SMT DEF RecoveryExists, OwnerInv
  <2>2. LockInv'
    BY <1>10 DEF RecoveryExists, LockInv, OwnerInv
  <2>3. SeenInv'
    BY <1>10, SMT DEF RecoveryExists, SeenInv, OwnerInv, LockInv
  <2>4. RecoveryInv'
    BY <1>10, SMTT(30) DEF RecoveryExists, RecoveryInv, OwnerInv
  <2>5. UnlinkInv'
    BY <1>10, SMTT(30) DEF RecoveryExists, UnlinkInv, SeenInv, OwnerInv, LockInv, RecoveryInv, SameBytes
  <2> QED BY <2>1, <2>2, <2>3, <2>4, <2>5
<1>11. ASSUME NEW p \in Procs, JudgeRecovery(p) PROVE Protocol'
  <2>1. OwnerInv'
    BY <1>11, SMT DEF JudgeRecovery, Verdict, OwnerInv
  <2>2. LockInv'
    BY <1>11 DEF JudgeRecovery, Verdict, LockInv, OwnerInv
  <2>3. SeenInv'
    BY <1>11, SMT DEF JudgeRecovery, Verdict, SeenInv, OwnerInv, LockInv
  <2>4. RecoveryInv'
    BY <1>11, SMT DEF JudgeRecovery, Verdict, RecoveryInv, OwnerInv
  <2>5. UnlinkInv'
    BY <1>11, SMTT(30) DEF JudgeRecovery, Verdict, UnlinkInv, SeenInv, OwnerInv, LockInv,
       RecoveryInv, SameBytes
  <2> QED BY <2>1, <2>2, <2>3, <2>4, <2>5
<1>12. ASSUME NEW p \in Procs, StampRecovery(p) PROVE Protocol'
  <2>1. OwnerInv'
    BY <1>12, SMT DEF StampRecovery, WriteRecord, Record, OwnerInv
  <2>2. LockInv'
    BY <1>12, ZenonT(60) DEF StampRecovery, WriteRecord, Record, LockInv, OwnerInv
  <2>3. SeenInv'
    BY <1>12, SMT DEF StampRecovery, WriteRecord, Record, SeenInv, OwnerInv, LockInv
  <2>4. RecoveryInv'
    BY <1>12, SMTT(30) DEF StampRecovery, WriteRecord, Record, RecoveryInv, OwnerInv
  <2>5. UnlinkInv'
    BY <1>12, SMTT(30) DEF StampRecovery, WriteRecord, Record, UnlinkInv, SeenInv, OwnerInv,
       LockInv, RecoveryInv, SameBytes
  <2> QED BY <2>1, <2>2, <2>3, <2>4, <2>5
<1>13. ASSUME NEW p \in Procs, StampRecoveryFails(p) PROVE Protocol'
  <2>1. OwnerInv'
    BY <1>13, SMT DEF StampRecoveryFails, UnlinkIf, Absent, OwnerInv
  <2>2. LockInv'
    BY <1>13, ZenonT(60) DEF StampRecoveryFails, UnlinkIf, Absent, LockInv, OwnerInv
  <2>3. SeenInv'
    BY <1>13, SMTT(30) DEF StampRecoveryFails, UnlinkIf, Absent, SeenInv, OwnerInv, LockInv
  <2>4. RecoveryInv'
    BY <1>13, SMTT(30) DEF StampRecoveryFails, UnlinkIf, Absent, RecoveryInv, OwnerInv
  <2>5. UnlinkInv'
    BY <1>13, SMTT(30) DEF StampRecoveryFails, UnlinkIf, Absent, UnlinkInv, SeenInv, OwnerInv,
       LockInv, RecoveryInv, SameBytes
  <2> QED BY <2>1, <2>2, <2>3, <2>4, <2>5
<1>14. ASSUME NEW p \in Procs, Reread(p) PROVE Protocol'
  <2>1. OwnerInv'
    BY <1>14, SMT DEF Reread, SameBytes, OwnerInv
  <2>2. LockInv'
    BY <1>14, ZenonT(60) DEF Reread, SameBytes, LockInv, OwnerInv
  <2>3. SeenInv'
    BY <1>14, SMT DEF Reread, SameBytes, SeenInv, OwnerInv, LockInv
  <2>4. RecoveryInv'
    BY <1>14, SMTT(30) DEF Reread, SameBytes, RecoveryInv, OwnerInv
  <2>5. UnlinkInv'
    BY <1>14, SMTT(30) DEF Reread, UnlinkInv, SeenInv, OwnerInv, LockInv, RecoveryInv, SameBytes
  <2> QED BY <2>1, <2>2, <2>3, <2>4, <2>5
<1>15. ASSUME NEW p \in Procs, UnlinkAbandoned(p) PROVE Protocol'
  <2>1. OwnerInv'
    BY <1>15, SMT DEF UnlinkAbandoned, Unlink, Absent, OwnerInv, UnlinkInv, SeenInv, SameBytes
  <2>2. LockInv'
    BY <1>15, ZenonT(60) DEF UnlinkAbandoned, Unlink, Absent, LockInv, OwnerInv
  <2>3. SeenInv'
    BY <1>15, SMT DEF UnlinkAbandoned, Unlink, Absent, SeenInv, OwnerInv, LockInv
  <2>4. RecoveryInv'
    BY <1>15, SMTT(30) DEF UnlinkAbandoned, Unlink, Absent, RecoveryInv, OwnerInv
  <2>5. UnlinkInv'
    BY <1>15, SMTT(30) DEF UnlinkAbandoned, Unlink, Absent, UnlinkInv, SeenInv, OwnerInv, LockInv,
       RecoveryInv, SameBytes
  <2> QED BY <2>1, <2>2, <2>3, <2>4, <2>5
<1>16. ASSUME NEW p \in Procs, ReleaseRecovery(p) PROVE Protocol'
  <2>1. OwnerInv'
    BY <1>16, SMT DEF ReleaseRecovery, UnlinkIf, Absent, OwnerInv
  <2>2. LockInv'
    BY <1>16, ZenonT(60) DEF ReleaseRecovery, UnlinkIf, Absent, LockInv, OwnerInv
  <2>3. SeenInv'
    BY <1>16, SMTT(30) DEF ReleaseRecovery, UnlinkIf, Absent, SeenInv, OwnerInv, LockInv
  <2>4. RecoveryInv'
    BY <1>16, SMTT(30) DEF ReleaseRecovery, UnlinkIf, Absent, RecoveryInv, OwnerInv
  <2>5. UnlinkInv'
    BY <1>16, SMTT(30) DEF ReleaseRecovery, UnlinkIf, Absent, UnlinkInv, SeenInv, OwnerInv, LockInv,
       RecoveryInv, SameBytes
  <2> QED BY <2>1, <2>2, <2>3, <2>4, <2>5
<1>17. ASSUME NEW p \in Procs, Crash(p) PROVE Protocol'
  <2>1. OwnerInv'
    BY <1>17, SMTT(30) DEF Crash, OwnerInv
  <2>2. LockInv'
    BY <1>17, ZenonT(60) DEF Crash, Timely, LockInv, OwnerInv
  <2>3. SeenInv'
    BY <1>17, SMT DEF Crash, SeenInv, OwnerInv, LockInv
  <2>4. RecoveryInv'
    BY <1>17, SMTT(30) DEF Crash, RecoveryInv, OwnerInv
  <2>5. UnlinkInv'
    BY <1>17, SMT DEF Crash, UnlinkInv, SeenInv, OwnerInv, LockInv, RecoveryInv, SameBytes
  <2> QED BY <2>1, <2>2, <2>3, <2>4, <2>5
<1>18. ASSUME NEW f \in Files, Age(f) PROVE Protocol'
  <2>1. OwnerInv'
    BY <1>18, SMT DEF Age, Timely, OwnerInv
  <2>2. LockInv'
    BY <1>18, SMT DEF Age, Timely, LockInv, OwnerInv
  <2>3. SeenInv'
    BY <1>18, ZenonT(60) DEF Age, Timely, SeenInv, OwnerInv, LockInv
  <2>4. RecoveryInv'
    BY <1>18, SMT DEF Age, Timely, RecoveryInv, OwnerInv
  <2>5. UnlinkInv'
    BY <1>18, SMTT(30) DEF Age, Timely, UnlinkInv, SeenInv, OwnerInv, LockInv, RecoveryInv, SameBytes
  <2> QED BY <2>1, <2>2, <2>3, <2>4, <2>5, ZenonT(60)
<1>19. ASSUME NEW f \in Files, AdminClear(f) PROVE Protocol'
  <2>1. OwnerInv'
    BY <1>19 DEF AdminClear, Unlink, Absent, OwnerInv
  <2>2. LockInv'
    BY <1>19 DEF AdminClear, Unlink, Absent, LockInv, OwnerInv
  <2>3. SeenInv'
    BY <1>19 DEF AdminClear, Unlink, Absent, SeenInv, OwnerInv, LockInv
  <2>4. RecoveryInv'
    BY <1>19 DEF AdminClear, Unlink, Absent, RecoveryInv, OwnerInv
  <2>5. UnlinkInv'
    BY <1>19, ZenonT(60) DEF AdminClear, Unlink, Absent, UnlinkInv, SeenInv, OwnerInv, LockInv,
       RecoveryInv, SameBytes
  <2> QED BY <2>1, <2>2, <2>3, <2>4, <2>5
<1>20. CASE UNCHANGED vars
  BY <1>20, SMT DEF vars, OwnerInv, LockInv, SeenInv, RecoveryInv, UnlinkInv, SameBytes
<1> QED
  BY <1>1, <1>2, <1>3, <1>4, <1>5, <1>6, <1>7, <1>8, <1>9, <1>10, <1>11, <1>12, <1>13, <1>14, <1>15, <1>16, <1>17, <1>18, <1>19, <1>20,
     ZenonT(60) DEF Next, Step

\* The inductive invariant holds in every reachable state.
LEMMA Invariance == ASSUME Timely PROVE Spec => []IInv
<1>1. ASSUME Init PROVE Protocol
  <2>1. OwnerInv /\ SeenInv
    BY <1>1 DEF Init, OwnerInv, SeenInv
  <2>2. file["append"] \in {Absent, Legacy} /\ file["recover"] = Absent
    BY <1>1, ZenonT(60) DEF Init, Files
  <2>3. LockInv
    BY <2>2, SMT DEF LockInv, Absent, Legacy
  <2>4. \A p \in Procs : pc[p] = "idle"
    BY <1>1 DEF Init
  <2>5. RecoveryInv
    <3>1. file["recover"].by \notin alive
      BY <1>1, <2>2, ConstantsAssumption, SMT DEF Init, Absent
    <3> QED BY <2>2, <2>4, <3>1, SMT DEF RecoveryInv, Absent
  <2>6. UnlinkInv
    BY <2>4 DEF UnlinkInv
  <2> QED BY <2>1, <2>3, <2>5, <2>6 DEF Protocol
<1>2. TypeOK /\ TypeOK' /\ Protocol /\ [Next]_vars => Protocol'
  BY ProtocolStep
<1> QED
  BY <1>1, <1>2, TypeCorrect, PTL DEF Spec, IInv

\* For every number of processes, hosts and crashes: two live processes are
\* never both in the critical section of appendAtomic.
THEOREM MutualExclusionHolds == ASSUME Timely PROVE Spec => []MutualExclusion
<1>1. IInv => MutualExclusion
  BY ZenonT(60) DEF IInv, Protocol, TypeOK, OwnerInv, MutualExclusion
<1> QED
  BY <1>1, Invariance, PTL

\* A recoverer never stands before the unlink of a live process's lock.
THEOREM UnlinkIsSafeHolds == ASSUME Timely PROVE Spec => []UnlinkIsSafe
<1>1. IInv => UnlinkIsSafe
  BY ConstantsAssumption DEF IInv, Protocol, TypeOK, LockInv, SeenInv, UnlinkInv, SameBytes,
     UnlinkIsSafe
<1> QED
  BY <1>1, Invariance, PTL

\* A lock file of a live process is one its current call still has to remove.
THEOREM NoLeakHolds == ASSUME Timely PROVE Spec => []NoLeak
<1>1. IInv => NoLeak
  BY ConstantsAssumption DEF IInv, Protocol, TypeOK, Files, FileStates, OwnerInv, LockInv,
     RecoveryInv, NoLeak, Owning
<1> QED
  BY <1>1, Invariance, PTL

\* The append lock of a live process is removed by that process alone.
THEOREM NeverTakenOverHolds == ASSUME Timely PROVE Spec => NeverTakenOver
<1>1. IInv /\ [Next]_vars =>
        [\A p \in alive : file["append"].by = p /\ file'["append"].by # p
                          => Owning(p) /\ pc'[p] = "idle"]_vars
  <2> SUFFICES ASSUME IInv, Next, NEW q \in alive,
                      file["append"].by = q, file'["append"].by # q
               PROVE  Owning(q) /\ pc'[q] = "idle"
    OBVIOUS
  <2> USE ConstantsAssumption DEF IInv, Protocol, TypeOK, Files, FileStates, LockInv
  <2>1. ASSUME NEW p \in Procs, AcquireCreate(p) PROVE FALSE
    BY <2>1 DEF AcquireCreate
  <2>2. ASSUME NEW p \in Procs, Stamp(p) PROVE FALSE
    BY <2>2 DEF Stamp, WriteRecord, Record
  <2>3. ASSUME NEW p \in Procs, Release(p) PROVE Owning(q) /\ pc'[q] = "idle"
    BY <2>3 DEF Release, Owning, OwnerInv, Goto
  <2>4. ASSUME NEW p \in Procs, UnlinkAbandoned(p) PROVE FALSE
    BY <2>4 DEF UnlinkAbandoned, SeenInv, UnlinkInv, SameBytes
  <2>5. ASSUME NEW f \in Files, Age(f) PROVE FALSE
    BY <2>5 DEF Age
  <2>6. ASSUME NEW f \in Files, AdminClear(f) PROVE FALSE
    BY <2>6 DEF AdminClear, Unlink
  <2>7. ASSUME NEW p \in Procs,
               \/ RecoveryCreate(p) \/ StampRecovery(p)
               \/ StampRecoveryFails(p) \/ ReleaseRecovery(p)
        PROVE FALSE
    BY <2>7, ZenonT(60) DEF RecoveryCreate, StampRecovery, StampRecoveryFails, ReleaseRecovery,
       Create, Created, WriteRecord, Record, UnlinkIf
  <2>8. ASSUME NEW p \in Procs,
               \/ Start(p) \/ AcquireExists(p) \/ JudgeLock(p) \/ Wait(p) \/ TimeOut(p)
               \/ RecoveryExists(p) \/ JudgeRecovery(p) \/ Reread(p) \/ Crash(p)
        PROVE FALSE
    BY <2>8 DEF Start, AcquireExists, JudgeLock, Wait, TimeOut, RecoveryExists,
       JudgeRecovery, Reread, Crash
  <2> QED
    BY <2>1, <2>2, <2>3, <2>4, <2>5, <2>6, <2>7, <2>8, ZenonT(60) DEF Next, Step
<1> QED
  BY <1>1, Invariance, PTL DEF Spec, NeverTakenOver

-----------------------------------------------------------------------------
(* The log *)
\* A finished line: a whole entry and its newline.
Finished(line) == Parses(line) /\ line.nl
FinishedAt(l) == {i \in DOMAIN l : Finished(l[i])}

\* Every line but the last is finished.
TailInv == \A i \in 1..(Len(log) - 1) : Finished(log[i])

\* A process on its way to the lock has counted its append and has inspected
\* nothing yet.
WayInv ==
    \A p \in Procs :
       /\ pc[p] \notin {"idle", "dead"} => n[p] > 0
       /\ pc[p] \notin {"idle", "dead", "holding"} => step[p] = "inspect"

\* What the holder found in the log is still so.
HolderInv ==
    \A p \in Procs :
       /\ Inside(p, "truncate") =>
             log # <<>> /\ ~Parses(log[Len(log)]) /\ cut[p] = Len(log) - 1
       /\ Inside(p, "write") => log = <<>> \/ Parses(log[Len(log)])

\* The append of entry e is over: e is not going to be written.
Over(e) ==
    \/ e[2] < n[e[1]]
    \/ e[2] = n[e[1]] /\ (step[e[1]] = "done" \/ e[1] \notin alive)

OverInv ==
    /\ \A i \in DOMAIN log : Over(log[i].parts[1].entry)
    /\ \A e \in acked : Over(e)

\* An acknowledged entry that is not a lost one has its finished line, and the
\* entry of a last line that lacks its newline is no such entry.
KeptInv ==
    /\ \A e \in acked \ lost : \E i \in FinishedAt(log) : log[i].parts[1].entry = e
    /\ LacksNewline(log) => log[Len(log)].parts[1].entry \notin acked \ lost

LedgerInv == LedgerTypeOK /\ TailInv /\ WayInv /\ HolderInv /\ OverInv /\ KeptInv

\* What the log after a write looks like: a new last line, or the last line
\* continued, which then does not parse.
LEMMA WrittenShape ==
    ASSUME NEW l \in Seq(Lines), NEW e \in Entries, NEW c \in Cuts
    PROVE  /\ Written(l, e, c) \in Seq(Lines)
           /\ l = <<>> \/ l[Len(l)].nl =>
                /\ Len(Written(l, e, c)) = Len(l) + 1
                /\ \A i \in 1..Len(l) : Written(l, e, c)[i] = l[i]
                /\ Written(l, e, c)[Len(l) + 1] =
                      [parts |-> <<[entry |-> e, whole |-> c # "part"]>>, nl |-> c = "full"]
           /\ ~(l = <<>> \/ l[Len(l)].nl) =>
                /\ Len(Written(l, e, c)) = Len(l)
                /\ \A i \in 1..(Len(l) - 1) : Written(l, e, c)[i] = l[i]
                /\ ~Parses(Written(l, e, c)[Len(l)])
                /\ Written(l, e, c)[Len(l)].parts[1] = l[Len(l)].parts[1]
<1> DEFINE f == [entry |-> e, whole |-> c # "part"]
           new == [parts |-> <<f>>, nl |-> c = "full"]
           more == [parts |-> Append(l[Len(l)].parts, f), nl |-> c = "full"]
<1>1. f \in Fragments
  BY DEF Fragments
<1>2. new \in Lines
  BY <1>1, SMTT(30) DEF Lines
<1>3. CASE l = <<>> \/ l[Len(l)].nl
  <2>1. Written(l, e, c) = Append(l, new)
    BY <1>3 DEF Written
  <2> HIDE DEF new
  <2>2. /\ Append(l, new) \in Seq(Lines) /\ Len(Append(l, new)) = Len(l) + 1
        /\ \A i \in 1..Len(l) : Append(l, new)[i] = l[i]
        /\ Append(l, new)[Len(l) + 1] = new
    BY <1>2, SMT
  <2> QED
    BY <1>3, <2>1, <2>2 DEF new
<1>4. CASE ~(l = <<>> \/ l[Len(l)].nl)
  <2>1. Written(l, e, c) = [l EXCEPT ![Len(l)] = more]
    BY <1>4 DEF Written
  <2>2. Len(l) \in Nat /\ Len(l) > 0 /\ l[Len(l)] \in Lines /\ l[Len(l)] = l[Len(l)]
    BY <1>4, SMT
  <2>3. l[Len(l)].parts \in Seq(Fragments) /\ l[Len(l)].parts # <<>>
    BY <2>2 DEF Lines
  <2>4. /\ Append(l[Len(l)].parts, f) \in Seq(Fragments)
        /\ Len(Append(l[Len(l)].parts, f)) = Len(l[Len(l)].parts) + 1
        /\ Append(l[Len(l)].parts, f)[1] = l[Len(l)].parts[1]
        /\ Len(l[Len(l)].parts) \in Nat /\ Len(l[Len(l)].parts) > 0
    BY <1>1, <2>3, SMTT(30)
  <2>5. more \in Lines /\ ~Parses(more) /\ more.parts[1] = l[Len(l)].parts[1]
    <3>1. Append(l[Len(l)].parts, f) # <<>>
      BY <2>4, SMTT(30)
    <3> QED
      BY <2>2, <2>4, <3>1, SMT DEF Lines, Parses
  <2> HIDE DEF more
  <2>6. /\ [l EXCEPT ![Len(l)] = more] \in Seq(Lines)
        /\ Len([l EXCEPT ![Len(l)] = more]) = Len(l)
        /\ \A i \in 1..(Len(l) - 1) : [l EXCEPT ![Len(l)] = more][i] = l[i]
        /\ [l EXCEPT ![Len(l)] = more][Len(l)] = more
    BY <2>2, <2>5, SMT
  <2> QED
    BY <1>4, <2>1, <2>5, <2>6
<1> QED
  BY <1>3, <1>4

\* Of a log in which every line but perhaps the last is finished, the lines
\* that parse are a prefix.
LEMMA ParsedPrefix ==
    ASSUME NEW l \in Seq(Lines), \A i \in 1..(Len(l) - 1) : Finished(l[i])
    PROVE  ParsedAt(l) =
             1..(IF l = <<>> \/ Parses(l[Len(l)]) THEN Len(l) ELSE Len(l) - 1)
<1>1. Len(l) \in Nat /\ DOMAIN l = 1..Len(l) /\ (l = <<>> <=> Len(l) = 0)
  BY SMT
<1> DEFINE m == Len(l)
<1>2. m \in Nat /\ (\A i \in 1..(m - 1) : Parses(l[i]))
  BY <1>1 DEF Finished
<1>3. ParsedAt(l) = {i \in 1..m : Parses(l[i])}
  BY <1>1 DEF ParsedAt
<1> HIDE DEF m
<1>4. CASE m = 0
  BY <1>1, <1>3, <1>4, SMT DEF m
<1>5. CASE m > 0 /\ Parses(l[m])
  <2>1. {i \in 1..m : Parses(l[i])} = 1..m
    BY <1>2, <1>5, SMT
  <2> QED
    BY <1>3, <1>5, <2>1 DEF m
<1>6. CASE m > 0 /\ ~Parses(l[m])
  <2>1. {i \in 1..m : Parses(l[i])} = 1..(m - 1)
    BY <1>2, <1>6, SMT
  <2>2. l # <<>>
    BY <1>1, <1>6, SMT DEF m
  <2> QED
    BY <1>3, <1>6, <2>1, <2>2 DEF m
<1> QED
  BY <1>2, <1>4, <1>5, <1>6, SMT

\* When the lines that parse are a prefix, a reader sees their entries in order.
LEMMA ReadablePrefix ==
    ASSUME NEW l \in Seq(Lines), NEW m \in Nat, ParsedAt(l) = 1..m
    PROVE  ReadableIn(l) = [k \in 1..m |-> l[k].parts[1].entry]
<1>1. Cardinality(1..m) = m
  BY FS_Interval, SMT
<1>2. \A i \in 1..m : Cardinality({j \in 1..m : j <= i}) = i
  <2> TAKE i \in 1..m
  <2>1. {j \in 1..m : j <= i} = 1..i
    BY SMT
  <2>2. Cardinality(1..i) = i
    BY FS_Interval, SMT
  <2> QED
    BY <2>1, <2>2
<1>3. \A k \in 1..m : Nth(1..m, k) = k
  BY <1>2 DEF Nth
<1>4. ReadableIn(l) = [k \in 1..m |-> l[Nth(1..m, k)].parts[1].entry]
  BY <1>1 DEF ReadableIn
<1> QED
  BY <1>3, <1>4

\* Every line of a log starts with an entry.
LEMMA EntriesOf ==
    ASSUME NEW l \in Seq(Lines), NEW i \in DOMAIN l
    PROVE  l[i].parts[1].entry \in Entries
<1>1. l[i] \in Lines
  BY SMT
<1>2. l[i].parts \in Seq(Fragments) /\ l[i].parts # <<>>
  BY <1>1 DEF Lines
<1>3. l[i].parts[1] \in Fragments
  BY <1>2, SMT
<1> QED
  BY <1>3 DEF Fragments

\* A step of the lock brings nobody but a process that has stamped its lock
\* into the critical section, and starts no append.
LEMMA LockFrame ==
    ASSUME TypeOK, NEW p \in Procs, Step(p) \/ Crash(p)
    PROVE  /\ alive' \subseteq alive
           /\ \A q \in Procs : pc'[q] \notin {"idle", "dead"} => pc[q] \notin {"idle", "dead"}
           /\ \A q \in Procs : pc'[q] \notin {"idle", "dead", "holding"} =>
                                 pc[q] \notin {"idle", "dead", "holding"}
           /\ \A q \in Procs : pc'[q] = "holding" => pc[q] \in {"stamp", "holding"}
<1> USE DEF TypeOK, PCs, Goto
<1>1. CASE AcquireCreate(p) \/ AcquireExists(p) \/ JudgeLock(p) \/ Wait(p) \/ TimeOut(p)
  BY <1>1 DEF AcquireCreate, AcquireExists, JudgeLock, Wait, TimeOut
<1>2. CASE Stamp(p) \/ Release(p) \/ RecoveryCreate(p) \/ RecoveryExists(p) \/ JudgeRecovery(p)
  BY <1>2, ZenonT(60) DEF Stamp, Release, Owning, RecoveryCreate, RecoveryExists, JudgeRecovery
<1>3. CASE StampRecovery(p) \/ StampRecoveryFails(p) \/ Reread(p) \/ UnlinkAbandoned(p)
           \/ ReleaseRecovery(p)
  BY <1>3, ZenonT(60) DEF StampRecovery, StampRecoveryFails, Reread, UnlinkAbandoned, ReleaseRecovery
<1>4. CASE Crash(p)
  BY <1>4 DEF Crash
<1> QED
  BY <1>1, <1>2, <1>3, <1>4 DEF Step

\* A step of the log is a step of the lock, or leaves the lock alone.
LEMMA LedgerUsesLock == [LedgerNext]_allVars => [Next]_vars
<1> SUFFICES ASSUME [LedgerNext]_allVars PROVE [Next]_vars
  OBVIOUS
<1>1. ASSUME NEW p \in Procs, LedgerStart(p) \/ CrashWriting(p) \/ Step(p) \/ Crash(p)
      PROVE  Next
  BY <1>1 DEF LedgerStart, CrashWriting, Next
<1>2. ASSUME NEW p \in Procs, InspectTail(p) \/ TruncateTail(p) \/ WriteLine(p)
      PROVE  UNCHANGED vars
  BY <1>2 DEF InspectTail, TruncateTail, WriteLine
<1>3. ASSUME NEW f \in Files, Age(f) \/ AdminClear(f) PROVE Next
  BY <1>3 DEF Next
<1>4. UNCHANGED allVars => UNCHANGED vars
  BY DEF allVars
<1> QED
  BY <1>1, <1>2, <1>3, <1>4 DEF LedgerNext

\* What a write by the holder does to a log all of whose lines parse: it adds a
\* line, or continues the last one, which then does not parse any more.
LEMMA WriteEffect ==
    ASSUME LedgerInv, NEW p \in Procs, Inside(p, "write"), NEW c \in Cuts,
           log' = Written(log, Entry(p), c)
    PROVE  /\ Entry(p) \in Entries /\ ~Over(Entry(p))
           /\ log' \in Seq(Lines) /\ Len(log) \in Nat /\ DOMAIN log = 1..Len(log)
           /\ TailInv'
           /\ \A i \in DOMAIN log' :
                 \/ log'[i].parts[1].entry = Entry(p)
                 \/ i \in DOMAIN log /\ log'[i].parts[1].entry = log[i].parts[1].entry
           /\ ParsedAt(log) = 1..Len(log)
           /\ ~LacksNewline(log) =>
                 /\ \A i \in 1..Len(log) : log'[i] = log[i] /\ Finished(log[i])
                 /\ Len(log') = Len(log) + 1
                 /\ log'[Len(log) + 1].parts[1].entry = Entry(p)
                 /\ log'[Len(log) + 1].nl <=> c = "full"
                 /\ ParsedAt(log') = IF c = "part" THEN 1..Len(log) ELSE 1..(Len(log) + 1)
           /\ LacksNewline(log) =>
                 /\ Len(log) > 0 /\ Len(log') = Len(log)
                 /\ \A i \in 1..(Len(log) - 1) : log'[i] = log[i]
                 /\ ~Finished(log[Len(log)]) /\ ~Parses(log'[Len(log)])
                 /\ ParsedAt(log') = 1..(Len(log) - 1)
<1>1. Entry(p) \in Entries /\ ~Over(Entry(p))
  <2>1. step[p] = "write" /\ p \in alive /\ n[p] \in 0..MaxAppends /\ n[p] > 0
    BY DEF LedgerInv, LedgerTypeOK, WayInv, Inside
  <2>2. n[p] \in 1..MaxAppends
    BY <2>1, LedgerAssumption, SMT
  <2> QED
    BY <2>1, <2>2, SMT DEF Entry, Entries, Over
<1>2. /\ log \in Seq(Lines) /\ (log = <<>> \/ Parses(log[Len(log)]))
      /\ \A i \in 1..(Len(log) - 1) : Finished(log[i])
  BY DEF LedgerInv, LedgerTypeOK, HolderInv, TailInv
<1>3. /\ Len(log) \in Nat /\ DOMAIN log = 1..Len(log) /\ (log = <<>> <=> Len(log) = 0)
  BY <1>2, SMT
<1>4. log' \in Seq(Lines) /\ DOMAIN log' = 1..Len(log')
  <2>1. log' \in Seq(Lines)
    BY <1>1, <1>2, WrittenShape
  <2> QED
    BY <2>1, SMT
<1>7. ParsedAt(log) = 1..Len(log)
  BY <1>2, ParsedPrefix
<1>5. CASE ~LacksNewline(log)
  <2>1. log = <<>> \/ log[Len(log)].nl
    BY <1>2, <1>5, ZenonT(60) DEF LacksNewline
  <2>2. /\ Len(log') = Len(log) + 1
        /\ \A i \in 1..Len(log) : log'[i] = log[i]
        /\ log'[Len(log) + 1] =
              [parts |-> <<[entry |-> Entry(p), whole |-> c # "part"]>>, nl |-> c = "full"]
    BY <1>1, <1>2, <2>1, WrittenShape, SMT
  <2>3. \A i \in 1..Len(log) : Finished(log[i])
    BY <1>2, <1>3, <2>1, SMTT(30) DEF Finished
  <2>4. TailInv'
    BY <1>3, <2>2, <2>3, SMT DEF TailInv
  <2>6. (Parses(log'[Len(log) + 1]) <=> c # "part") /\ (log'[Len(log) + 1].nl <=> c = "full")
    <3> DEFINE new == [parts |-> <<[entry |-> Entry(p), whole |-> c # "part"]>>, nl |-> c = "full"]
    <3>1. Len(new.parts) = 1 /\ new.parts[1].whole = (c # "part") /\ new.nl = (c = "full")
      OBVIOUS
    <3>2. log'[Len(log) + 1] = new
      BY <2>2, ZenonT(60)
    <3> HIDE DEF new
    <3> QED
      BY <3>1, <3>2 DEF Parses
  <2>7. log'[Len(log) + 1].parts[1].entry = Entry(p)
    BY <2>2, SMT
  <2>8. ParsedAt(log') = IF c = "part" THEN 1..Len(log) ELSE 1..(Len(log) + 1)
    <3>1. \A i \in 1..Len(log) : Parses(log'[i])
      BY <2>2, <2>3 DEF Finished
    <3> QED BY <1>3, <1>4, <2>2, <2>6, <3>1, SMTT(30) DEF ParsedAt
  <2>9. \A i \in DOMAIN log' : i \in DOMAIN log \/ i = Len(log) + 1
    BY <1>3, <1>4, <2>2, SMTT(30)
  <2> QED
    BY <1>1, <1>3, <1>4, <1>5, <1>7, <2>2, <2>3, <2>4, <2>6, <2>7, <2>8, <2>9
<1>6. CASE LacksNewline(log)
  <2>1. Len(log) > 0 /\ ~(log = <<>> \/ log[Len(log)].nl)
    BY <1>3, <1>6, SMTT(30) DEF LacksNewline
  <2>2. /\ Len(log') = Len(log)
        /\ \A i \in 1..(Len(log) - 1) : log'[i] = log[i]
        /\ ~Parses(log'[Len(log)])
        /\ log'[Len(log)].parts[1] = log[Len(log)].parts[1]
    BY <1>1, <1>2, <2>1, WrittenShape, ZenonT(60)
  <2>3. TailInv'
    BY <1>2, <1>3, <2>1, <2>2, ZenonT(60) DEF TailInv
  <2>4. ~Finished(log[Len(log)])
    BY <2>1 DEF Finished
  <2>5. \A i \in DOMAIN log : i \in 1..(Len(log) - 1) \/ i = Len(log)
    BY <1>3, SMT
  <2>6. ParsedAt(log') = 1..(Len(log) - 1)
    <3>1. log' # <<>> /\ \A i \in 1..(Len(log') - 1) : Finished(log'[i])
      BY <1>2, <2>1, <2>2, <2>3, SMTT(30) DEF TailInv
    <3> QED BY <1>4, <2>2, <3>1, ParsedPrefix
  <2>7. \A i \in DOMAIN log' : i \in DOMAIN log /\ log'[i].parts[1] = log[i].parts[1]
    BY <1>3, <1>4, <2>2, <2>5, ZenonT(60)
  <2> QED
    BY <1>1, <1>3, <1>4, <1>6, <1>7, <2>1, <2>2, <2>3, <2>4, <2>6, <2>7, ZenonT(60)
<1> QED
  BY <1>5, <1>6

\* What the holder does to the log preserves the invariant of the log.
LEMMA WriteKeeps ==
    ASSUME IInv, LedgerInv, TypeOK', NEW p \in Procs,
           WriteLine(p) \/ CrashWriting(p)
    PROVE  LedgerInv'
<1>1. PICK c \in Cuts :
        /\ log' = Written(log, Entry(p), c)
        /\ \/ UNCHANGED <<acked, lost>>
           \/ /\ acked' = acked \cup {Entry(p)}
              /\ lost' = IF c # "full" \/ LacksNewline(log) THEN lost \cup {Entry(p)} ELSE lost
  BY LedgerAssumption DEF WriteLine, CrashWriting, Cuts
<1>2. Inside(p, "write") /\ n' = n /\ cut' = cut
  BY DEF WriteLine, CrashWriting, Crash, vars
<1>3. /\ Entry(p) \in Entries /\ ~Over(Entry(p)) /\ log' \in Seq(Lines) /\ TailInv'
      /\ \A i \in DOMAIN log' :
            \/ log'[i].parts[1].entry = Entry(p)
            \/ i \in DOMAIN log /\ log'[i].parts[1].entry = log[i].parts[1].entry
  BY <1>1, <1>2, WriteEffect
<1>4. Entry(p) \notin acked
  BY <1>3, ZenonT(60) DEF LedgerInv, OverInv
<1>5. /\ acked' = acked \/ acked' = acked \cup {Entry(p)}
      /\ lost' = lost \/ (lost' = lost \cup {Entry(p)} /\ Entry(p) \in acked')
      /\ step' = step \/ step' = [step EXCEPT ![p] = "done"]
  BY <1>1 DEF WriteLine, CrashWriting
<1>6. /\ pc' = pc \/ pc' = [pc EXCEPT ![p] = "dead"]
      /\ alive' \subseteq alive
      /\ step'[p] = "done" \/ p \notin alive'
  BY DEF WriteLine, CrashWriting, Crash, Goto, vars, LedgerInv, LedgerTypeOK
<1>7. LedgerTypeOK'
  BY <1>2, <1>3, <1>5, ZenonT(60) DEF LedgerInv, LedgerTypeOK
<1>8. WayInv'
  BY <1>2, <1>5, <1>6, SMT DEF WayInv, LedgerInv, LedgerTypeOK, TypeOK, Inside
<1>9. HolderInv'
  <2>1. \A q \in Procs : ~Inside(q, "truncate")' /\ ~Inside(q, "write")'
    <3> TAKE q \in Procs
    <3>1. CASE q = p
      BY <1>6, <3>1, ZenonT(60) DEF Inside
    <3>2. CASE q # p
      <4>1. pc[q] # "holding"
        BY <1>2, <3>2 DEF IInv, Protocol, OwnerInv, Inside
      <4>2. pc'[q] = pc[q]
        BY <1>6, <3>2, ZenonT(60) DEF LedgerInv, LedgerTypeOK, TypeOK
      <4> QED
        BY <4>1, <4>2, ZenonT(60) DEF Inside
    <3> QED
      BY <3>1, <3>2
  <2> QED
    BY <2>1, ZenonT(60) DEF HolderInv
<1>10. OverInv'
  <2>1. \A e \in Entries : Over(e) => Over(e)'
    BY <1>2, <1>5, <1>6, ZenonT(60) DEF Over, Entries, LedgerInv, LedgerTypeOK
  <2>2. Over(Entry(p))'
    BY <1>2, <1>3, <1>6, ZenonT(60) DEF Over, Entry, LedgerInv, LedgerTypeOK
  <2>3. \A i \in DOMAIN log : log[i].parts[1].entry \in Entries
    BY EntriesOf DEF LedgerInv, LedgerTypeOK
  <2>4. Entry(p)' = Entry(p)
    BY <1>2, ZenonT(60) DEF Entry
  <2> QED
    BY <1>3, <1>5, <2>1, <2>2, <2>3, <2>4, ZenonT(60) DEF OverInv, LedgerInv, LedgerTypeOK
<1>11. KeptInv'
  <2>0. acked \ lost \subseteq acked' \ lost'
    BY <1>1, <1>4 DEF LedgerInv, LedgerTypeOK
  <2>1. CASE LacksNewline(log)
    <3>1. acked' \ lost' = acked \ lost
      BY <1>1, <1>4, <2>1 DEF LedgerInv, LedgerTypeOK
    <3>2. /\ Len(log) \in Nat /\ DOMAIN log = 1..Len(log) /\ Len(log) > 0 /\ Len(log') = Len(log)
          /\ \A i \in 1..(Len(log) - 1) : log'[i] = log[i]
          /\ ~Finished(log[Len(log)]) /\ ~Parses(log'[Len(log)])
      BY <1>1, <1>2, <2>1, WriteEffect
    <3>3. ASSUME NEW i \in FinishedAt(log) PROVE i \in FinishedAt(log') /\ log'[i] = log[i]
      <4>1. i \in 1..Len(log) /\ Finished(log[i]) /\ i # Len(log)
        BY <3>2, <3>3 DEF FinishedAt
      <4>2. i \in 1..(Len(log) - 1) /\ i \in 1..Len(log')
        <5> DEFINE l == Len(log)
        <5>1. l \in Nat /\ i \in 1..l /\ i # l /\ Len(log') = l
          BY <3>2, <4>1
        <5> HIDE DEF l
        <5>2. i \in 1..(l - 1)
          BY <5>1, SMT
        <5> QED BY <5>1, <5>2 DEF l
      <4>3. DOMAIN log' = 1..Len(log')
        BY <1>3, SMT
      <4> QED BY <3>2, <4>1, <4>2, <4>3 DEF FinishedAt
    <3>4. ~LacksNewline(log')
      BY <3>2 DEF LacksNewline
    <3> QED BY <3>1, <3>3, <3>4, ZenonT(60) DEF LedgerInv, KeptInv
  <2>2. CASE ~LacksNewline(log)
    <3>1. /\ Len(log) \in Nat /\ DOMAIN log = 1..Len(log)
          /\ \A i \in 1..Len(log) : log'[i] = log[i] /\ Finished(log[i])
          /\ Len(log') = Len(log) + 1
          /\ log'[Len(log) + 1].parts[1].entry = Entry(p)
          /\ log'[Len(log) + 1].nl <=> c = "full"
          /\ ParsedAt(log') = IF c = "part" THEN 1..Len(log) ELSE 1..(Len(log) + 1)
      BY <1>1, <1>2, <2>2, WriteEffect
    <3>2. DOMAIN log' = 1..Len(log') /\ Len(log) + 1 \in 1..Len(log')
      BY <1>3, <3>1, SMT
    <3>3. ASSUME NEW i \in FinishedAt(log) PROVE i \in FinishedAt(log') /\ log'[i] = log[i]
      <4>1. i \in 1..Len(log) /\ i \in 1..Len(log')
        BY <3>1, <3>3, SMT DEF FinishedAt
      <4> QED BY <3>1, <3>2, <4>1 DEF FinishedAt
    <3>4. c = "full" => Len(log) + 1 \in FinishedAt(log')
      <4>1. c = "full" => Len(log) + 1 \in ParsedAt(log')
        BY <3>1, <3>2
      <4> QED BY <3>1, <3>2, <4>1 DEF FinishedAt, ParsedAt, Finished
    <3>5. ASSUME NEW e \in acked' \ lost' PROVE \E i \in FinishedAt(log') : log'[i].parts[1].entry = e
      <4>1. CASE e \in acked \ lost
        BY <3>3, <4>1, ZenonT(60) DEF LedgerInv, KeptInv
      <4>2. CASE e \notin acked \ lost
        <5>1. e = Entry(p) /\ c = "full"
          BY <1>1, <3>5, <4>2, <2>2
        <5> QED BY <3>1, <3>4, <5>1
      <4> QED BY <4>1, <4>2
    <3>6. LacksNewline(log') => log'[Len(log')].parts[1].entry \notin acked' \ lost'
      <4>1. log'[Len(log')] = log'[Len(log) + 1]
        BY <3>1
      <4>2. LacksNewline(log') => c # "full"
        BY <3>1, <4>1 DEF LacksNewline
      <4>3. c # "full" => Entry(p) \notin acked' \ lost'
        BY <1>1, <1>4
      <4> QED BY <3>1, <4>1, <4>2, <4>3
    <3> QED BY <3>5, <3>6 DEF KeptInv
  <2> QED BY <2>1, <2>2
<1> QED
  BY <1>3, <1>7, <1>8, <1>9, <1>10, <1>11, ZenonT(60) DEF LedgerInv

\* The repair removes an unfinished last line and nothing else.
LEMMA TruncateEffect ==
    ASSUME LedgerInv, NEW p \in Procs, TruncateTail(p)
    PROVE  /\ log' \in Seq(Lines)
           /\ Len(log') = Len(log) - 1 /\ Len(log) \in Nat /\ Len(log) > 0
           /\ \A i \in 1..(Len(log) - 1) : log'[i] = log[i] /\ Finished(log[i])
           /\ FinishedAt(log) = 1..(Len(log) - 1)
           /\ FinishedAt(log') = 1..(Len(log) - 1)
           /\ ParsedAt(log) = 1..(Len(log) - 1)
           /\ ParsedAt(log') = 1..(Len(log) - 1)
<1> DEFINE k == Len(log) - 1
<1>1. /\ log \in Seq(Lines) /\ log # <<>> /\ ~Parses(log[Len(log)])
      /\ log' = SubSeq(log, 1, k)
      /\ \A i \in 1..k : Finished(log[i])
  BY DEF LedgerInv, LedgerTypeOK, HolderInv, TailInv, TruncateTail
<1>2. Len(log) \in Nat /\ Len(log) > 0 /\ DOMAIN log = 1..Len(log)
  BY <1>1, SMT
<1>3. k \in Nat /\ k \in Int /\ 1 \in Int /\ \A i \in 1..k : log[i] \in Lines
  BY <1>1, <1>2, SMT
<1>4. ParsedAt(log) = 1..k /\ FinishedAt(log) = 1..k
  <2>1. ParsedAt(log) = 1..k
    BY <1>1, ParsedPrefix
  <2>2. FinishedAt(log) \subseteq ParsedAt(log)
    BY DEF FinishedAt, ParsedAt, Finished
  <2>3. 1..k \subseteq FinishedAt(log)
    BY <1>1, <2>1 DEF FinishedAt, ParsedAt
  <2> QED
    BY <2>1, <2>2, <2>3
<1>5. log' \in Seq(Lines) /\ Len(log') = k /\ \A i \in 1..k : log'[i] = log[i]
  <2> HIDE DEF k
  <2>1. /\ SubSeq(log, 1, k) \in Seq(Lines)
        /\ Len(SubSeq(log, 1, k)) = IF 1 <= k THEN k - 1 + 1 ELSE 0
        /\ \A i \in 1..(k - 1 + 1) : SubSeq(log, 1, k)[i] = log[1 + i - 1]
    BY <1>3, SubSeqProperties, SMT
  <2>2. Len(SubSeq(log, 1, k)) = k /\ \A i \in 1..k : SubSeq(log, 1, k)[i] = log[i]
    BY <1>3, <2>1, SMT
  <2> QED
    BY <1>1, <2>1, <2>2, ZenonT(60)
<1>6. FinishedAt(log') = 1..k /\ ParsedAt(log') = 1..k
  <2>1. DOMAIN log' = 1..k
    BY <1>3, <1>5, SMTT(30)
  <2> QED
    BY <1>1, <1>5, <2>1 DEF FinishedAt, ParsedAt, Finished
<1> QED
  BY <1>1, <1>2, <1>4, <1>5, <1>6, ZenonT(60)

\* Every step preserves the invariant of the log.
LEMMA LedgerInvStep ==
    ASSUME IInv, LedgerInv, [LedgerNext]_allVars
    PROVE  LedgerInv'
<1>1. TypeOK'
  BY TypeStep, LedgerUsesLock, ZenonT(60) DEF IInv
<1>2. ASSUME NEW p \in Procs, LedgerStart(p) PROVE LedgerInv'
  <2>1. /\ UNCHANGED <<log, cut, acked, lost, alive, file>>
        /\ n' = [n EXCEPT ![p] = n[p] + 1] /\ n[p] < MaxAppends
        /\ step' = [step EXCEPT ![p] = "inspect"]
        /\ pc' = [pc EXCEPT ![p] = "acquire"] /\ pc[p] = "idle" /\ p \in alive
    BY <1>2 DEF LedgerStart, Start, Goto
  <2>2. LedgerTypeOK'
    BY <1>1, <2>1, LedgerAssumption, SMTT(30) DEF LedgerInv, LedgerTypeOK
  <2>3. TailInv' /\ KeptInv'
    BY <2>1, ZenonT(60) DEF LedgerInv, TailInv, KeptInv
  <2>4. WayInv'
    BY <2>1, SMTT(30) DEF LedgerInv, LedgerTypeOK, TypeOK, WayInv
  <2>5. HolderInv'
    BY <2>1, ZenonT(60) DEF LedgerInv, LedgerTypeOK, TypeOK, HolderInv, Inside
  <2>6. \A e \in Entries : Over(e) => Over(e)'
    BY <2>1, SMTT(30) DEF Over, Entries, LedgerInv, LedgerTypeOK
  <2>7. OverInv'
    BY <2>1, <2>6, EntriesOf DEF LedgerInv, LedgerTypeOK, OverInv
  <2> QED
    BY <2>2, <2>3, <2>4, <2>5, <2>7, ZenonT(60) DEF LedgerInv
<1>3. ASSUME NEW p \in Procs, InspectTail(p) PROVE LedgerInv'
  <2>1. /\ UNCHANGED <<vars, log, n, acked, lost>> /\ Inside(p, "inspect")
        /\ \/ /\ step' = [step EXCEPT ![p] = "write"] /\ cut' = cut
              /\ AfterRepair(log) = Len(log)
           \/ /\ step' = [step EXCEPT ![p] = "truncate"]
              /\ cut' = [cut EXCEPT ![p] = AfterRepair(log)]
              /\ AfterRepair(log) # Len(log)
    BY <1>3 DEF InspectTail
  <2>2. log \in Seq(Lines) /\ Len(log) \in Nat /\ (log = <<>> <=> Len(log) = 0)
    BY SMT DEF LedgerInv, LedgerTypeOK
  <2>3. /\ AfterRepair(log) = Len(log) => log = <<>> \/ Parses(log[Len(log)])
        /\ AfterRepair(log) # Len(log) =>
              log # <<>> /\ ~Parses(log[Len(log)]) /\ AfterRepair(log) = Len(log) - 1
    BY <2>2, SMTT(30) DEF AfterRepair
  <2>4. LedgerTypeOK'
    <3>1. AfterRepair(log) \in Nat
      BY <2>2, <2>3, SMT
    <3> QED
      BY <1>1, <2>1, <3>1 DEF LedgerInv, LedgerTypeOK
  <2>5. TailInv' /\ KeptInv'
    BY <2>1 DEF LedgerInv, TailInv, KeptInv
  <2>6. WayInv'
    BY <2>1 DEF LedgerInv, LedgerTypeOK, WayInv, Inside, vars
  <2>7. HolderInv'
    BY <2>1, <2>3, ZenonT(60) DEF LedgerInv, LedgerTypeOK, HolderInv, Inside, vars
  <2>8. \A e \in Entries : Over(e) => Over(e)'
    BY <2>1, ZenonT(60) DEF Over, Entries, LedgerInv, LedgerTypeOK, Inside, vars
  <2>9. OverInv'
    BY <2>1, <2>8, EntriesOf DEF LedgerInv, LedgerTypeOK, OverInv
  <2> QED
    BY <2>4, <2>5, <2>6, <2>7, <2>9 DEF LedgerInv
<1>4. ASSUME NEW p \in Procs, TruncateTail(p) PROVE LedgerInv'
  <2>1. /\ UNCHANGED <<vars, n, acked, lost>> /\ Inside(p, "truncate")
        /\ step' = [step EXCEPT ![p] = "write"]
        /\ cut' = [cut EXCEPT ![p] = 0]
    BY <1>4, ZenonT(60) DEF TruncateTail
  <2>2. /\ log' \in Seq(Lines)
        /\ Len(log') = Len(log) - 1 /\ Len(log) \in Nat /\ Len(log) > 0
        /\ \A i \in 1..(Len(log) - 1) : log'[i] = log[i] /\ Finished(log[i])
        /\ FinishedAt(log') = FinishedAt(log) /\ FinishedAt(log) = 1..(Len(log) - 1)
    BY <1>4, TruncateEffect
  <2>3. LedgerTypeOK'
    BY <1>1, <2>1, <2>2, ZenonT(60) DEF LedgerInv, LedgerTypeOK
  <2>4. TailInv'
    BY <2>2, SMTT(30) DEF TailInv
  <2>5. KeptInv'
    <3>1. \A e \in acked \ lost : \E i \in FinishedAt(log') : log'[i].parts[1].entry = e
      BY <2>2 DEF LedgerInv, KeptInv
    <3>2. ~LacksNewline(log')
      <4> SUFFICES ASSUME log' # <<>> PROVE log'[Len(log')].nl
        BY DEF LacksNewline
      <4>1. Len(log') \in 1..(Len(log) - 1)
        BY <2>2, SMTT(30)
      <4> QED BY <2>2, <4>1 DEF Finished
    <3> QED BY <2>1, <3>1, <3>2 DEF KeptInv
  <2>6. WayInv'
    BY <2>1, ZenonT(60) DEF LedgerInv, LedgerTypeOK, WayInv, Inside, vars
  <2>7. log' = <<>> \/ Parses(log'[Len(log')])
    <3>1. CASE Len(log) = 1
      BY <2>2, <3>1, SMT
    <3>2. CASE Len(log) > 1
      <4>1. Len(log') \in 1..(Len(log) - 1)
        BY <2>2, <3>2, SMTT(30)
      <4> QED
        BY <2>2, <4>1 DEF Finished
    <3> QED
      BY <2>2, <3>1, <3>2, SMT
  <2>8. HolderInv'
    <3>1. \A q \in Procs : q # p => pc[q] # "holding"
      BY <2>1, ZenonT(60) DEF IInv, Protocol, OwnerInv, Inside
    <3> QED
      BY <2>1, <2>7, <3>1, ZenonT(60) DEF LedgerInv, LedgerTypeOK, HolderInv, Inside, vars
  <2>9. \A e \in Entries : Over(e) => Over(e)'
    BY <2>1 DEF Over, Entries, LedgerInv, LedgerTypeOK, Inside, vars
  <2>10. \A i \in DOMAIN log' : i \in DOMAIN log /\ log'[i] = log[i]
    <3>1. log \in Seq(Lines)
      BY DEF LedgerInv, LedgerTypeOK
    <3>2. DOMAIN log = 1..Len(log) /\ DOMAIN log' = 1..(Len(log) - 1)
      BY <2>2, <3>1, SMTT(30)
    <3> QED
      BY <2>2, <3>2, SMT
  <2>11. OverInv'
    BY <2>1, <2>9, <2>10, EntriesOf, ZenonT(60) DEF LedgerInv, LedgerTypeOK, OverInv
  <2> QED
    BY <2>3, <2>4, <2>5, <2>6, <2>8, <2>11, ZenonT(60) DEF LedgerInv
<1>5. ASSUME NEW p \in Procs, WriteLine(p) \/ CrashWriting(p) PROVE LedgerInv'
  BY <1>1, <1>5, WriteKeeps, ZenonT(60)
<1>6. ASSUME NEW p \in Procs, Step(p) \/ Crash(p), UNCHANGED ledgerVars PROVE LedgerInv'
  <2>1. /\ alive' \subseteq alive
        /\ \A q \in Procs : pc'[q] \notin {"idle", "dead"} => pc[q] \notin {"idle", "dead"}
        /\ \A q \in Procs : pc'[q] \notin {"idle", "dead", "holding"} =>
                              pc[q] \notin {"idle", "dead", "holding"}
        /\ \A q \in Procs : pc'[q] = "holding" => pc[q] \in {"stamp", "holding"}
    BY <1>6, LockFrame DEF IInv
  <2>2. UNCHANGED <<log, step, cut, n, acked, lost>>
    BY <1>6, ZenonT(60) DEF ledgerVars
  <2>3. LedgerTypeOK' /\ TailInv' /\ KeptInv'
    BY <1>1, <2>2, ZenonT(60) DEF LedgerInv, LedgerTypeOK, TailInv, KeptInv
  <2>4. WayInv'
    BY <2>1, <2>2 DEF LedgerInv, WayInv
  <2>5. HolderInv'
    BY <2>1, <2>2, ZenonT(60) DEF LedgerInv, WayInv, HolderInv, Inside
  <2>6. OverInv'
    BY <2>1, <2>2, ZenonT(60) DEF LedgerInv, OverInv, Over
  <2> QED
    BY <2>3, <2>4, <2>5, <2>6, ZenonT(60) DEF LedgerInv
<1>7. ASSUME UNCHANGED <<alive, pc, ledgerVars>> PROVE LedgerInv'
  BY <1>1, <1>7 DEF ledgerVars, LedgerInv, LedgerTypeOK, TailInv, KeptInv, WayInv, HolderInv,
     Inside, OverInv, Over
<1>8. ASSUME NEW f \in Files, Age(f) \/ AdminClear(f), UNCHANGED ledgerVars PROVE LedgerInv'
  BY <1>7, <1>8, ZenonT(60) DEF Age, AdminClear
<1> QED
  BY <1>2, <1>3, <1>4, <1>5, <1>6, <1>7, <1>8, ZenonT(60) DEF LedgerNext, allVars, vars

\* The invariants of the lock and of the log hold in every reachable state.
LEMMA LedgerInvariance ==
    ASSUME Timely
    PROVE  LedgerSpec => [](IInv /\ LedgerInv)
<1>1. LedgerInit => LedgerInv
  <2> SUFFICES ASSUME LedgerInit PROVE LedgerInv
    OBVIOUS
  <2>1. TypeOK
    BY InitTypes DEF LedgerInit
  <2>2. log = <<>> /\ <<>> \in Seq(Lines) /\ Len(<<>>) = 0 /\ DOMAIN log = {}
    BY SMT DEF LedgerInit
  <2> QED
    BY <2>1, <2>2, LedgerAssumption, SMT DEF LedgerInit, Init, LedgerInv, LedgerTypeOK, TailInv,
       WayInv, HolderInv, Inside, OverInv, KeptInv
<1>2. LedgerSpec => Spec
  <2>1. LedgerInit => Init
    BY DEF LedgerInit
  <2> QED
    BY <2>1, LedgerUsesLock, PTL DEF LedgerSpec, Spec
<1>3. LedgerSpec => []IInv
  BY <1>2, Invariance, PTL
<1>4. IInv /\ LedgerInv /\ [LedgerNext]_allVars => LedgerInv'
  BY LedgerInvStep, ZenonT(60)
<1> QED
  BY <1>1, <1>3, <1>4, PTL DEF LedgerSpec

\* The types of the lock and of the log, for every number of processes and
\* appends.
THEOREM LedgerTypeCorrect ==
    ASSUME Timely
    PROVE  LedgerSpec => []LedgerTypeOK
<1>1. LedgerInv => LedgerTypeOK
  BY ZenonT(60) DEF LedgerInv
<1> QED
  BY <1>1, LedgerInvariance, PTL

\* An entry whose appendAtomic returned stays a line of its own in the log,
\* whatever crashes before or since, unless its write was short or continued a
\* line that lacked its newline.
THEOREM AckedDurableHolds ==
    ASSUME Timely
    PROVE  LedgerSpec => []AckedDurable
<1>1. LedgerInv => AckedDurable
  <2> SUFFICES ASSUME LedgerInv, NEW e \in acked \ lost
               PROVE  \E k \in DOMAIN Readable : Readable[k] = e
    BY DEF AckedDurable
  <2>1. log \in Seq(Lines) /\ Len(log) \in Nat
    BY SMT DEF LedgerInv, LedgerTypeOK
  <2>2. PICK m \in Nat : ParsedAt(log) = 1..m
    <3>1. log # <<>> => Len(log) - 1 \in Nat
      BY <2>1, SMT
    <3>2. ParsedAt(log) =
            1..(IF log = <<>> \/ Parses(log[Len(log)]) THEN Len(log) ELSE Len(log) - 1)
      BY <2>1, ParsedPrefix DEF LedgerInv, TailInv
    <3> QED
      BY <2>1, <3>1, <3>2, ZenonT(60)
  <2>3. Readable = [k \in 1..m |-> log[k].parts[1].entry]
    BY <2>1, <2>2, ReadablePrefix DEF Readable
  <2>4. PICK i \in 1..m : log[i].parts[1].entry = e
    <3>1. FinishedAt(log) \subseteq ParsedAt(log)
      BY DEF FinishedAt, ParsedAt, Finished
    <3> QED BY <2>2, <3>1, ZenonT(60) DEF LedgerInv, KeptInv
  <2> QED
    BY <2>3, <2>4
<1> QED
  BY <1>1, LedgerInvariance, PTL

\* A step of the log is a step of the append-only durable log, or is invisible
\* to its reader.
LEMMA LedgerStepRefines ==
    ASSUME IInv, LedgerInv, [LedgerNext]_allVars
    PROVE  [Durable!Next]_(Durable!vars)
<1>1. log \in Seq(Lines)
  BY ZenonT(60) DEF LedgerInv, LedgerTypeOK
<1>2. ASSUME NEW p \in Procs, WriteLine(p) \/ CrashWriting(p)
      PROVE  [Durable!Next]_(Durable!vars)
  <2>1. PICK c \in Cuts :
          /\ log' = Written(log, Entry(p), c)
          /\ \/ UNCHANGED <<acked, lost>>
             \/ /\ acked' = acked \cup {Entry(p)}
                /\ lost' = IF c # "full" \/ LacksNewline(log) THEN lost \cup {Entry(p)} ELSE lost
    BY <1>2, LedgerAssumption, ZenonT(60) DEF WriteLine, CrashWriting, Cuts
  <2>2. Inside(p, "write")
    BY <1>2 DEF WriteLine, CrashWriting
  <2> DEFINE m == Len(log)
  <2>3. /\ Entry(p) \in Entries /\ ~Over(Entry(p)) /\ log' \in Seq(Lines)
        /\ m \in Nat /\ DOMAIN log = 1..m /\ ParsedAt(log) = 1..m
    BY <2>1, <2>2, WriteEffect
  <2>4. /\ ~LacksNewline(log) =>
             /\ \A i \in 1..m : log'[i] = log[i]
             /\ log'[m + 1].parts[1].entry = Entry(p)
             /\ ParsedAt(log') = IF c = "part" THEN 1..m ELSE 1..(m + 1)
        /\ LacksNewline(log) =>
             /\ m > 0 /\ \A i \in 1..(m - 1) : log'[i] = log[i]
             /\ ParsedAt(log') = 1..(m - 1)
    BY <2>1, <2>2, WriteEffect
  <2> HIDE DEF m
  <2>5. Readable = [k \in 1..m |-> log[k].parts[1].entry]
    BY <1>1, <2>3, ReadablePrefix DEF Readable
  <2>6. Entry(p) \notin acked /\ lost \subseteq acked
    BY <2>3, ZenonT(60) DEF LedgerInv, LedgerTypeOK, OverInv
  <2>10. \A k \in 1..m : log[k].parts[1].entry \in Entries
    BY <1>1, <2>3, EntriesOf, ZenonT(60)
  <2>11. Readable \in Seq(Entries) /\ Len(Readable) = m
    BY <2>3, <2>5, <2>10, SMTT(30)
  <2>7. CASE ~LacksNewline(log) /\ c = "part"
    <3>1. Readable' = [k \in 1..m |-> log'[k].parts[1].entry]
      BY <2>3, <2>4, <2>7, ReadablePrefix, ZenonT(60) DEF Readable
    <3>2. Readable' = Readable
      BY <2>4, <2>5, <2>7, <3>1, ZenonT(60)
    <3>3. acked' \ lost' = acked \ lost
      BY <2>1, <2>6, <2>7, ZenonT(60)
    <3> QED
      BY <3>2, <3>3, ZenonT(60) DEF Durable!vars
  <2>9. CASE LacksNewline(log)
    <3>1. acked' \ lost' = acked \ lost
      BY <2>1, <2>6, <2>9, ZenonT(60)
    <3>2. m - 1 \in Nat /\ m \in 1..m
      BY <2>3, <2>4, <2>9, SMT
    <3>3. Readable' = [k \in 1..(m - 1) |-> log'[k].parts[1].entry]
      BY <2>3, <2>4, <2>9, <3>2, ReadablePrefix, ZenonT(60) DEF Readable
    <3>4. Readable' = SubSeq(Readable, 1, m - 1)
      <4>1. \A k \in 1..(m - 1) : Readable'[k] = Readable[k] /\ Readable'[k] \in Entries
        <5>1. \A k \in 1..(m - 1) : k \in 1..m
          BY <2>3, SMT
        <5> QED BY <2>4, <2>5, <2>9, <2>10, <3>3, <5>1, ZenonT(60)
      <4>2. Readable' \in Seq(Entries) /\ Len(Readable') = m - 1
        BY <3>2, <3>3, <4>1, SMTT(30)
      <4>3. /\ SubSeq(Readable, 1, m - 1) \in Seq(Entries)
            /\ Len(SubSeq(Readable, 1, m - 1)) = m - 1
            /\ \A k \in 1..(m - 1) : SubSeq(Readable, 1, m - 1)[k] = Readable[k]
        BY <2>3, <2>11, <3>2, SMTT(30)
      <4>4. \A k \in 1..(m - 1) : Readable'[k] = SubSeq(Readable, 1, m - 1)[k]
        BY <4>1, <4>3, ZenonT(60)
      <4> QED
        BY <4>2, <4>3, <4>4, SeqEqual, ZenonT(60)
    <3>5. Readable # <<>> /\ Readable[m] \notin acked \ lost
      <4>1. Readable # <<>>
        BY <2>11, <3>2, SMT
      <4>2. log[m].parts[1].entry \notin acked \ lost
        BY <2>9, ZenonT(60) DEF LedgerInv, KeptInv, m
      <4> QED BY <2>5, <3>2, <4>1, <4>2, ZenonT(60)
    <3>6. Durable!LoseTail
      BY <2>11, <3>1, <3>4, <3>5, ZenonT(60) DEF Durable!LoseTail
    <3> QED
      BY <3>6 DEF Durable!Next
  <2>8. CASE ~LacksNewline(log) /\ c # "part"
    <3>1. m + 1 \in Nat
      BY <2>3, SMTT(30)
    <3>2. Readable' = [k \in 1..(m + 1) |-> log'[k].parts[1].entry]
      BY <2>3, <2>4, <2>8, <3>1, ReadablePrefix, ZenonT(60) DEF Readable
    <3>3. \A i \in DOMAIN Readable : Readable[i] # Entry(p)
      <4>1. \A i \in 1..m : log[i].parts[1].entry # Entry(p)
        BY <2>3, ZenonT(60) DEF LedgerInv, OverInv
      <4> QED
        BY <2>5, <4>1
    <3>4. Readable' = Append(Readable, Entry(p))
      <4>3. \A k \in 1..m : Readable'[k] = Readable[k]
        BY <2>3, <2>4, <2>5, <2>8, <3>2, SMTT(30)
      <4>4. Readable'[m + 1] = Entry(p) /\ DOMAIN Readable' = 1..(m + 1)
        BY <2>3, <2>4, <2>8, <3>2, SMTT(30)
      <4>5. /\ Append(Readable, Entry(p)) \in Seq(Entries)
            /\ Len(Append(Readable, Entry(p))) = m + 1
            /\ \A k \in 1..m : Append(Readable, Entry(p))[k] = Readable[k]
            /\ Append(Readable, Entry(p))[m + 1] = Entry(p)
        BY <2>3, <2>11, AppendProperties, SMT
      <4>6. \A k \in 1..(m + 1) : k = m + 1 \/ k \in 1..m
        BY <2>3, SMT
      <4>7. Readable' \in Seq(Entries) /\ Len(Readable') = m + 1
        <5>1. \A k \in 1..(m + 1) : log'[k].parts[1].entry \in Entries
          BY <2>3, <2>4, <2>8, <2>10, <4>6, ZenonT(60)
        <5> QED
          BY <3>1, <3>2, <5>1, SMTT(30)
      <4>8. \A k \in 1..(m + 1) : Readable'[k] = Append(Readable, Entry(p))[k]
        BY <4>3, <4>4, <4>5, <4>6, ZenonT(60)
      <4> QED
        BY <4>5, <4>7, <4>8, SeqEqual, ZenonT(60)
    <3>5. \/ acked' \ lost' = acked \ lost
          \/ acked' \ lost' = (acked \ lost) \cup {Entry(p)}
      BY <2>1, <2>6, <2>8, ZenonT(60)
    <3>6. Durable!AppendEntry(Entry(p))
      BY <3>3, <3>4, <3>5 DEF Durable!AppendEntry
    <3> QED
      BY <2>3, <3>6 DEF Durable!Next
  <2> QED
    BY <2>7, <2>8, <2>9
<1>3. ASSUME NEW p \in Procs, TruncateTail(p) PROVE UNCHANGED Durable!vars
  <2>1. PICK m \in Nat :
          /\ log' \in Seq(Lines) /\ ParsedAt(log) = 1..m /\ ParsedAt(log') = 1..m
          /\ \A i \in 1..m : log'[i] = log[i]
    <3>1. Len(log) - 1 \in Nat
      BY <1>3, TruncateEffect, SMTT(30)
    <3> QED
      BY <1>3, <3>1, TruncateEffect
  <2>2. Readable = [k \in 1..m |-> log[k].parts[1].entry]
    BY <1>1, <2>1, ReadablePrefix DEF Readable
  <2>3. Readable' = [k \in 1..m |-> log'[k].parts[1].entry]
    BY <2>1, ReadablePrefix, ZenonT(60) DEF Readable
  <2>4. Readable' = Readable
    BY <2>1, <2>2, <2>3
  <2> QED
    BY <1>3, <2>4 DEF TruncateTail, Durable!vars
<1>4. ASSUME UNCHANGED <<log, acked, lost>> PROVE UNCHANGED Durable!vars
  BY <1>4, ZenonT(60) DEF Durable!vars, Readable
<1>5. ASSUME NEW p \in Procs,
             LedgerStart(p) \/ InspectTail(p) \/ UNCHANGED ledgerVars \/ UNCHANGED allVars
      PROVE  UNCHANGED Durable!vars
  BY <1>4, <1>5, ZenonT(60) DEF LedgerStart, InspectTail, ledgerVars, allVars
<1> QED
  BY <1>2, <1>3, <1>4, <1>5, ZenonT(60) DEF LedgerNext, allVars, ledgerVars

\* The log under the append lock is a durable log: for every number of
\* processes, appends and crashes, with a crash, an error or a short write leaving
\* any part of the line, no reader ever sees an entry go whose append returned and
\* wrote a line of its own, two entries change places or one come twice; what may
\* go is the last entry, when the next append continues its unfinished line.
THEOREM RefinesDurableLogHolds ==
    ASSUME Timely
    PROVE  LedgerSpec => RefinesDurableLog
<1>1. LedgerInit => Durable!Init
  <2> SUFFICES ASSUME LedgerInit PROVE Durable!Init
    OBVIOUS
  <2>1. log = <<>> /\ log \in Seq(Lines) /\ acked = {} /\ ParsedAt(log) = 1..0
    BY SMT DEF LedgerInit, ParsedAt
  <2>2. Readable = [k \in 1..0 |-> log[k].parts[1].entry]
    BY <2>1, ReadablePrefix DEF Readable
  <2>3. Readable = <<>>
    BY <2>2, SMT
  <2> QED
    BY <2>1, <2>3 DEF Durable!Init
<1>2. IInv /\ LedgerInv /\ [LedgerNext]_allVars => [Durable!Next]_(Durable!vars)
  BY LedgerStepRefines
<1> QED
  BY <1>1, <1>2, LedgerInvariance, PTL DEF LedgerSpec, RefinesDurableLog, Durable!Spec

=============================================================================
