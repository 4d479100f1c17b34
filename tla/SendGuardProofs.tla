-------------------------- MODULE SendGuardProofs --------------------------
(***************************************************************************)
(* The send guard, for any number of servers, requests, faults and          *)
(* operators.                                                              *)
(*                                                                         *)
(* OneOwner is inductive with the types: ensureOwner makes a guard an owner  *)
(* only when the lock names it or when there is none, and then creates it;   *)
(* only an exit of the named server or a rename takes the lock away.         *)
(*                                                                         *)
(* The other properties hold as long as no operator renamed the lock of a    *)
(* running server, and rest on GuardInv: every running send belongs to the   *)
(* owner, the memory of the owner says what the log and the sends say unless *)
(* the owner is unavailable, and the log says of every send that was not     *)
(* given up that it began, was not abandoned, and what its outcome was.      *)
(***************************************************************************)
EXTENDS SendGuard, WellFoundedInduction, TLAPS

\* The prover of every leaf that names no other.
USE Zenon

Chained(l) == \A n \in DOMAIN l : l[n].prev = n - 1

Stages == Running \cup {"unsent", "known", "unknown", "unanswered"}

Live(i) == sends[i].pc \notin {"none", "unsent"}
Noted(i) == Live(i) /\ sends[i].pc # "admitted"
Owner(s) == life[s] = "up" /\ mem[s].owner

\* What a memory must say of the log and of the sends to admit another send.
Knows(m) ==
    /\ ~damaged /\ Chained(log) /\ m.head = Len(log)
    /\ \A n \in DOMAIN log : log[n].seq < m.nextSeq
    /\ \A i \in Ids : Noted(i) =>
         /\ sends[i].req.key # NoKey => m.byKey[sends[i].req.key] # "none"
         /\ sends[i].pc \in {"unknown", "unanswered"} =>
               <<sends[i].req.payment, sends[i].seq>> \in m.unknown
Fits(m) ==
    /\ ~m.unavailable => Knows(m)
    /\ faults = 0 => m.head = Len(log)

\* What the log must say of a send.
BeganIn(l, x) == \E n \in DOMAIN l : l[n].op = "begin" /\ l[n].seq = x.seq /\ l[n].req = x.req
KeptIn(l, x) ==
    /\ Ended(l, x.seq, "abandon") = {}
    /\ x.pc # "known" => \A n \in Ended(l, x.seq, "finish") : l[n].outcome = "unknown"

WorkInv ==
    \A i \in Ids : sends[i].pc \in Running =>
        Owner(sends[i].server) /\ sends[i].seq < mem[sends[i].server].nextSeq
IdleInv == \A s \in Servers : life[s] = "up" => mem[s].owner \/ mem[s].conflict
MemInv == \A s \in Servers : Owner(s) => Fits(mem[s])
ChainInv == faults = 0 => Chained(log)
ApartInv ==
    \A i, j \in Ids : i # j /\ Live(i) /\ Live(j) =>
        /\ sends[i].seq # sends[j].seq
        /\ sends[i].req.key = NoKey \/ sends[i].req.key # sends[j].req.key
RecordInv ==
    \A i \in Ids : Live(i) =>
        (sends[i].pc # "admitted" => BeganIn(log, sends[i])) /\ KeptIn(log, sends[i])
LoneInv ==
    \A i, j \in Ids :
        /\ i # j /\ sends[i].pc \in Running /\ Live(j)
        /\ sends[i].req.payment = sends[j].req.payment
        => /\ sends[j].pc \notin Running
           /\ sends[j].pc \in {"unknown", "unanswered"} => sends[i].req.allowNew

GuardInv ==
    /\ WorkInv /\ IdleInv /\ MemInv /\ ChainInv
    /\ ApartInv /\ RecordInv /\ LoneInv

Sound == TypeOK /\ OneOwner
IInv == Sound /\ (usurped \/ GuardInv)

-----------------------------------------------------------------------------
(* Numbers *)
\* A set of naturals that has an element has a least one.
LEMMA Least ==
    ASSUME NEW T, T \subseteq Nat, T # {}
    PROVE  \E n \in T : \A m \in T : n <= m
<1> DEFINE R == {p \in Nat \X Nat : p[1] < p[2]}
<1>1. OpToRel(<, Nat) = R
  BY DEF OpToRel
<1>2. IsWellFoundedOn(R, Nat)
  BY <1>1, NatLessThanWellFounded
<1>3. PICK n \in T : \A m \in T : ~ (<<m, n>> \in R)
  <2> HIDE DEF R
  <2> QED BY <1>2, WFMin
<1>4. ASSUME NEW m \in T PROVE n <= m
  <2>1. n \in Nat /\ m \in Nat /\ <<m, n>> \in Nat \X Nat
    OBVIOUS
  <2>2. ~ (<<m, n>>[1] < <<m, n>>[2])
    BY <1>3, <2>1
  <2> QED BY <2>1, <2>2, SMT
<1> QED BY <1>4

\* The elements of a finite sequence of naturals have a bound: were there a
\* shortest prefix without one, the bound of the prefix before it and its last
\* element would give one.
LEMMA Bounded ==
    ASSUME NEW n \in Nat, NEW f, \A i \in 1..n : f[i] \in Nat
    PROVE  \E b \in Nat : \A i \in 1..n : f[i] <= b
<1> DEFINE Bound(k) == \E b \in Nat : \A i \in 1..k : f[i] <= b
           T == {k \in 0..n : ~Bound(k)}
<1> SUFFICES ASSUME T # {} PROVE FALSE
  <2>1. n \in 0..n
    BY SMT
  <2> QED BY <2>1
<1>1. T \subseteq Nat
  BY SMT
<1>2. PICK k \in T : \A m \in T : k <= m
  <2> HIDE DEF T
  <2> QED BY <1>1, Least
<1>3. k # 0
  <2>1. 0 \in Nat /\ \A i \in 1..0 : f[i] <= 0
    BY SMT
  <2>2. Bound(0)
    BY <2>1
  <2> QED BY <2>2
<1>4. k - 1 \in 0..n /\ k \in 1..n /\ k \in Nat
  BY <1>3, SMT
<1>5. Bound(k - 1)
  <2>1. k - 1 \in T => k <= k - 1
    BY <1>2
  <2>2. k - 1 \notin T
    BY <2>1, <1>4, SMT
  <2> QED BY <2>2, <1>4
<1>6. PICK b \in Nat : \A i \in 1..(k - 1) : f[i] <= b
  BY <1>5
<1>7. f[k] \in Nat
  BY <1>4
<1>8. ASSUME NEW c \in Nat, b <= c, f[k] <= c PROVE FALSE
  <2>1. ASSUME NEW i \in 1..k PROVE f[i] <= c
    <3>1. CASE i = k
      BY <3>1, <1>8
    <3>2. CASE i # k
      <4>1. i \in 1..(k - 1) /\ f[i] \in Nat
        BY <3>2, <1>4, SMT
      <4> QED BY <4>1, <1>6, <1>8, SMT
    <3> QED BY <3>1, <3>2
  <2>2. Bound(k)
    BY <2>1, <1>8
  <2> QED BY <2>2
<1>9. CASE f[k] <= b
  BY <1>8, <1>9, <1>6, SMT
<1>10. CASE b <= f[k]
  BY <1>8, <1>10, <1>7, SMT
<1> QED BY <1>6, <1>7, <1>9, <1>10, SMT

\* Max of a set of naturals that has an element and a bound.
LEMMA MaxOf ==
    ASSUME NEW S, S \subseteq Nat, NEW q \in S, NEW b \in Nat, \A x \in S : x <= b
    PROVE  Max(S) \in S /\ \A x \in S : x <= Max(S)
<1> DEFINE T == {c \in Nat : \A x \in S : x <= c}
<1>1. T \subseteq Nat /\ T # {}
  OBVIOUS
<1>2. PICK c \in T : \A d \in T : c <= d
  <2> HIDE DEF T
  <2> QED BY <1>1, Least
<1>3. c \in S
  <2> SUFFICES ASSUME c \notin S PROVE FALSE
    OBVIOUS
  <2>1. q < c
    BY <1>2, SMT
  <2>2. c - 1 \in Nat /\ \A x \in S : x <= c - 1
    BY <1>2, <2>1, SMT
  <2>3. c - 1 \in T
    BY <2>2
  <2> QED BY <1>2, <2>3, SMT
<1>4. \E x \in S : \A y \in S : x >= y
  BY <1>2, <1>3
<1>5. Max(S) \in S /\ \A y \in S : Max(S) >= y
  BY <1>4 DEF Max
<1> QED BY <1>5

-----------------------------------------------------------------------------
(* The log and the memory *)
\* The verified part of a log is all of it when the chain is unbroken.
LEMMA VerifiedIs ==
    ASSUME NEW l \in Seq(Events)
    PROVE  Verified(l) \in 0..Len(l) /\ (Chained(l) <=> Verified(l) = Len(l))
<1> DEFINE P(n) == /\ \A m \in 1..n : l[m].prev = m - 1
                   /\ n < Len(l) => l[n + 1].prev # n
           T == {m \in 1..Len(l) : l[m].prev # m - 1}
<1>0. Len(l) \in Nat /\ DOMAIN l = 1..Len(l)
  BY SMT
<1>1. \E n \in 0..Len(l) : P(n)
  <2>1. CASE T = {}
    <3>1. P(Len(l))
      BY <2>1, <1>0, SMT
    <3> QED BY <3>1, <1>0, SMT
  <2>2. CASE T # {}
    <3>1. T \subseteq Nat
      BY <1>0, SMT
    <3>2. PICK k \in T : \A m \in T : k <= m
      <4> HIDE DEF T
      <4> QED BY <2>2, <3>1, Least
    <3>3. k \in 1..Len(l) /\ k - 1 \in 0..Len(l) /\ l[(k - 1) + 1].prev # k - 1
      BY <1>0, SMT
    <3>4. ASSUME NEW m \in 1..(k - 1) PROVE l[m].prev = m - 1
      <4>1. m \in 1..Len(l) /\ ~(k <= m)
        BY <1>0, <3>3, SMT
      <4> QED BY <3>2, <4>1
    <3> QED BY <3>3, <3>4
  <2> QED BY <2>1, <2>2
<1>2. Verified(l) = CHOOSE n \in 0..Len(l) : P(n)
  BY DEF Verified
<1>3. Verified(l) \in 0..Len(l) /\ P(Verified(l))
  <2> HIDE DEF P
  <2> QED BY <1>1, <1>2
<1> DEFINE v == Verified(l)
<1> HIDE DEF v
<1>4. v \in 0..Len(l) /\ P(v)
  BY <1>3 DEF v
<1>5. ASSUME Chained(l) PROVE v = Len(l)
  <2>1. v < Len(l) => v + 1 \in DOMAIN l
    BY <1>0, <1>4, SMT
  <2>2. v < Len(l) => l[v + 1].prev = v
    BY <1>5, <2>1, <1>0, <1>4, SMT DEF Chained
  <2>3. ~(v < Len(l)) /\ v \in 0..Len(l)
    BY <1>4, <2>1, <2>2
  <2>4. \A a \in Nat : \A b \in 0..a : ~(b < a) => b = a
    BY SMT
  <2> QED BY <1>0, <2>3, <2>4
<1>6. ASSUME v = Len(l) PROVE Chained(l)
  BY <1>0, <1>4, <1>6 DEF Chained
<1> QED BY <1>4, <1>5, <1>6 DEF v

\* What load() makes of a log is a key table and a set of unknown payments.
LEMMA ContentsTyped ==
    ASSUME NEW l \in Seq(Events)
    PROVE  /\ KeysIn(l) \in [Keys -> {"none", "in-flight", "done"}]
           /\ UnknownIn(l) \in SUBSET (Payments \X Nat)
<1>1. KeysIn(l) \in [Keys -> {"none", "in-flight", "done"}]
  BY DEF KeysIn
<1>2. ASSUME NEW n \in Kept(l) PROVE <<l[n].req.payment, l[n].seq>> \in Payments \X Nat
  <2>1. l[n] \in Events
    BY SMT DEF Kept, Begins
  <2> QED BY <2>1 DEF Events, Requests
<1>3. UnknownIn(l) \in SUBSET (Payments \X Nat)
  BY <1>2 DEF UnknownIn
<1> QED BY <1>1, <1>3

\* load numbers the next send past every line it read.
LEMMA NextSeqIs ==
    ASSUME NEW l \in Seq(Events), NEW q \in Nat
    PROVE  LET x == Max({q} \cup {l[i].seq + 1 : i \in DOMAIN l}) IN
           x \in Nat /\ \A n \in DOMAIN l : l[n].seq < x
<1> DEFINE S == {q} \cup {l[i].seq + 1 : i \in DOMAIN l}
           f == [i \in 1..Len(l) |-> l[i].seq + 1]
<1>0. Len(l) \in Nat /\ DOMAIN l = 1..Len(l)
  BY SMT
<1>1. ASSUME NEW i \in DOMAIN l PROVE l[i].seq \in Nat
  <2>1. l[i] \in Events
    BY <1>0, SMT
  <2> QED BY <2>1 DEF Events
<1>2. \A i \in 1..Len(l) : f[i] \in Nat
  BY <1>0, <1>1, SMT
<1>3. PICK b \in Nat : \A i \in 1..Len(l) : f[i] <= b
  <2> HIDE DEF f
  <2> QED BY <1>0, <1>2, Bounded
<1>4. \A i \in DOMAIN l : l[i].seq + 1 <= b
  BY <1>0, <1>1, <1>3
<1>5. S \subseteq Nat /\ q \in S
  BY <1>1, SMT
<1>6. b + q \in Nat /\ \A x \in S : x <= b + q
  BY <1>1, <1>4, SMT
<1>7. Max(S) \in S /\ \A x \in S : x <= Max(S)
  <2> HIDE DEF S
  <2> QED BY <1>5, <1>6, MaxOf
<1> DEFINE x == Max(S)
<1>8. x \in Nat /\ \A n \in DOMAIN l : l[n].seq + 1 <= x
  <2> HIDE DEF x
  <2>1. x \in S /\ \A y \in S : y <= x
    BY <1>7 DEF x
  <2> QED BY <1>5, <2>1
<1>9. x \in Nat /\ \A n \in DOMAIN l : l[n].seq < x
  <2> HIDE DEF x
  <2> QED BY <1>1, <1>8, SMT
<1> QED BY <1>9

\* The memory after load.
Reads(x) ==
    /\ ~damaged /\ Chained(log)
    /\ x.byKey = KeysIn(log) /\ x.unknown = UnknownIn(log)
    /\ \A n \in DOMAIN log : log[n].seq < x.nextSeq

\* load keeps what the guard thinks of its ownership; a guard that is available
\* after it has read all of the log.
LEMMA LoadedIs ==
    ASSUME TypeOK, NEW m \in Memories
    PROVE  /\ Loaded(m) \in Memories
           /\ Loaded(m).owner = m.owner /\ Loaded(m).conflict = m.conflict
           /\ Loaded(m).head <= Len(log)
           /\ Chained(log) => Loaded(m).head = Len(log)
           /\ ~Loaded(m).unavailable => Reads(Loaded(m))
<1> DEFINE n == Verified(log)
           l == SubSeq(log, 1, n)
           q == Max({m.nextSeq} \cup {l[i].seq + 1 : i \in DOMAIN l})
           x == [owner |-> m.owner, conflict |-> m.conflict,
                 unavailable |-> m.unavailable \/ damaged \/ n < Len(log),
                 head |-> n, nextSeq |-> q, byKey |-> KeysIn(l), unknown |-> UnknownIn(l)]
<1>0. log \in Seq(Events) /\ Len(log) \in Nat /\ damaged \in BOOLEAN
  BY SMT DEF TypeOK
<1>1. n \in 0..Len(log) /\ (Chained(log) <=> n = Len(log))
  BY <1>0, VerifiedIs
<1>2. l \in Seq(Events) /\ (n = Len(log) => l = log)
  <2>1. \A i \in 1..n : log[i] \in Events
    BY <1>0, <1>1, SMT
  <2> HIDE DEF n
  <2>2. SubSeq(log, 1, n) \in Seq(Events)
    BY <1>0, <1>1, <2>1, SMT
  <2>3. SubSeq(log, 1, Len(log)) = log
    BY <1>0, SMT
  <2> QED BY <2>2, <2>3
<1>3. /\ KeysIn(l) \in [Keys -> {"none", "in-flight", "done"}]
      /\ UnknownIn(l) \in SUBSET (Payments \X Nat)
      /\ q \in Nat /\ \A i \in DOMAIN l : l[i].seq < q
  <2>1. m.nextSeq \in Nat
    BY DEF Memories
  <2> HIDE DEF l
  <2> QED BY <1>2, <2>1, ContentsTyped, NextSeqIs
<1>4. Loaded(m) = x
  <2>1. Loaded(m) = [m EXCEPT !.head = n, !.nextSeq = q, !.byKey = KeysIn(l), !.unknown = UnknownIn(l),
                              !.unavailable = m.unavailable \/ damaged \/ n < Len(log)]
    BY DEF Loaded
  <2> HIDE DEF q, l, n
  <2> QED BY <2>1 DEF Memories
<1> HIDE DEF q, l, n
<1>5. x \in Memories
  BY <1>0, <1>1, <1>3, SMT DEF Memories
<1>6. ASSUME ~x.unavailable PROVE Reads(x)
  <2>0. ~damaged /\ ~(n < Len(log))
    BY <1>6
  <2>1. n = Len(log) /\ l = log
    BY <1>0, <1>1, <1>2, <2>0, SMT
  <2> QED BY <1>1, <1>3, <2>0, <2>1 DEF Reads
<1>7. x.owner = m.owner /\ x.conflict = m.conflict /\ x.head = n
  OBVIOUS
<1> HIDE DEF x
<1> QED BY <1>0, <1>1, <1>4, <1>5, <1>6, <1>7, SMT

\* A server that has just started owns nothing.
LEMMA EmptyIsMemory ==
    EmptyMemory \in Memories /\ ~EmptyMemory.owner /\ ~EmptyMemory.conflict /\ EmptyMemory.head = 0
BY DEF EmptyMemory, Memories

\* After ensureOwner a guard owns only what the lock gives it; one that takes the
\* lock after a conflict has read the log.
LEMMA EnsureOwnerIs ==
    ASSUME TypeOK, NEW s \in Servers, NEW m \in Memories, m.head <= Len(log)
    PROVE  /\ EnsureOwner(s, m) \in Memories /\ EnsureOwner(s, m).head <= Len(log)
           /\ EnsureOwner(s, m).owner <=> (m.owner /\ lock = s) \/ (~m.owner /\ lock = NoServer)
           /\ EnsureOwner(s, m).owner \/ EnsureOwner(s, m).conflict
           /\ m.owner /\ lock = s => EnsureOwner(s, m) = m
           /\ ~m.owner /\ m.conflict /\ lock = NoServer =>
                 \E y \in Memories : EnsureOwner(s, m) = Loaded(y)
<1>0. m.owner \in BOOLEAN /\ m.conflict \in BOOLEAN
  BY DEF Memories
<1>1. CASE m.owner /\ lock = s
  <2>1. EnsureOwner(s, m) = m
    BY <1>1 DEF EnsureOwner
  <2> QED BY <1>1, <2>1
<1>2. CASE m.owner /\ lock # s
  <2>1. EnsureOwner(s, m) = [m EXCEPT !.owner = FALSE, !.conflict = TRUE]
    BY <1>2 DEF EnsureOwner
  <2>2. /\ EnsureOwner(s, m) \in Memories /\ EnsureOwner(s, m).head = m.head
        /\ ~EnsureOwner(s, m).owner /\ EnsureOwner(s, m).conflict
    BY <2>1 DEF Memories
  <2> QED BY <1>2, <2>2
<1>3. CASE ~m.owner /\ lock # NoServer
  <2>1. EnsureOwner(s, m) = [m EXCEPT !.conflict = TRUE]
    BY <1>3 DEF EnsureOwner
  <2>2. /\ EnsureOwner(s, m) \in Memories /\ EnsureOwner(s, m).head = m.head
        /\ EnsureOwner(s, m).owner = m.owner /\ EnsureOwner(s, m).conflict
    BY <2>1 DEF Memories
  <2> QED BY <1>3, <2>2
<1>4. CASE ~m.owner /\ lock = NoServer
  <2> DEFINE taken == [m EXCEPT !.owner = TRUE, !.conflict = FALSE]
             y == [taken EXCEPT !.unavailable = FALSE]
  <2>1. EnsureOwner(s, m) = IF m.conflict THEN Loaded(y) ELSE taken
    BY <1>4 DEF EnsureOwner
  <2>2. taken \in Memories /\ taken.owner /\ taken.head = m.head
    BY DEF Memories
  <2>3. y \in Memories /\ y.owner
    BY DEF Memories
  <2> HIDE DEF taken, y
  <2>4. Loaded(y) \in Memories /\ Loaded(y).owner = y.owner /\ Loaded(y).head <= Len(log)
    BY <2>3, LoadedIs
  <2>5. CASE m.conflict
    <3>1. EnsureOwner(s, m) = Loaded(y)
      BY <2>1, <2>5
    <3> QED BY <1>4, <2>3, <2>4, <3>1
  <2>6. CASE ~m.conflict
    <3>1. EnsureOwner(s, m) = taken
      BY <2>1, <2>6
    <3> QED BY <1>4, <2>2, <2>6, <3>1
  <2> QED BY <2>5, <2>6
<1> QED BY <1>0, <1>1, <1>2, <1>3, <1>4

-----------------------------------------------------------------------------
(* The types and the owner *)
RestOK ==
    /\ log' \in Seq(Events) /\ Len(log) <= Len(log')
    /\ damaged' \in BOOLEAN /\ faults' \in 0..MaxFaults /\ reading' \subseteq Operators

\* The variables that most steps leave alone.
LEMMA RestKept ==
    ASSUME TypeOK, UNCHANGED <<log, damaged, faults, reading>>
    PROVE  RestOK
BY SMT DEF TypeOK, RestOK

\* A step that makes no guard an owner and takes no lock.
LEMMA Calm ==
    ASSUME Sound, UNCHANGED <<life, lock, usurped>>, RestOK,
           NEW s \in Servers, NEW m \in Memories, m.owner => mem[s].owner, m.head <= Len(log'),
           mem' = [mem EXCEPT ![s] = m], sends' \in [Ids -> {NoSend} \cup Admitted]
    PROVE  Sound'
<1>0. TypeOK /\ Len(log) \in Nat /\ Len(log') \in Nat
  BY SMT DEF Sound, TypeOK, RestOK
<1>1. mem' \in [Servers -> Memories] /\ \A t \in Servers : mem'[t] = IF t = s THEN m ELSE mem[t]
  BY <1>0 DEF TypeOK
<1>2. \A t \in Servers : mem[t].head \in Nat /\ mem[t].head <= Len(log)
  BY <1>0 DEF TypeOK, Memories
<1>3. \A t \in Servers : mem'[t].head <= Len(log')
  <2> SUFFICES ASSUME NEW t \in Servers PROVE mem'[t].head <= Len(log')
    OBVIOUS
  <2>1. CASE t = s
    BY <1>1, <2>1
  <2>2. CASE t # s
    BY <1>0, <1>1, <1>2, <2>2, SMT DEF RestOK
  <2> QED BY <2>1, <2>2
<1>4. TypeOK'
  BY <1>0, <1>1, <1>3 DEF TypeOK, RestOK
<1>5. OneOwner'
  BY <1>1 DEF Sound, OneOwner
<1> QED BY <1>4, <1>5 DEF Sound

\* ensureOwner, and what its caller makes of the memory.
LEMMA Ensures ==
    ASSUME Sound, RestOK, NEW s \in Servers,
           NEW m \in Memories, m.head <= Len(log),
           NEW x \in Memories, x.head <= Len(log'), x.owner = EnsureOwner(s, m).owner,
           life' = [life EXCEPT ![s] = "up"],
           lock' = LockAfter(s, m), usurped' = usurped,
           mem' = [mem EXCEPT ![s] = x], sends' \in [Ids -> {NoSend} \cup Admitted]
    PROVE  Sound'
<1>0. TypeOK /\ Len(log) \in Nat /\ Len(log') \in Nat
  BY SMT DEF Sound, TypeOK, RestOK
<1>1. mem' \in [Servers -> Memories] /\ \A t \in Servers : mem'[t] = IF t = s THEN x ELSE mem[t]
  BY <1>0 DEF TypeOK
<1>2. lock' = IF x.owner THEN s ELSE lock
  BY DEF LockAfter
<1>3. \A t \in Servers : mem[t].head \in Nat /\ mem[t].head <= Len(log)
  BY <1>0 DEF TypeOK, Memories
<1>4. \A t \in Servers : mem'[t].head <= Len(log')
  <2> SUFFICES ASSUME NEW t \in Servers PROVE mem'[t].head <= Len(log')
    OBVIOUS
  <2>1. CASE t = s
    BY <1>1, <2>1
  <2>2. CASE t # s
    BY <1>0, <1>1, <1>3, <2>2, SMT DEF RestOK
  <2> QED BY <2>1, <2>2
<1>5. TypeOK'
  BY <1>0, <1>1, <1>2, <1>4 DEF TypeOK, RestOK
<1>6. x.owner <=> (m.owner /\ lock = s) \/ (~m.owner /\ lock = NoServer)
  BY <1>0, EnsureOwnerIs
<1>7. OneOwner'
  <2> SUFFICES ASSUME ~usurped, NEW t \in Servers, life'[t] = "up", mem'[t].owner
               PROVE  lock' = t
    BY DEF OneOwner
  <2>1. CASE t = s
    BY <2>1, <1>1, <1>2
  <2>2. CASE t # s
    <3>1. life[t] = "up" /\ mem[t].owner
      BY <1>0, <2>2, <1>1 DEF TypeOK
    <3>2. lock = t
      BY <3>1 DEF Sound, OneOwner
    <3> QED BY <2>2, <3>2, <1>2, <1>6, GuardConstants
  <2> QED BY <2>1, <2>2
<1> QED BY <1>5, <1>7 DEF Sound

\* A send that goes on keeps its server, its request and its number.
LEMMA SendGoesOn ==
    ASSUME TypeOK, NEW i \in Ids, NEW l \in Stages, sends[i].pc # "none",
           sends' = [sends EXCEPT ![i].pc = l]
    PROVE  /\ sends' \in [Ids -> {NoSend} \cup Admitted]
           /\ sends[i] \in Admitted /\ sends'[i] \in Admitted
           /\ sends'[i].pc = l /\ sends'[i].server = sends[i].server
           /\ sends'[i].req = sends[i].req /\ sends'[i].seq = sends[i].seq
           /\ \A j \in Ids \ {i} : sends'[j] = sends[j]
<1>1. sends \in [Ids -> {NoSend} \cup Admitted] /\ sends[i] \in Admitted
  BY SMT DEF TypeOK, NoSend
<1>2. \A j \in Ids : sends'[j] = IF j = i THEN [sends[i] EXCEPT !.pc = l] ELSE sends[j]
  BY <1>1
<1>3. [sends[i] EXCEPT !.pc = l] \in Admitted
  BY <1>1 DEF Admitted, Stages
<1>4. /\ [sends[i] EXCEPT !.pc = l].pc = l
      /\ [sends[i] EXCEPT !.pc = l].server = sends[i].server
      /\ [sends[i] EXCEPT !.pc = l].req = sends[i].req
      /\ [sends[i] EXCEPT !.pc = l].seq = sends[i].seq
  BY <1>1 DEF Admitted
<1> DEFINE z == [sends[i] EXCEPT !.pc = l]
<1> HIDE DEF z
<1>5. sends' \in [Ids -> {NoSend} \cup Admitted]
  BY <1>1, <1>3
<1> QED BY <1>1, <1>2, <1>3, <1>4, <1>5

\* An event of a send that was admitted.
LEMMA EventIs ==
    ASSUME TypeOK, NEW i \in Ids, sends[i] \in Admitted, NEW op \in {"begin", "signed", "abandon", "finish"},
           NEW o \in {"none", "known", "unknown"}, NEW e, e = Event(sends[i].server, i, op, o)
    PROVE  /\ e \in Events /\ e.op = op /\ e.outcome = o /\ e.seq = sends[i].seq
           /\ e.req = sends[i].req /\ e.prev = mem[sends[i].server].head
<1>1. /\ sends[i].server \in Servers /\ sends[i].seq \in Nat /\ sends[i].req \in Requests
      /\ mem[sends[i].server].head \in Nat
  BY DEF TypeOK, Admitted, Memories
<1> QED BY <1>1 DEF Event, Events

\* append, tryAppend: the log grows, and the ownership is left alone.
LEMMA AppendKeeps ==
    ASSUME TypeOK, NEW s \in Servers, NEW e \in Events, NEW m \in Memories, m.head <= Len(log),
           Appends(s, e, m) \/ AppendFails(s, e, m) \/ TryAppend(s, e, m), reading' = reading
    PROVE  /\ RestOK
           /\ \E x \in Memories : /\ x.owner = m.owner /\ x.head <= Len(log')
                                  /\ mem' = [mem EXCEPT ![s] = x]
<1> DEFINE g == [m EXCEPT !.head = Len(log) + 1]
           u == [m EXCEPT !.unavailable = TRUE]
<1>0. /\ log \in Seq(Events) /\ Len(log) \in Nat /\ damaged \in BOOLEAN /\ faults \in 0..MaxFaults
      /\ reading \subseteq Operators
  BY SMT DEF TypeOK
<1>1. /\ g \in Memories /\ g.owner = m.owner /\ g.head = Len(log) + 1
      /\ u \in Memories /\ u.owner = m.owner /\ u.head = m.head /\ m.head \in Nat
  <2>1. \A h \in Nat : LET y == [m EXCEPT !.head = h] IN
                        y \in Memories /\ y.owner = m.owner /\ y.head = h
    BY DEF Memories
  <2>0. Len(log) + 1 \in Nat
    BY <1>0, SMT
  <2>3. g \in Memories /\ g.owner = m.owner /\ g.head = Len(log) + 1
    BY <2>0, <2>1
  <2>2. u \in Memories /\ u.owner = m.owner /\ u.head = m.head /\ m.head \in Nat
    BY DEF Memories
  <2> QED BY <2>2, <2>3
<1>2. Append(log, e) \in Seq(Events) /\ Len(Append(log, e)) = Len(log) + 1
  BY <1>0, SMT
<1> HIDE DEF g, u
<1>3. CASE Appends(s, e, m)
  <2>1. log' = Append(log, e) /\ mem' = [mem EXCEPT ![s] = g] /\ UNCHANGED <<damaged, faults>>
    BY <1>3 DEF Appends, g
  <2>2. RestOK /\ g.head <= Len(log')
    BY <1>0, <1>1, <1>2, <2>1, SMT DEF RestOK
  <2> QED BY <1>1, <2>1, <2>2
<1>4. CASE AppendFails(s, e, m)
  <2>1. /\ mem' = [mem EXCEPT ![s] = u] /\ faults < MaxFaults /\ faults' = faults + 1
    BY <1>4 DEF AppendFails, u
  <2>2. faults' \in 0..MaxFaults
    BY <1>0, <2>1, GuardConstants, SMT
  <2>3. damaged' \in BOOLEAN
    BY <1>0, <1>4 DEF AppendFails
  <2>4. log' = log \/ log' = Append(log, e)
    BY <1>4 DEF AppendFails
  <2>5. Len(log) <= Len(log') /\ log' \in Seq(Events) /\ u.head <= Len(log')
    BY <1>0, <1>1, <1>2, <2>4, SMT
  <2>6. RestOK
    BY <1>0, <2>2, <2>3, <2>5 DEF RestOK
  <2> QED BY <1>1, <2>1, <2>5, <2>6
<1>5. CASE ~m.owner /\ mem' = [mem EXCEPT ![s] = m] /\ UNCHANGED <<log, damaged, faults>>
  <2>1. RestOK /\ m.head <= Len(log')
    BY <1>0, <1>5, SMT DEF RestOK
  <2> QED BY <1>5, <2>1
<1> QED BY <1>3, <1>4, <1>5 DEF TryAppend

\* Recording a key, or a payment whose outcome is unknown.
LEMMA KeyKeeps ==
    ASSUME NEW m \in Memories, NEW k \in Keys, NEW v \in {"none", "in-flight", "done"},
           NEW y, y = [m EXCEPT !.byKey[k] = v]
    PROVE  /\ y \in Memories /\ y.owner = m.owner /\ y.head = m.head /\ y.nextSeq = m.nextSeq
           /\ y.unavailable = m.unavailable /\ y.conflict = m.conflict /\ y.unknown = m.unknown
           /\ y.byKey[k] = v /\ \A h \in Keys \ {k} : y.byKey[h] = m.byKey[h]
BY DEF Memories

\* finish with an unknown outcome notes the payment, and nothing else.
LEMMA UnknownKeeps ==
    ASSUME NEW m \in Memories, NEW u \in Payments \X Nat,
           NEW y, y = [m EXCEPT !.unknown = m.unknown \cup {u}]
    PROVE  /\ y \in Memories /\ y.owner = m.owner /\ y.head = m.head /\ y.nextSeq = m.nextSeq
           /\ y.unavailable = m.unavailable /\ y.conflict = m.conflict /\ y.byKey = m.byKey
           /\ y.unknown = m.unknown \cup {u}
BY DEF Memories

-----------------------------------------------------------------------------
(* The steps of a send that write the log *)
\* y is memory m with what a step of send i to l records of it.
Follows(i, l, m, y) ==
    LET k == sends[i].req.key IN
    /\ y \in Memories /\ y.owner = m.owner /\ y.conflict = m.conflict
    /\ y.unavailable = m.unavailable /\ y.head = m.head /\ y.nextSeq = m.nextSeq
    /\ \A h \in Keys \ {k} : y.byKey[h] = m.byKey[h]
    /\ k # NoKey /\ l # "unsent" =>
          y.byKey[k] # "none" \/ (sends[i].pc # "admitted" /\ y.byKey[k] = m.byKey[k])
    /\ m.unknown \subseteq y.unknown
    /\ l = "unknown" => <<sends[i].req.payment, sends[i].seq>> \in y.unknown

\* Send i goes to l and writes e, a line about itself.
Records(i, l, e, y) ==
    LET s == sends[i].server IN
    /\ sends[i].pc \in Running /\ l \in Stages \ {"admitted", "unanswered"}
    /\ Follows(i, l, mem[s], y)
    /\ e \in Events /\ e.seq = sends[i].seq /\ e.req = sends[i].req /\ e.prev = mem[s].head
    /\ e.op = "abandon" => l = "unsent"
    /\ e.op = "finish" => l = e.outcome
    /\ Appends(s, e, y) \/ AppendFails(s, e, y) \/ TryAppend(s, e, y)
    /\ sends[i].pc = "admitted" => l = "unsent" \/ (e.op = "begin" /\ Appends(s, e, y))
    /\ sends' = [sends EXCEPT ![i].pc = l]
    /\ UNCHANGED <<life, lock, reading, usurped>>

\* A send that is under way was admitted.
LEMMA RunningIsAdmitted ==
    ASSUME TypeOK, NEW i \in Ids, sends[i].pc # "none"
    PROVE  /\ sends[i] \in Admitted /\ sends[i].server \in Servers /\ sends[i].seq \in Nat
           /\ sends[i].req \in Requests /\ sends[i].req.payment \in Payments
           /\ sends[i].req.key # NoKey => sends[i].req.key \in Keys
           /\ mem[sends[i].server] \in Memories
           /\ mem[sends[i].server].head <= Len(log)
<1>1. sends[i] \in Admitted
  BY SMT DEF TypeOK, NoSend
<1>2. sends[i].server \in Servers /\ sends[i].seq \in Nat /\ sends[i].req \in Requests
  BY <1>1 DEF Admitted
<1>3. sends[i].req.payment \in Payments /\ (sends[i].req.key # NoKey => sends[i].req.key \in Keys)
  BY <1>2 DEF Requests
<1> QED BY <1>1, <1>2, <1>3 DEF TypeOK

\* abandon frees the key if it was in flight.
Freed(i, m) ==
    LET k == sends[i].req.key IN
    IF k # NoKey /\ m.byKey[k] = "in-flight" THEN [m EXCEPT !.byKey[k] = "none"] ELSE m

\* abandon as a step that records what it does.
LEMMA AbandonIs ==
    ASSUME TypeOK, NEW i \in Ids, sends[i].pc # "none", NEW m \in Memories,
           Abandon(sends[i].server, i, m)
    PROVE  /\ Follows(i, "unsent", m, Freed(i, m))
           /\ TryAppend(sends[i].server, Event(sends[i].server, i, "abandon", "none"), Freed(i, m))
           /\ sends' = [sends EXCEPT ![i].pc = "unsent"]
<1> DEFINE k == sends[i].req.key
<1>1. k # NoKey => k \in Keys
  BY RunningIsAdmitted
<1>2. Follows(i, "unsent", m, Freed(i, m))
  <2>1. CASE k # NoKey /\ m.byKey[k] = "in-flight"
    <3> DEFINE y == [m EXCEPT !.byKey[k] = "none"]
    <3>0. y = [m EXCEPT !.byKey[k] = "none"] /\ k \in Keys
      BY <1>1, <2>1
    <3>2. Freed(i, m) = y
      BY <2>1 DEF Freed
    <3> HIDE DEF y, k
    <3>1. /\ y \in Memories /\ y.owner = m.owner /\ y.head = m.head /\ y.nextSeq = m.nextSeq
          /\ y.unavailable = m.unavailable /\ y.conflict = m.conflict /\ y.unknown = m.unknown
          /\ \A h \in Keys \ {k} : y.byKey[h] = m.byKey[h]
      BY <3>0, KeyKeeps, SMT
    <3> QED BY <3>1, <3>2 DEF Follows, k
  <2>2. CASE ~(k # NoKey /\ m.byKey[k] = "in-flight")
    <3>1. Freed(i, m) = m
      BY <2>2 DEF Freed
    <3> QED BY <3>1 DEF Follows
  <2> QED BY <2>1, <2>2
<1>3. /\ TryAppend(sends[i].server, Event(sends[i].server, i, "abandon", "none"), Freed(i, m))
      /\ sends' = [sends EXCEPT ![i].pc = "unsent"]
  BY DEF Abandon, Freed
<1> QED BY <1>2, <1>3

\* begin, signed, finish and abandon, recorded or not.
LEMMA SendStepIs ==
    ASSUME TypeOK, NEW i \in Ids,
           \/ Begin(i) \/ BeginFails(i) \/ PlanFails(i) \/ SignedRecord(i)
           \/ SignedRecordFails(i) \/ AbandonUnrecorded(i) \/ NotSent(i)
           \/ \E o \in {"known", "unknown"} : Finish(i, o)
    PROVE  \E l, e, y : Records(i, l, e, y)
<1> DEFINE s == sends[i].server
           m == mem[s]
           k == sends[i].req.key
           ev(op, o) == Event(s, i, op, o)
<1>0. ASSUME sends[i].pc \in Running
      PROVE  /\ s \in Servers /\ m \in Memories /\ (k # NoKey => k \in Keys)
             /\ <<sends[i].req.payment, sends[i].seq>> \in Payments \X Nat
             /\ \A op \in {"begin", "signed", "abandon", "finish"}, o \in {"none", "known", "unknown"} :
                  /\ ev(op, o) \in Events /\ ev(op, o).op = op /\ ev(op, o).outcome = o
                  /\ ev(op, o).seq = sends[i].seq /\ ev(op, o).req = sends[i].req
                  /\ ev(op, o).prev = m.head
  <2>1. sends[i].pc # "none"
    BY <1>0 DEF Running, MidTurn
  <2>2. sends[i] \in Admitted
    BY <2>1, RunningIsAdmitted
  <2>3. /\ s \in Servers /\ m \in Memories /\ (k # NoKey => k \in Keys)
        /\ sends[i].req.payment \in Payments /\ sends[i].seq \in Nat
    BY <2>1, RunningIsAdmitted
  <2>4. ASSUME NEW op \in {"begin", "signed", "abandon", "finish"}, NEW o \in {"none", "known", "unknown"}
        PROVE  /\ ev(op, o) \in Events /\ ev(op, o).op = op /\ ev(op, o).outcome = o
               /\ ev(op, o).seq = sends[i].seq /\ ev(op, o).req = sends[i].req
               /\ ev(op, o).prev = m.head
    <3>1. PICK e : e = ev(op, o)
      OBVIOUS
    <3>2. /\ e \in Events /\ e.op = op /\ e.outcome = o /\ e.seq = sends[i].seq
          /\ e.req = sends[i].req /\ e.prev = m.head
      BY <2>2, <3>1, EventIs, SMT
    <3> QED BY <3>1, <3>2
  <2> QED BY <2>3, <2>4
<1> HIDE DEF ev
<1>1. \A l : Follows(i, l, m, m) <=>
        /\ m \in Memories
        /\ k # NoKey /\ l # "unsent" => m.byKey[k] # "none" \/ sends[i].pc # "admitted"
        /\ l = "unknown" => <<sends[i].req.payment, sends[i].seq>> \in m.unknown
  BY DEF Follows
<1>2. CASE Begin(i)
  <2> DEFINE y == IF k = NoKey THEN m ELSE [m EXCEPT !.byKey[k] = "in-flight"]
  <2>1. /\ sends[i].pc = "admitted" /\ Appends(s, ev("begin", "none"), y)
        /\ UNCHANGED <<life, lock, reading, usurped>> /\ sends' = [sends EXCEPT ![i].pc = "begun"]
    BY <1>2 DEF Begin, ev
  <2>2. sends[i].pc \in Running /\ "begun" \in Stages \ {"admitted", "unanswered"}
    BY <2>1 DEF Running, MidTurn, Stages
  <2>3. Follows(i, "begun", m, y)
    <3>1. CASE k = NoKey
      <4>1. y = m
        BY <3>1
      <4> QED BY <1>0, <1>1, <2>2, <3>1, <4>1
    <3>2. CASE k # NoKey
      <4>1. y = [m EXCEPT !.byKey[k] = "in-flight"]
        BY <3>2
      <4>0. m \in Memories /\ k \in Keys
        BY <1>0, <2>2, <3>2
      <4> HIDE DEF y, k, m
      <4>2. /\ y \in Memories /\ y.owner = m.owner /\ y.head = m.head /\ y.nextSeq = m.nextSeq
            /\ y.unavailable = m.unavailable /\ y.conflict = m.conflict /\ y.unknown = m.unknown
            /\ y.byKey[k] = "in-flight" /\ \A h \in Keys \ {k} : y.byKey[h] = m.byKey[h]
        BY <4>0, <4>1, KeyKeeps, SMTT(30)
      <4> QED BY <4>2 DEF Follows, k
    <3> QED BY <3>1, <3>2
  <2> HIDE DEF y
  <2>4. Records(i, "begun", ev("begin", "none"), y)
    BY <1>0, <2>1, <2>2, <2>3 DEF Records
  <2> QED BY <2>4
<1>3. CASE BeginFails(i)
  <2>1. /\ sends[i].pc = "admitted" /\ AppendFails(s, ev("begin", "none"), m)
        /\ UNCHANGED <<life, lock, reading, usurped>> /\ sends' = [sends EXCEPT ![i].pc = "unsent"]
    BY <1>3 DEF BeginFails, ev
  <2>2. sends[i].pc \in Running /\ "unsent" \in Stages \ {"admitted", "unanswered"}
    BY <2>1 DEF Running, MidTurn, Stages
  <2>3. Follows(i, "unsent", m, m)
    BY <1>0, <1>1, <2>2
  <2>4. Records(i, "unsent", ev("begin", "none"), m)
    BY <1>0, <2>1, <2>2, <2>3, SMT DEF Records
  <2> QED BY <2>4
<1>4. CASE SignedRecord(i)
  <2>1. /\ sends[i].pc = "checked" /\ Appends(s, ev("signed", "none"), m)
        /\ UNCHANGED <<life, lock, reading, usurped>> /\ sends' = [sends EXCEPT ![i].pc = "signed"]
    BY <1>4 DEF SignedRecord, ev
  <2>2. sends[i].pc \in Running /\ "signed" \in Stages \ {"admitted", "unanswered"}
    BY <2>1 DEF Running, MidTurn, Stages
  <2>3. Follows(i, "signed", m, m)
    BY <1>0, <1>1, <2>1, <2>2
  <2>4. Records(i, "signed", ev("signed", "none"), m)
    BY <1>0, <2>1, <2>2, <2>3, SMT DEF Records
  <2> QED BY <2>4
<1>5. CASE SignedRecordFails(i)
  <2>1. /\ sends[i].pc = "checked" /\ AppendFails(s, ev("signed", "none"), m)
        /\ UNCHANGED <<life, lock, reading, usurped>> /\ sends' = [sends EXCEPT ![i].pc = "unrecorded"]
    BY <1>5 DEF SignedRecordFails, ev
  <2>2. sends[i].pc \in Running /\ "unrecorded" \in Stages \ {"admitted", "unanswered"}
    BY <2>1 DEF Running, MidTurn, Stages
  <2>3. Follows(i, "unrecorded", m, m)
    BY <1>0, <1>1, <2>1, <2>2
  <2>4. Records(i, "unrecorded", ev("signed", "none"), m)
    BY <1>0, <2>1, <2>2, <2>3 DEF Records
  <2> QED BY <2>4
<1>6. CASE PlanFails(i) \/ AbandonUnrecorded(i) \/ NotSent(i)
  <2>1. /\ sends[i].pc \in {"begun", "unrecorded", "signed"} /\ Abandon(s, i, m)
        /\ UNCHANGED <<life, lock, reading, usurped>>
    BY <1>6 DEF PlanFails, AbandonUnrecorded, NotSent
  <2>2. sends[i].pc \in Running /\ "unsent" \in Stages \ {"admitted", "unanswered"} /\ sends[i].pc # "none"
    BY <2>1 DEF Running, MidTurn, Stages
  <2>3. /\ Follows(i, "unsent", m, Freed(i, m)) /\ TryAppend(s, ev("abandon", "none"), Freed(i, m))
        /\ sends' = [sends EXCEPT ![i].pc = "unsent"]
    BY <1>0, <2>1, <2>2, AbandonIs DEF ev
  <2>4. Records(i, "unsent", ev("abandon", "none"), Freed(i, m))
    BY <1>0, <2>1, <2>2, <2>3 DEF Records
  <2> QED BY <2>4
<1>7. ASSUME NEW o \in {"known", "unknown"}, Finish(i, o) PROVE \E l, e, y : Records(i, l, e, y)
  <2> DEFINE d == IF k = NoKey THEN m ELSE [m EXCEPT !.byKey[k] = "done"]
             u == <<sends[i].req.payment, sends[i].seq>>
             y == IF o # "unknown" THEN d ELSE [d EXCEPT !.unknown = d.unknown \cup {u}]
  <2>1. /\ sends[i].pc = "sent" /\ TryAppend(s, ev("finish", o), y)
        /\ UNCHANGED <<life, lock, reading, usurped>> /\ sends' = [sends EXCEPT ![i].pc = o]
    BY <1>7 DEF Finish, ev
  <2>2. sends[i].pc \in Running /\ o \in Stages \ {"admitted", "unanswered"}
    BY <2>1 DEF Running, MidTurn, Stages
  <2>3. /\ d \in Memories /\ d.owner = m.owner /\ d.head = m.head /\ d.nextSeq = m.nextSeq
        /\ d.unavailable = m.unavailable /\ d.conflict = m.conflict /\ d.unknown = m.unknown
        /\ k # NoKey => d.byKey[k] # "none"
        /\ \A h \in Keys \ {k} : d.byKey[h] = m.byKey[h]
    <3>1. CASE k = NoKey
      BY <1>0, <2>2, <3>1, SMT
    <3>2. CASE k # NoKey
      <4>1. d = [m EXCEPT !.byKey[k] = "done"]
        BY <3>2
      <4>2. m \in Memories /\ k \in Keys
        BY <1>0, <2>2, <3>2
      <4> HIDE DEF d, k, m
      <4>3. d.byKey[k] = "done"
        BY <4>1, <4>2, KeyKeeps, SMT
      <4> QED BY <4>1, <4>2, <4>3, KeyKeeps, SMT
    <3> QED BY <3>1, <3>2
  <2> HIDE DEF d
  <2>4. /\ y \in Memories /\ y.owner = d.owner /\ y.head = d.head /\ y.nextSeq = d.nextSeq
        /\ y.unavailable = d.unavailable /\ y.conflict = d.conflict /\ y.byKey = d.byKey
        /\ d.unknown \subseteq y.unknown /\ (o = "unknown" => u \in y.unknown)
    <3>1. CASE o # "unknown"
      BY <2>3, <3>1
    <3>2. CASE o = "unknown"
      <4>1. y = [d EXCEPT !.unknown = d.unknown \cup {u}]
        BY <3>2
      <4>2. u \in Payments \X Nat
        BY <1>0, <2>2
      <4> HIDE DEF y, u
      <4>3. /\ y \in Memories /\ y.owner = d.owner /\ y.head = d.head /\ y.nextSeq = d.nextSeq
            /\ y.unavailable = d.unavailable /\ y.conflict = d.conflict /\ y.byKey = d.byKey
            /\ y.unknown = d.unknown \cup {u}
        BY <2>3, <4>1, <4>2, UnknownKeeps, SMTT(30)
      <4> QED BY <4>3
    <3> QED BY <3>1, <3>2
  <2> HIDE DEF y
  <2>5. Follows(i, o, m, y)
    <3> HIDE DEF m
    <3>1. /\ y \in Memories /\ y.owner = m.owner /\ y.conflict = m.conflict
          /\ y.unavailable = m.unavailable /\ y.head = m.head /\ y.nextSeq = m.nextSeq
          /\ m.unknown \subseteq y.unknown /\ (o = "unknown" => u \in y.unknown)
      BY <2>3, <2>4
    <3>2. /\ \A h \in Keys \ {k} : y.byKey[h] = m.byKey[h]
          /\ k # NoKey => y.byKey[k] # "none"
      BY <2>3, <2>4
    <3> QED BY <3>1, <3>2 DEF Follows
  <2>6. Records(i, o, ev("finish", o), y)
    BY <1>0, <2>1, <2>2, <2>5, SMT DEF Records
  <2> QED BY <2>6
<1> QED BY <1>2, <1>3, <1>4, <1>5, <1>6, <1>7, ZenonT(30)

-----------------------------------------------------------------------------
(* Every step keeps the types and the owner *)
\* A step that writes a line, or fails to.
LEMMA RecordsSound ==
    ASSUME Sound, NEW i \in Ids, NEW l, NEW e, NEW y, Records(i, l, e, y)
    PROVE  Sound'
<1> DEFINE s == sends[i].server
<1>1. /\ TypeOK /\ sends[i].pc # "none" /\ l \in Stages /\ e \in Events
      /\ sends' = [sends EXCEPT ![i].pc = l] /\ UNCHANGED <<life, lock, reading, usurped>>
      /\ Appends(s, e, y) \/ AppendFails(s, e, y) \/ TryAppend(s, e, y)
      /\ y \in Memories /\ y.owner = mem[s].owner /\ y.head = mem[s].head
  BY DEF Sound, Records, Follows, Running, MidTurn
<1>2. s \in Servers /\ mem[s].head <= Len(log)
  BY <1>1, RunningIsAdmitted
<1> HIDE DEF s
<1>3. PICK x \in Memories : x.owner = y.owner /\ x.head <= Len(log') /\ mem' = [mem EXCEPT ![s] = x]
  BY <1>1, <1>2, AppendKeeps, SMT
<1>4. RestOK
  BY <1>1, <1>2, AppendKeeps
<1>5. sends' \in [Ids -> {NoSend} \cup Admitted]
  BY <1>1, SendGoesOn
<1> QED BY <1>1, <1>2, <1>3, <1>4, <1>5, Calm

\* A step of a send that writes nothing.
LEMMA BroadcastSound ==
    ASSUME Sound, NEW i \in Ids, Broadcast(i)
    PROVE  Sound'
<1>1. /\ sends[i].pc = "signed" /\ sends' = [sends EXCEPT ![i].pc = "sent"]
      /\ UNCHANGED <<life, lock, log, damaged, mem, reading, faults, usurped>>
  BY DEF Broadcast
<1>2. TypeOK /\ sends[i].pc # "none" /\ "sent" \in Stages
  BY <1>1 DEF Sound, Stages, Running
<1>3. sends' \in [Ids -> {NoSend} \cup Admitted]
  BY <1>1, <1>2, SendGoesOn
<1> QED BY <1>1, <1>2, <1>3, SMT DEF Sound, TypeOK, OneOwner

\* signed() takes the lock or gives the send up.
LEMMA SignedCheckSound ==
    ASSUME Sound, NEW i \in Ids, SignedCheck(i)
    PROVE  Sound'
<1> DEFINE s == sends[i].server
           m == mem[s]
           n == EnsureOwner(s, m)
<1>1. /\ sends[i].pc = "begun" /\ life[s] = "up" /\ lock' = LockAfter(s, m)
      /\ UNCHANGED <<life, reading, usurped>>
      /\ \/ /\ mem' = [mem EXCEPT ![s] = n] /\ sends' = [sends EXCEPT ![i].pc = "checked"]
            /\ UNCHANGED <<log, damaged, faults>>
         \/ Abandon(s, i, n)
  BY DEF SignedCheck, Turn
<1>2. TypeOK /\ sends[i].pc # "none" /\ {"checked", "unsent"} \subseteq Stages
  BY <1>1 DEF Sound, Stages, Running, MidTurn
<1>3. /\ sends[i] \in Admitted /\ s \in Servers /\ m \in Memories /\ m.head <= Len(log)
      /\ life' = [life EXCEPT ![s] = "up"]
  BY <1>1, <1>2, RunningIsAdmitted DEF TypeOK
<1>4. n \in Memories /\ n.head <= Len(log)
  BY <1>2, <1>3, EnsureOwnerIs
<1>5. CASE /\ mem' = [mem EXCEPT ![s] = n] /\ sends' = [sends EXCEPT ![i].pc = "checked"]
           /\ UNCHANGED <<log, damaged, faults>>
  <2>1. RestOK
    BY <1>1, <1>2, <1>5, RestKept, SMT
  <2>2. sends' \in [Ids -> {NoSend} \cup Admitted]
    BY <1>2, <1>5, SendGoesOn
  <2>3. n.head <= Len(log')
    BY <1>4, <1>5
  <2> QED BY <1>1, <1>3, <1>4, <1>5, <2>1, <2>2, <2>3, Ensures
<1>6. CASE Abandon(s, i, n)
  <2> DEFINE y == Freed(i, n)
             e == Event(s, i, "abandon", "none")
  <2> HIDE DEF n
  <2>1. Follows(i, "unsent", n, y) /\ TryAppend(s, e, y) /\ sends' = [sends EXCEPT ![i].pc = "unsent"]
    BY <1>2, <1>4, <1>6, AbandonIs, SMT
  <2>2. e \in Events
    BY <1>2, <1>3, EventIs, SMT
  <2>3. y \in Memories /\ y.owner = n.owner /\ y.head = n.head
    BY <2>1 DEF Follows
  <2>4. sends' \in [Ids -> {NoSend} \cup Admitted]
    BY <1>2, <2>1, SendGoesOn
  <2> HIDE DEF y, e, s, m
  <2>5. y.head <= Len(log)
    BY <1>4, <2>3
  <2>6. RestOK
    BY <1>1, <1>2, <1>3, <2>1, <2>2, <2>3, <2>5, AppendKeeps, SMT
  <2>7. PICK x \in Memories : x.owner = y.owner /\ x.head <= Len(log') /\ mem' = [mem EXCEPT ![s] = x]
    BY <1>1, <1>2, <1>3, <2>1, <2>2, <2>3, <2>5, AppendKeeps, SMT
  <2>8. x.owner = EnsureOwner(s, m).owner
    BY <2>3, <2>7 DEF n
  <2> QED BY <1>1, <1>3, <2>4, <2>6, <2>7, <2>8, Ensures
<1> QED BY <1>1, <1>5, <1>6, SMT

\* A server starts, admits, refuses.
LEMMA ServerSound ==
    ASSUME Sound, NEW s \in Servers,
           Start(s) \/ Refuse(s) \/ \E i \in Ids, r \in Requests : Admit(s, i, r)
    PROVE  Sound'
<1>0. /\ TypeOK /\ mem[s] \in Memories /\ mem[s].head <= Len(log)
      /\ sends \in [Ids -> {NoSend} \cup Admitted]
      /\ life[s] = "up" => life = [life EXCEPT ![s] = "up"]
  BY DEF Sound, TypeOK
<1>1. CASE Start(s)
  <2> DEFINE m == EnsureOwner(s, EmptyMemory)
             x == Loaded(m)
  <2>0. EmptyMemory \in Memories /\ EmptyMemory.head <= Len(log)
    BY <1>0, EmptyIsMemory, SMT DEF TypeOK
  <2>1. m \in Memories
    BY <1>0, <2>0, EnsureOwnerIs
  <2>2. /\ mem' = [mem EXCEPT ![s] = x] /\ life' = [life EXCEPT ![s] = "up"]
        /\ lock' = LockAfter(s, EmptyMemory) /\ usurped' = usurped /\ sends' = sends
        /\ UNCHANGED <<log, damaged, faults, reading>>
    BY <1>1 DEF Start
  <2>3. x \in Memories /\ x.owner = EnsureOwner(s, EmptyMemory).owner /\ x.head <= Len(log')
    <3> HIDE DEF m
    <3>1. Loaded(m) \in Memories /\ Loaded(m).owner = m.owner /\ Loaded(m).head <= Len(log)
      BY <1>0, <2>1, LoadedIs, SMT
    <3> QED BY <2>2, <3>1 DEF m
  <2> HIDE DEF x
  <2> QED BY <1>0, <2>0, <2>2, <2>3, RestKept, Ensures
<1>2. CASE Refuse(s)
  <2>1. /\ mem' = [mem EXCEPT ![s] = EnsureOwner(s, mem[s])] /\ life' = life /\ life[s] = "up"
        /\ lock' = LockAfter(s, mem[s]) /\ usurped' = usurped /\ sends' = sends
        /\ UNCHANGED <<log, damaged, faults, reading>>
    BY <1>2 DEF Refuse, Turn
  <2>2. EnsureOwner(s, mem[s]) \in Memories /\ EnsureOwner(s, mem[s]).head <= Len(log')
    BY <1>0, <2>1, EnsureOwnerIs
  <2> QED BY <1>0, <2>1, <2>2, RestKept, Ensures
<1>3. ASSUME NEW i \in Ids, NEW r \in Requests, Admit(s, i, r) PROVE Sound'
  <2> DEFINE m == EnsureOwner(s, mem[s])
             x == [m EXCEPT !.nextSeq = m.nextSeq + 1]
             z == [pc |-> "admitted", server |-> s, req |-> r, seq |-> m.nextSeq]
  <2>1. /\ mem' = [mem EXCEPT ![s] = x] /\ life' = life /\ life[s] = "up"
        /\ lock' = LockAfter(s, mem[s]) /\ usurped' = usurped
        /\ sends' = [sends EXCEPT ![i] = z] /\ UNCHANGED <<log, damaged, faults, reading>>
    BY <1>3 DEF Admit, Turn
  <2>2. m \in Memories /\ m.head <= Len(log)
    BY <1>0, EnsureOwnerIs
  <2>3. x.owner = EnsureOwner(s, mem[s]).owner /\ x \in Memories /\ x.head = m.head /\ m.nextSeq \in Nat
    <3> HIDE DEF m
    <3>1. x \in Memories /\ x.owner = m.owner /\ x.head = m.head /\ m.nextSeq \in Nat
      BY <2>2, SMT DEF Memories
    <3> QED BY <3>1 DEF m
  <2>4. z \in Admitted
    BY <2>3 DEF Admitted, Running, MidTurn
  <2> HIDE DEF x, z, m
  <2>5. sends' \in [Ids -> {NoSend} \cup Admitted]
    BY <1>0, <2>1, <2>4
  <2>6. x.head <= Len(log')
    BY <2>1, <2>2, <2>3
  <2> QED BY <1>0, <2>1, <2>3, <2>5, <2>6, RestKept, Ensures
<1> QED BY <1>1, <1>2, <1>3, SMT

\* What becomes of the sends of a process that ends.
LEMMA OrphanedIs ==
    ASSUME TypeOK, NEW s \in Servers
    PROVE  /\ Orphaned(s) \in [Ids -> {NoSend} \cup Admitted]
           /\ \A i \in Ids :
                \/ Orphaned(s)[i] = sends[i] /\ (sends[i].pc \in Running => sends[i].server # s)
                \/ /\ sends[i].pc \in Running /\ sends[i].server = s
                   /\ Orphaned(s)[i].pc = IF sends[i].pc = "sent" THEN "unanswered" ELSE "unsent"
                   /\ Orphaned(s)[i].server = s /\ Orphaned(s)[i].seq = sends[i].seq
                   /\ Orphaned(s)[i].req = sends[i].req
<1>1. ASSUME NEW i \in Ids
      PROVE  /\ Orphaned(s)[i] \in {NoSend} \cup Admitted
             /\ \/ Orphaned(s)[i] = sends[i] /\ (sends[i].pc \in Running => sends[i].server # s)
                \/ /\ sends[i].pc \in Running /\ sends[i].server = s
                   /\ Orphaned(s)[i].pc = IF sends[i].pc = "sent" THEN "unanswered" ELSE "unsent"
                   /\ Orphaned(s)[i].server = s /\ Orphaned(s)[i].seq = sends[i].seq
                   /\ Orphaned(s)[i].req = sends[i].req
  <2>0. sends[i] \in {NoSend} \cup Admitted
    BY DEF TypeOK
  <2>1. CASE i \notin SendsOf(s) \/ sends[i].pc \notin Running
    <3>1. Orphaned(s)[i] = sends[i]
      BY <2>1 DEF Orphaned
    <3>2. sends[i].pc \in Running => sends[i].server # s
      BY <2>1 DEF SendsOf, Running, MidTurn
    <3> QED BY <2>0, <3>1, <3>2
  <2>2. CASE ~(i \notin SendsOf(s) \/ sends[i].pc \notin Running)
    <3> DEFINE p == IF sends[i].pc = "sent" THEN "unanswered" ELSE "unsent"
    <3>1. Orphaned(s)[i] = [sends[i] EXCEPT !.pc = p]
      BY <2>2 DEF Orphaned
    <3>2. sends[i].pc \in Running /\ sends[i].server = s /\ sends[i] \in Admitted
      BY <2>0, <2>2, SMT DEF SendsOf, NoSend
    <3>3. p \in Stages
      BY DEF Stages
    <3> HIDE DEF p
    <3>4. /\ [sends[i] EXCEPT !.pc = p] \in Admitted /\ [sends[i] EXCEPT !.pc = p].pc = p
          /\ [sends[i] EXCEPT !.pc = p].server = s /\ [sends[i] EXCEPT !.pc = p].seq = sends[i].seq
          /\ [sends[i] EXCEPT !.pc = p].req = sends[i].req
      BY <3>2, <3>3 DEF Admitted, Stages
    <3> QED BY <3>1, <3>2, <3>4 DEF p
  <2> QED BY <2>1, <2>2
<1>2. Orphaned(s) = [i \in Ids |-> Orphaned(s)[i]]
  BY DEF Orphaned
<1> QED BY <1>1, <1>2

\* A process ends, and an operator takes a lock away.
LEMMA OtherSound ==
    ASSUME Sound,
           \/ \E s \in Servers : Crash(s) \/ Exit(s)
           \/ \E o \in Operators : RecoverRead(o) \/ RecoverRename(o)
    PROVE  Sound'
<1>1. ASSUME NEW s \in Servers, Crash(s) \/ Exit(s) PROVE Sound'
  <2>0. TypeOK
    BY DEF Sound
  <2>1. /\ life' = [life EXCEPT ![s] = "dead"] /\ sends' = Orphaned(s) /\ usurped' = usurped
        /\ mem' = [mem EXCEPT ![s] = EmptyMemory]
        /\ lock' = lock \/ (lock = s /\ lock' = NoServer)
        /\ UNCHANGED <<log, reading, faults>> /\ damaged' \in {damaged, TRUE}
    BY <1>1 DEF Crash, Exit
  <2>2. /\ \A t \in Servers : mem'[t] = IF t = s THEN EmptyMemory ELSE mem[t]
        /\ mem' \in [Servers -> Memories] /\ life' \in [Servers -> {"off", "up", "dead"}]
        /\ \A t \in Servers : life'[t] = IF t = s THEN "dead" ELSE life[t]
    BY <2>0, <2>1, EmptyIsMemory DEF TypeOK
  <2>3. sends' \in [Ids -> {NoSend} \cup Admitted]
    BY <2>0, <2>1, OrphanedIs, SMT
  <2>4. \A t \in Servers : mem'[t].head <= Len(log')
    <3>1. Len(log) \in Nat
      BY <2>0, SMT DEF TypeOK
    <3> QED BY <2>0, <2>1, <2>2, <3>1, EmptyIsMemory, SMT DEF TypeOK
  <2>5. TypeOK'
    <3>1. lock' \in Servers \cup {NoServer} /\ damaged' \in BOOLEAN
      BY <2>0, <2>1 DEF TypeOK
    <3> QED BY <2>0, <2>1, <2>2, <2>3, <2>4, <3>1 DEF TypeOK
  <2>6. OneOwner'
    BY <2>1, <2>2 DEF Sound, OneOwner
  <2> QED BY <2>5, <2>6 DEF Sound
<1>2. ASSUME NEW o \in Operators, RecoverRead(o) PROVE Sound'
  BY <1>2 DEF RecoverRead, Sound, TypeOK, OneOwner
<1>3. ASSUME NEW o \in Operators, RecoverRename(o) PROVE Sound'
  <2>1. /\ UNCHANGED <<life, mem, sends, log, damaged, faults>> /\ lock' = NoServer
        /\ usurped' = (usurped \/ (lock # NoServer /\ life[lock] = "up"))
        /\ reading' \subseteq reading
    BY <1>3 DEF RecoverRename
  <2>2. TypeOK'
    BY <2>1 DEF Sound, TypeOK
  <2>3. OneOwner'
    BY <2>1, GuardConstants DEF Sound, OneOwner
  <2> QED BY <2>2, <2>3 DEF Sound
<1> QED BY <1>1, <1>2, <1>3

-----------------------------------------------------------------------------
(* What a line adds to the log *)
\* A log with one more event.
LEMMA LogGrows ==
    ASSUME NEW l \in Seq(Events), NEW e \in Events
    PROVE  LET L == Append(l, e) IN
           /\ L \in Seq(Events) /\ Len(L) = Len(l) + 1
           /\ \A n \in DOMAIN l : n \in DOMAIN L /\ L[n] = l[n]
           /\ Len(l) + 1 \in DOMAIN L /\ L[Len(l) + 1] = e
           /\ \A n \in DOMAIN L : n \in DOMAIN l \/ n = Len(l) + 1
<1>1. Len(l) \in Nat /\ DOMAIN l = 1..Len(l)
  BY SMT
<1>2. /\ Append(l, e) \in Seq(Events) /\ Len(Append(l, e)) = Len(l) + 1
      /\ DOMAIN Append(l, e) = 1..(Len(l) + 1)
  BY <1>1, SMT
<1>3. \A n \in 1..Len(l) : Append(l, e)[n] = l[n]
  BY <1>1, SMT
<1>4. Append(l, e)[Len(l) + 1] = e
  BY <1>1, SMT
<1> DEFINE L == Append(l, e)
<1> HIDE DEF L
<1>5. /\ \A n \in DOMAIN l : n \in DOMAIN L
      /\ \A n \in DOMAIN L : n \in DOMAIN l \/ n = Len(l) + 1
      /\ Len(l) + 1 \in DOMAIN L
  BY <1>1, <1>2, SMT DEF L
<1> QED BY <1>1, <1>2, <1>3, <1>4, <1>5, SMT DEF L

\* A line that names the last one as its predecessor keeps the chain.
LEMMA ChainGrows ==
    ASSUME NEW l \in Seq(Events), NEW e \in Events, Chained(l), e.prev = Len(l)
    PROVE  Chained(Append(l, e))
<1> DEFINE L == Append(l, e)
<1>1. /\ \A n \in DOMAIN l : L[n] = l[n]
      /\ L[Len(l) + 1] = e
      /\ \A n \in DOMAIN L : n \in DOMAIN l \/ n = Len(l) + 1
  BY LogGrows, SMT
<1>2. Len(l) \in Nat
  BY SMT
<1> HIDE DEF L
<1>3. ASSUME NEW n \in DOMAIN L PROVE L[n].prev = n - 1
  <2>1. CASE n \in DOMAIN l
    BY <1>1, <2>1, SMT DEF Chained
  <2>2. CASE n = Len(l) + 1
    BY <1>1, <1>2, <2>2, SMT
  <2> QED BY <1>1, <2>1, <2>2
<1> QED BY <1>3 DEF Chained, L

\* What the log says of a send stays said; a line about another send adds
\* nothing to it.
LEMMA RecordGrows ==
    ASSUME NEW l \in Seq(Events), NEW e \in Events, NEW x
    PROVE  /\ BeganIn(l, x) => BeganIn(Append(l, e), x)
           /\ e.op = "begin" /\ e.seq = x.seq /\ e.req = x.req => BeganIn(Append(l, e), x)
           /\ /\ KeptIn(l, x)
              /\ e.seq = x.seq =>
                    /\ e.op # "abandon"
                    /\ e.op = "finish" /\ x.pc # "known" => e.outcome = "unknown"
              => KeptIn(Append(l, e), x)
<1> DEFINE L == Append(l, e)
<1>1. /\ \A n \in DOMAIN l : n \in DOMAIN L /\ L[n] = l[n]
      /\ Len(l) + 1 \in DOMAIN L /\ L[Len(l) + 1] = e
      /\ \A n \in DOMAIN L : n \in DOMAIN l \/ n = Len(l) + 1
  BY LogGrows
<1> HIDE DEF L
<1>2. BeganIn(l, x) => BeganIn(L, x)
  BY <1>1 DEF BeganIn
<1>3. e.op = "begin" /\ e.seq = x.seq /\ e.req = x.req => BeganIn(L, x)
  BY <1>1 DEF BeganIn
<1>4. ASSUME KeptIn(l, x),
             e.seq = x.seq =>
                 /\ e.op # "abandon"
                 /\ e.op = "finish" /\ x.pc # "known" => e.outcome = "unknown"
      PROVE  KeptIn(L, x)
  <2>1. Ended(L, x.seq, "abandon") = {}
    BY <1>1, <1>4 DEF KeptIn, Ended
  <2>2. x.pc # "known" => \A n \in Ended(L, x.seq, "finish") : L[n].outcome = "unknown"
    BY <1>1, <1>4, SMT DEF KeptIn, Ended
  <2> QED BY <2>1, <2>2, SMT DEF KeptIn
<1> QED BY <1>2, <1>3, <1>4, SMT DEF L

-----------------------------------------------------------------------------
(* Every step keeps the rest of the invariant, unless a lock was usurped *)
\* The owner is the only one.
LEMMA OnlyOwner ==
    ASSUME Sound, ~usurped, NEW s \in Servers, Owner(s), NEW t \in Servers, Owner(t)
    PROVE  t = s /\ lock = s
BY DEF Sound, OneOwner, Owner

\* A send that goes on, or ends, on a server that keeps the lock.
LEMMA MoveKeeps ==
    ASSUME Sound, GuardInv, NEW i \in Ids, sends[i].pc \in Running,
           NEW l \in Stages \ {"admitted", "unanswered"}, sends' = [sends EXCEPT ![i].pc = l],
           life' = life,
           \A t \in Servers : mem'[t].owner = mem[t].owner /\ mem'[t].nextSeq = mem[t].nextSeq
    PROVE  WorkInv' /\ ApartInv' /\ LoneInv'
<1>0. TypeOK /\ sends[i].pc # "none"
  BY DEF Sound, Running, MidTurn
<1>1. /\ sends'[i].pc = l /\ sends'[i].server = sends[i].server
      /\ sends'[i].req = sends[i].req /\ sends'[i].seq = sends[i].seq
      /\ \A j \in Ids \ {i} : sends'[j] = sends[j]
  BY <1>0, SendGoesOn
<1>2. \A j \in Ids : /\ sends'[j].pc \in Running => sends[j].pc \in Running
                     /\ Live(j)' => Live(j)
                     /\ Live(j)' => /\ sends'[j].server = sends[j].server
                                    /\ sends'[j].req = sends[j].req /\ sends'[j].seq = sends[j].seq
  <2> SUFFICES ASSUME NEW j \in Ids
               PROVE  /\ sends'[j].pc \in Running => sends[j].pc \in Running
                      /\ Live(j)' => Live(j)
                      /\ Live(j)' => /\ sends'[j].server = sends[j].server
                                     /\ sends'[j].req = sends[j].req /\ sends'[j].seq = sends[j].seq
    OBVIOUS
  <2>1. CASE j = i
    <3>1. Live(i)
      BY DEF Live, Running, MidTurn
    <3> QED BY <1>1, <2>1, <3>1, SMT
  <2>2. CASE j # i
    BY <1>1, <2>2, SMT DEF Live
  <2> QED BY <2>1, <2>2
<1>3. \A j \in Ids : sends'[j].pc \in Running => Live(j)'
  BY DEF Live, Running, MidTurn
<1>4. WorkInv'
  <2> SUFFICES ASSUME NEW j \in Ids, sends'[j].pc \in Running
               PROVE  Owner(sends[j].server)' /\ sends'[j].seq < mem'[sends'[j].server].nextSeq
    BY DEF WorkInv
  <2>1. /\ sends[j].pc \in Running /\ sends'[j].server = sends[j].server
        /\ sends'[j].seq = sends[j].seq
    BY <1>2, <1>3
  <2>2. sends[j].server \in Servers
    BY <1>0, <2>1, RunningIsAdmitted, SMT DEF Running, MidTurn
  <2>3. Owner(sends[j].server) /\ sends[j].seq < mem[sends[j].server].nextSeq
    BY <2>1 DEF GuardInv, WorkInv
  <2> QED BY <2>1, <2>2, <2>3, SMT DEF Owner
<1>5. ApartInv'
  BY <1>2, SMT DEF GuardInv, ApartInv
<1>6. LoneInv'
  <2> SUFFICES ASSUME NEW a \in Ids, NEW b \in Ids, a # b, sends'[a].pc \in Running, Live(b)',
                      sends'[a].req.payment = sends'[b].req.payment
               PROVE  /\ sends'[b].pc \notin Running
                      /\ sends'[b].pc \in {"unknown", "unanswered"} => sends'[a].req.allowNew
    BY DEF LoneInv
  <2>1. /\ sends[a].pc \in Running /\ Live(b) /\ sends'[a].req = sends[a].req
        /\ sends'[b].req = sends[b].req
    BY <1>2, <1>3, SMT
  <2>2. /\ sends[b].pc \notin Running
        /\ sends[b].pc \in {"unknown", "unanswered"} => sends[a].req.allowNew
    BY <2>1, SMT DEF GuardInv, LoneInv
  <2>3. b # i
    BY <2>2
  <2> QED BY <1>1, <2>1, <2>2, <2>3
<1> QED BY <1>4, <1>5, <1>6, SMT

\* A send writes a line, or fails to, and goes on or ends.
LEMMA RecordsGuard ==
    ASSUME Sound, ~usurped, GuardInv, NEW i \in Ids, NEW l, NEW e, NEW y, Records(i, l, e, y)
    PROVE  GuardInv'
<1> DEFINE s == sends[i].server
           m == mem[s]
           x == mem'[s]
<1>0. TypeOK /\ sends[i].pc # "none" /\ sends[i].pc \in Running /\ l \in Stages \ {"admitted", "unanswered"}
  BY DEF Sound, Records, Running, MidTurn
<1>1. /\ s \in Servers /\ m \in Memories /\ sends[i].seq \in Nat
      /\ sends[i].req.key # NoKey => sends[i].req.key \in Keys
      /\ log \in Seq(Events) /\ Len(log) \in Nat /\ faults \in Nat /\ mem \in [Servers -> Memories]
  BY <1>0, RunningIsAdmitted, SMT DEF TypeOK
<1>2. /\ Follows(i, l, m, y) /\ e \in Events /\ e.seq = sends[i].seq /\ e.req = sends[i].req
      /\ e.prev = m.head /\ (e.op = "abandon" => l = "unsent") /\ (e.op = "finish" => l = e.outcome)
      /\ Appends(s, e, y) \/ AppendFails(s, e, y) \/ TryAppend(s, e, y)
      /\ sends[i].pc = "admitted" => l = "unsent" \/ (e.op = "begin" /\ Appends(s, e, y))
      /\ sends' = [sends EXCEPT ![i].pc = l] /\ UNCHANGED <<life, lock, reading, usurped>>
  BY DEF Records
<1>3. Owner(s) /\ m.owner /\ sends[i].seq < m.nextSeq
  BY <1>0 DEF GuardInv, WorkInv, Owner
<1>4. /\ y \in Memories /\ y.owner = m.owner /\ y.conflict = m.conflict
      /\ y.unavailable = m.unavailable /\ y.head = m.head /\ y.nextSeq = m.nextSeq
  BY <1>2 DEF Follows
<1>5. /\ sends'[i].pc = l /\ sends'[i].server = sends[i].server
      /\ sends'[i].req = sends[i].req /\ sends'[i].seq = sends[i].seq
      /\ \A j \in Ids \ {i} : sends'[j] = sends[j]
  BY <1>0, <1>2, SendGoesOn
<1>6. Live(i)
  BY <1>0 DEF Live, Running, MidTurn
<1>7. CASE Appends(s, e, y)
  <2>1. log' = Append(log, e) /\ UNCHANGED <<damaged, faults>>
        /\ mem' = [mem EXCEPT ![s] = [y EXCEPT !.head = Len(log) + 1]]
    BY <1>7, SMT DEF Appends
  <2>2. /\ x.owner = m.owner /\ x.conflict = m.conflict /\ x.unavailable = m.unavailable
        /\ x.head = Len(log) + 1 /\ x.nextSeq = m.nextSeq /\ x.byKey = y.byKey /\ x.unknown = y.unknown
        /\ \A t \in Servers : t # s => mem'[t] = mem[t]
    <3>1. x = [y EXCEPT !.head = Len(log) + 1] /\ \A t \in Servers : t # s => mem'[t] = mem[t]
      BY <1>1, <2>1, SMT
    <3> HIDE DEF x, m
    <3> QED BY <1>4, <3>1, SMT DEF Memories
  <2>3. /\ log' \in Seq(Events) /\ Len(log') = Len(log) + 1
        /\ \A n \in DOMAIN log : n \in DOMAIN log' /\ log'[n] = log[n]
        /\ Len(log) + 1 \in DOMAIN log' /\ log'[Len(log) + 1] = e
        /\ \A n \in DOMAIN log' : n \in DOMAIN log \/ n = Len(log) + 1
    BY <1>1, <1>2, <2>1, LogGrows, SMT
  <2> HIDE DEF x, m, s
  <2>4. WorkInv' /\ ApartInv' /\ LoneInv'
    <3>1. \A t \in Servers : mem'[t].owner = mem[t].owner /\ mem'[t].nextSeq = mem[t].nextSeq
      BY <2>2, SMT DEF x, m
    <3> QED BY <1>0, <1>2, <3>1, MoveKeeps
  <2>5. IdleInv'
    BY <1>2, <1>3, <2>2 DEF GuardInv, IdleInv, x
  <2>6. ChainInv'
    <3> SUFFICES ASSUME faults = 0 PROVE Chained(log')
      BY <2>1 DEF ChainInv
    <3>1. Chained(log) /\ m.head = Len(log)
      BY <1>1, <1>3, SMT DEF GuardInv, ChainInv, MemInv, Fits, m
    <3> QED BY <1>1, <1>2, <2>1, <3>1, ChainGrows, SMT
  <2>7. MemInv'
    <3> SUFFICES ASSUME NEW t \in Servers, Owner(t)' PROVE Fits(mem[t])'
      BY DEF MemInv
    <3>1. t = s
      <4>1. mem'[t].owner = mem[t].owner
        BY <2>2, SMT DEF x, m
      <4>2. Owner(t)
        BY <1>2, <4>1, SMT DEF Owner
      <4> QED BY <1>1, <1>3, <4>2, OnlyOwner, SMT
    <3>2. faults' = 0 => x.head = Len(log')
      BY <2>2, <2>3, SMT
    <3>3. ASSUME ~x.unavailable PROVE Knows(mem[t])'
      <4>1. Knows(m)
        BY <1>1, <1>3, <2>2, <3>3, SMT DEF GuardInv, MemInv, Fits, m
      <4>2. ~damaged' /\ Chained(log')
        BY <1>1, <1>2, <2>1, <4>1, ChainGrows, SMT DEF Knows
      <4>3. ASSUME NEW n \in DOMAIN log' PROVE log'[n].seq < x.nextSeq
        <5>1. CASE n \in DOMAIN log
          BY <2>2, <2>3, <4>1, <5>1, SMT DEF Knows
        <5>2. CASE n = Len(log) + 1
          BY <1>2, <1>3, <2>2, <2>3, <5>2, SMT
        <5> QED BY <2>3, <5>1, <5>2, SMT
      <4>4. ASSUME NEW j \in Ids, Noted(j)'
            PROVE  /\ sends'[j].req.key # NoKey => x.byKey[sends'[j].req.key] # "none"
                   /\ sends'[j].pc \in {"unknown", "unanswered"} =>
                         <<sends'[j].req.payment, sends'[j].seq>> \in x.unknown
        <5>1. CASE j = i
          <6>1. l # "unsent"
            BY <1>5, <4>4, <5>1, SMT DEF Noted, Live
          <6>2. sends[i].pc # "admitted" => Noted(i)
            BY <1>6 DEF Noted
          <6>3. sends[i].req.key # NoKey => y.byKey[sends[i].req.key] # "none"
            BY <1>2, <4>1, <6>1, <6>2, SMT DEF Follows, Knows
          <6>4. l = "unknown" => <<sends[i].req.payment, sends[i].seq>> \in y.unknown
            BY <1>2 DEF Follows
          <6> QED BY <1>0, <1>5, <2>2, <5>1, <6>3, <6>4, SMT
        <5>2. CASE j # i
          <6>1. sends'[j] = sends[j] /\ Noted(j)
            BY <1>5, <4>4, <5>2, SMT DEF Noted, Live
          <6>2. /\ sends[j].req.key # NoKey => m.byKey[sends[j].req.key] # "none"
                /\ sends[j].pc \in {"unknown", "unanswered"} =>
                      <<sends[j].req.payment, sends[j].seq>> \in m.unknown
            BY <4>1, <6>1 DEF Knows
          <6>3. sends[j].req.key # NoKey => sends[j].req.key \in Keys \ {sends[i].req.key}
            <7>1. sends[j].req.key = NoKey \/ sends[j].req.key # sends[i].req.key
              BY <1>6, <5>2, <6>1, SMT DEF GuardInv, ApartInv, Noted
            <7>2. sends[j].req.key # NoKey => sends[j].req.key \in Keys
              BY <1>0, <6>1, RunningIsAdmitted, SMT DEF Noted, Live
            <7> QED BY <7>1, <7>2
          <6>4. /\ \A h \in Keys \ {sends[i].req.key} : y.byKey[h] = m.byKey[h]
                /\ m.unknown \subseteq y.unknown
            BY <1>2 DEF Follows
          <6> QED BY <2>2, <6>1, <6>2, <6>3, <6>4, SMT
        <5> QED BY <5>1, <5>2, SMT
      <4>5. mem'[t] = x
        BY <3>1 DEF x
      <4>6. x.head = Len(log')
        BY <2>2, <2>3, SMT
      <4> QED BY <4>2, <4>3, <4>4, <4>5, <4>6, SMT DEF Knows
    <3>4. mem'[t] = x
      BY <3>1 DEF x
    <3> QED BY <3>2, <3>3, <3>4, SMT DEF Fits
  <2>8. RecordInv'
    <3> SUFFICES ASSUME NEW j \in Ids, Live(j)'
                 PROVE  /\ sends'[j].pc # "admitted" => BeganIn(log', sends'[j])
                        /\ KeptIn(log', sends'[j])
      BY DEF RecordInv
    <3>1. CASE j = i
      <4>1. l # "unsent" /\ l # "none"
        BY <1>5, <3>1, SMT DEF Live
      <4>2. /\ sends[i].pc # "admitted" => BeganIn(log, sends[i])
            /\ KeptIn(log, sends[i])
        BY <1>6 DEF GuardInv, RecordInv
      <4>3. KeptIn(log, sends'[i])
        <5>1. sends[i].pc # "known"
          BY <1>0 DEF Running, MidTurn
        <5> QED BY <1>5, <4>2, <5>1, SMT DEF KeptIn
      <4>4. sends[i].pc # "admitted" => BeganIn(log, sends'[i])
        BY <1>5, <4>2 DEF BeganIn
      <4>8. /\ BeganIn(log, sends'[i]) => BeganIn(Append(log, e), sends'[i])
            /\ e.op = "begin" /\ e.seq = sends'[i].seq /\ e.req = sends'[i].req =>
                  BeganIn(Append(log, e), sends'[i])
            /\ /\ KeptIn(log, sends'[i])
               /\ e.seq = sends'[i].seq =>
                     /\ e.op # "abandon"
                     /\ e.op = "finish" /\ sends'[i].pc # "known" => e.outcome = "unknown"
               => KeptIn(Append(log, e), sends'[i])
        BY <1>1, <1>2, RecordGrows
      <4>5. BeganIn(log', sends'[i])
        <5>1. sends[i].pc = "admitted" => e.op = "begin" /\ e.seq = sends'[i].seq /\ e.req = sends'[i].req
          BY <1>2, <1>5, <4>1, SMT
        <5> QED BY <2>1, <4>4, <4>8, <5>1, SMT
      <4>6. e.outcome \in {"none", "known", "unknown"}
        BY <1>2 DEF Events
      <4>7. KeptIn(log', sends'[i])
        <5>1. e.op # "abandon"
          BY <1>2, <4>1, SMT
        <5>2. e.op = "finish" /\ l # "known" => e.outcome = "unknown"
          BY <1>2, <4>1, <4>6, SMT
        <5> QED BY <1>5, <2>1, <4>3, <4>8, <5>1, <5>2, SMT
      <4> QED BY <3>1, <4>5, <4>7, SMT
    <3>2. CASE j # i
      <4>1. sends'[j] = sends[j] /\ Live(j)
        BY <1>5, <3>2 DEF Live
      <4>2. /\ sends[j].pc # "admitted" => BeganIn(log, sends[j])
            /\ KeptIn(log, sends[j])
        BY <4>1 DEF GuardInv, RecordInv
      <4>3. e.seq # sends[j].seq
        BY <1>2, <1>6, <3>2, <4>1, SMT DEF GuardInv, ApartInv
      <4> QED BY <1>1, <1>2, <2>1, <4>1, <4>2, <4>3, RecordGrows, SMT
    <3> QED BY <3>1, <3>2
  <2> QED BY <2>4, <2>5, <2>6, <2>7, <2>8, SMT DEF GuardInv
<1>8. CASE AppendFails(s, e, y)
  <2>1. /\ log' \in {log, Append(log, e)} /\ faults' = faults + 1
        /\ mem' = [mem EXCEPT ![s] = [y EXCEPT !.unavailable = TRUE]]
    BY <1>8 DEF AppendFails
  <2>2. /\ x.owner = m.owner /\ x.unavailable /\ x.nextSeq = m.nextSeq /\ faults' # 0
        /\ \A t \in Servers : t # s => mem'[t] = mem[t]
    <3>1. x = [y EXCEPT !.unavailable = TRUE] /\ \A t \in Servers : t # s => mem'[t] = mem[t]
      BY <1>1, <2>1
    <3>2. faults' # 0
      BY <1>1, <2>1, SMT
    <3> HIDE DEF x, m
    <3> QED BY <1>4, <3>1, <3>2 DEF Memories
  <2> HIDE DEF x, m, s
  <2>4. WorkInv' /\ ApartInv' /\ LoneInv'
    <3>1. \A t \in Servers : mem'[t].owner = mem[t].owner /\ mem'[t].nextSeq = mem[t].nextSeq
      BY <2>2 DEF x, m
    <3> QED BY <1>0, <1>2, <3>1, MoveKeeps
  <2>5. IdleInv' /\ ChainInv'
    BY <1>2, <1>3, <2>2 DEF GuardInv, IdleInv, ChainInv, x
  <2>7. MemInv'
    <3> SUFFICES ASSUME NEW t \in Servers, Owner(t)' PROVE Fits(mem[t])'
      BY DEF MemInv
    <3>1. t = s
      <4>1. mem'[t].owner = mem[t].owner
        BY <2>2, SMT DEF x, m
      <4>2. Owner(t)
        BY <1>2, <4>1 DEF Owner
      <4> QED BY <1>1, <1>3, <4>2, OnlyOwner
    <3> QED BY <2>2, <3>1, SMT DEF Fits, x
  <2>8. RecordInv'
    <3> SUFFICES ASSUME NEW j \in Ids, Live(j)'
                 PROVE  /\ sends'[j].pc # "admitted" => BeganIn(log', sends'[j])
                        /\ KeptIn(log', sends'[j])
      BY DEF RecordInv
    <3>1. CASE j = i
      <4>1. l # "unsent" /\ l # "none"
        BY <1>5, <3>1 DEF Live
      <4>2. /\ sends[i].pc # "admitted" => BeganIn(log, sends[i])
            /\ KeptIn(log, sends[i])
        BY <1>6 DEF GuardInv, RecordInv
      <4>3. KeptIn(log, sends'[i])
        <5>1. sends[i].pc # "known"
          BY <1>0 DEF Running, MidTurn
        <5> QED BY <1>5, <4>2, <5>1 DEF KeptIn
      <4>4. sends[i].pc # "admitted"
        <5>1. ~Appends(s, e, y)
          BY <1>1, <2>1, <2>2, SMT DEF Appends
        <5> QED BY <1>2, <4>1, <5>1 DEF s
      <4>5. BeganIn(log, sends'[i])
        BY <1>5, <4>2, <4>4 DEF BeganIn
      <4>6. e.outcome \in {"none", "known", "unknown"}
        BY <1>2 DEF Events
      <4>8. /\ BeganIn(log, sends'[i]) => BeganIn(Append(log, e), sends'[i])
            /\ e.op = "begin" /\ e.seq = sends'[i].seq /\ e.req = sends'[i].req =>
                  BeganIn(Append(log, e), sends'[i])
            /\ /\ KeptIn(log, sends'[i])
               /\ e.seq = sends'[i].seq =>
                     /\ e.op # "abandon"
                     /\ e.op = "finish" /\ sends'[i].pc # "known" => e.outcome = "unknown"
               => KeptIn(Append(log, e), sends'[i])
        BY <1>1, <1>2, RecordGrows
      <4>7. BeganIn(Append(log, e), sends'[i]) /\ KeptIn(Append(log, e), sends'[i])
        <5>1. e.op # "abandon"
          BY <1>2, <4>1
        <5>2. e.op = "finish" /\ l # "known" => e.outcome = "unknown"
          BY <1>2, <4>1, <4>6
        <5> QED BY <1>5, <4>3, <4>5, <4>8, <5>1, <5>2, SMT
      <4> QED BY <2>1, <3>1, <4>3, <4>5, <4>7
    <3>2. CASE j # i
      <4>1. sends'[j] = sends[j] /\ Live(j)
        BY <1>5, <3>2 DEF Live
      <4>2. /\ sends[j].pc # "admitted" => BeganIn(log, sends[j])
            /\ KeptIn(log, sends[j])
        BY <4>1 DEF GuardInv, RecordInv
      <4>3. e.seq # sends[j].seq
        BY <1>2, <1>6, <3>2, <4>1 DEF GuardInv, ApartInv
      <4>4. /\ sends[j].pc # "admitted" => BeganIn(Append(log, e), sends[j])
            /\ KeptIn(Append(log, e), sends[j])
        BY <1>1, <1>2, <4>2, <4>3, RecordGrows, SMT
      <4> QED BY <2>1, <4>1, <4>2, <4>4
    <3> QED BY <3>1, <3>2
  <2> QED BY <2>4, <2>5, <2>7, <2>8 DEF GuardInv
<1>9. Appends(s, e, y) \/ AppendFails(s, e, y)
  BY <1>2, <1>3, <1>4 DEF TryAppend
<1> QED BY <1>7, <1>8, <1>9, SMT

\* A send goes on without a line: the owner still has the lock.
LEMMA QuietGuard ==
    ASSUME Sound, ~usurped, GuardInv, NEW i \in Ids, SignedCheck(i) \/ Broadcast(i)
    PROVE  GuardInv'
<1> DEFINE s == sends[i].server
<1>0. TypeOK /\ sends[i].pc \in {"begun", "signed"}
  BY DEF Sound, SignedCheck, Broadcast
<1>1. sends[i].pc \in Running /\ sends[i].pc # "none" /\ Live(i) /\ Noted(i)
  BY <1>0 DEF Running, Live, Noted
<1>2. s \in Servers /\ mem[s] \in Memories /\ mem[s].head <= Len(log) /\ mem \in [Servers -> Memories]
  BY <1>0, <1>1, RunningIsAdmitted DEF TypeOK
<1>3. Owner(s)
  BY <1>1 DEF GuardInv, WorkInv
<1>4. mem[s].owner /\ lock = s
  BY <1>2, <1>3, OnlyOwner DEF Owner
<1>5. EnsureOwner(s, mem[s]) = mem[s]
  BY <1>0, <1>2, <1>4, EnsureOwnerIs
<1>6. \E l \in {"checked", "sent"} :
        /\ sends' = [sends EXCEPT ![i].pc = l]
        /\ UNCHANGED <<life, log, damaged, mem, faults>>
  <2>1. CASE SignedCheck(i)
    <3>1. mem' = [mem EXCEPT ![s] = mem[s]] /\ sends' = [sends EXCEPT ![i].pc = "checked"]
          /\ UNCHANGED <<life, log, damaged, faults>>
      BY <1>4, <1>5, <2>1 DEF SignedCheck
    <3>2. mem' = mem
      BY <1>2, <3>1
    <3> QED BY <3>1, <3>2
  <2>2. CASE Broadcast(i)
    BY <2>2 DEF Broadcast
  <2> QED BY <2>1, <2>2
<1>7. PICK l \in {"checked", "sent"} :
        /\ sends' = [sends EXCEPT ![i].pc = l]
        /\ UNCHANGED <<life, log, damaged, mem, faults>>
  BY <1>6
<1>8. l \in Stages \ {"admitted", "unanswered"} /\ l \in Stages
  BY DEF Stages, Running, MidTurn
<1>9. /\ sends'[i].pc = l /\ sends'[i].req = sends[i].req /\ sends'[i].seq = sends[i].seq
      /\ \A j \in Ids \ {i} : sends'[j] = sends[j]
  BY <1>0, <1>1, <1>7, <1>8, SendGoesOn
<1>10. WorkInv' /\ ApartInv' /\ LoneInv'
  BY <1>1, <1>7, <1>8, MoveKeeps
<1>11. IdleInv' /\ ChainInv'
  BY <1>7 DEF GuardInv, IdleInv, ChainInv
<1>12. \A j \in Ids : /\ Noted(j)' => Noted(j)
                      /\ sends'[j].pc \in {"unknown", "unanswered"} => sends[j].pc \in {"unknown", "unanswered"}
                      /\ sends'[j].req = sends[j].req /\ sends'[j].seq = sends[j].seq
  BY <1>1, <1>9 DEF Noted, Live
<1>13. MemInv'
  <2> SUFFICES ASSUME NEW t \in Servers, Owner(t)' PROVE Fits(mem[t])'
    BY DEF MemInv
  <2>1. Fits(mem[t]) /\ mem'[t] = mem[t]
    BY <1>7 DEF Owner, GuardInv, MemInv
  <2>2. ASSUME Knows(mem[t]) PROVE Knows(mem[t])'
    BY <1>7, <1>12, <2>2, SMT DEF Knows
  <2> QED BY <1>7, <2>1, <2>2 DEF Fits
<1>14. RecordInv'
  <2> SUFFICES ASSUME NEW j \in Ids, Live(j)'
               PROVE  /\ sends'[j].pc # "admitted" => BeganIn(log', sends'[j])
                      /\ KeptIn(log', sends'[j])
    BY DEF RecordInv
  <2>1. CASE j = i
    <3>1. BeganIn(log, sends[i]) /\ KeptIn(log, sends[i]) /\ sends[i].pc # "known"
      BY <1>0, <1>1 DEF GuardInv, RecordInv
    <3> QED BY <1>7, <1>9, <2>1, <3>1, SMT DEF BeganIn, KeptIn
  <2>2. CASE j # i
    <3>1. sends'[j] = sends[j] /\ Live(j)
      BY <1>9, <2>2 DEF Live
    <3> QED BY <1>7, <3>1 DEF GuardInv, RecordInv
  <2> QED BY <2>1, <2>2
<1> QED BY <1>10, <1>11, <1>13, <1>14 DEF GuardInv

\* A memory that has read all of the log knows every send that was not given up.
LEMMA ReadsKnows ==
    ASSUME TypeOK, RecordInv, NEW x \in Memories, Reads(x), x.head = Len(log)
    PROVE  Knows(x)
<1>1. ASSUME NEW i \in Ids, Noted(i)
      PROVE  /\ sends[i].req.key # NoKey => x.byKey[sends[i].req.key] # "none"
             /\ sends[i].pc \in {"unknown", "unanswered"} =>
                   <<sends[i].req.payment, sends[i].seq>> \in x.unknown
  <2>1. BeganIn(log, sends[i]) /\ KeptIn(log, sends[i])
    BY <1>1 DEF RecordInv, Noted
  <2>2. PICK n \in DOMAIN log : log[n].op = "begin" /\ log[n].seq = sends[i].seq /\ log[n].req = sends[i].req
    BY <2>1 DEF BeganIn
  <2>3. n \in Kept(log)
    BY <2>1, <2>2 DEF Kept, Begins, KeptIn
  <2>4. ASSUME sends[i].req.key # NoKey PROVE x.byKey[sends[i].req.key] # "none"
    <3> DEFINE k == sends[i].req.key
               of == {q \in Kept(log) : log[q].req.key = k}
    <3>1. k \in Keys
      BY <1>1, <2>4, RunningIsAdmitted DEF Noted, Live
    <3>2. n \in of
      BY <2>2, <2>3
    <3>3. KeysIn(log)[k] = IF \E q \in of : Ended(log, log[q].seq, "finish") # {} THEN "done"
                           ELSE IF of # {} THEN "in-flight" ELSE "none"
      BY <3>1 DEF KeysIn
    <3> HIDE DEF of, k
    <3>4. KeysIn(log)[k] # "none"
      BY <3>2, <3>3
    <3> QED BY <3>4 DEF Reads, k
  <2>5. ASSUME sends[i].pc \in {"unknown", "unanswered"}
        PROVE  <<sends[i].req.payment, sends[i].seq>> \in x.unknown
    <3>1. \A f \in Ended(log, log[n].seq, "finish") : log[f].outcome = "unknown"
      BY <2>1, <2>2, <2>5 DEF KeptIn
    <3>2. <<log[n].req.payment, log[n].seq>> \in UnknownIn(log)
      BY <2>3, <3>1 DEF UnknownIn
    <3> QED BY <2>2, <3>2 DEF Reads
  <2> QED BY <2>4, <2>5
<1> QED BY <1>1 DEF Knows, Reads

\* So does the memory after load, if the guard is available after it.
LEMMA LoadedFits ==
    ASSUME TypeOK, RecordInv, ChainInv, NEW m \in Memories
    PROVE  Fits(Loaded(m))
<1> DEFINE x == Loaded(m)
<1>1. /\ x \in Memories /\ (Chained(log) => x.head = Len(log))
      /\ ~x.unavailable => Reads(x)
  BY LoadedIs
<1> HIDE DEF x
<1>2. ASSUME ~x.unavailable PROVE Knows(x)
  <2>1. Reads(x) /\ x.head = Len(log)
    BY <1>1, <1>2 DEF Reads
  <2> QED BY <1>1, <2>1, ReadsKnows
<1>3. faults = 0 => x.head = Len(log)
  BY <1>1 DEF ChainInv
<1> QED BY <1>2, <1>3 DEF Fits, x

\* What ensureOwner leaves an owner with, while no lock was usurped.
LEMMA EnsuredFits ==
    ASSUME Sound, ~usurped, GuardInv, NEW s \in Servers, life[s] = "up"
    PROVE  LET x == EnsureOwner(s, mem[s]) IN
           /\ x \in Memories /\ (x.owner \/ x.conflict)
           /\ x.owner => Fits(x) /\ \A t \in Servers \ {s} : ~Owner(t)
           /\ Owner(s) => x = mem[s]
<1> DEFINE x == EnsureOwner(s, mem[s])
<1>0. TypeOK /\ mem[s] \in Memories /\ mem[s].head <= Len(log)
  BY DEF Sound, TypeOK
<1>1. /\ x \in Memories /\ (x.owner \/ x.conflict)
      /\ x.owner <=> (mem[s].owner /\ lock = s) \/ (~mem[s].owner /\ lock = NoServer)
      /\ mem[s].owner /\ lock = s => x = mem[s]
      /\ ~mem[s].owner /\ mem[s].conflict /\ lock = NoServer =>
            \E y \in Memories : x = Loaded(y)
  BY <1>0, EnsureOwnerIs, SMT
<1> HIDE DEF x
<1>2. Owner(s) => x = mem[s]
  BY <1>1, OnlyOwner DEF Owner
<1>3. ASSUME x.owner PROVE Fits(x) /\ \A t \in Servers \ {s} : ~Owner(t)
  <2>1. \A t \in Servers : Owner(t) => lock = t
    BY OnlyOwner
  <2>2. CASE mem[s].owner /\ lock = s
    <3>1. Fits(mem[s])
      BY <2>2 DEF GuardInv, MemInv, Owner
    <3> QED BY <1>1, <2>1, <2>2, <3>1
  <2>3. CASE ~mem[s].owner /\ lock = NoServer
    <3>1. mem[s].conflict
      BY <2>3 DEF GuardInv, IdleInv
    <3>2. PICK y \in Memories : x = Loaded(y)
      BY <1>1, <2>3, <3>1
    <3>3. Fits(x)
      BY <1>0, <3>2, LoadedFits DEF GuardInv
    <3> QED BY <2>1, <2>3, <3>3, GuardConstants
  <2> QED BY <1>1, <1>3, <2>2, <2>3
<1> QED BY <1>1, <1>2, <1>3 DEF x

\* A server starts, or refuses a request.
LEMMA ServerGuard ==
    ASSUME Sound, ~usurped, GuardInv, NEW s \in Servers, Start(s) \/ Refuse(s)
    PROVE  GuardInv'
<1>0. /\ TypeOK /\ mem \in [Servers -> Memories] /\ mem[s].head <= Len(log)
      /\ life \in [Servers -> {"off", "up", "dead"}] /\ Len(log) \in Nat
  BY SMT DEF Sound, TypeOK
<1>1. PICK x \in Memories :
        /\ mem' = [mem EXCEPT ![s] = x]
        /\ x.owner \/ x.conflict
        /\ x.owner => Fits(x) /\ \A t \in Servers \ {s} : ~Owner(t)
        /\ Owner(s) => x = mem[s]
  <2>1. CASE Start(s)
    <3> DEFINE m == EnsureOwner(s, EmptyMemory)
    <3>1. EmptyMemory \in Memories /\ ~EmptyMemory.owner /\ EmptyMemory.head <= Len(log)
      BY <1>0, EmptyIsMemory, SMT
    <3>2. m \in Memories /\ (m.owner \/ m.conflict) /\ (m.owner => lock = NoServer)
      BY <1>0, <3>1, EnsureOwnerIs
    <3>3. mem' = [mem EXCEPT ![s] = Loaded(m)] /\ life[s] = "off"
      BY <2>1 DEF Start
    <3> HIDE DEF m
    <3>4. Loaded(m) \in Memories /\ Loaded(m).owner = m.owner /\ Loaded(m).conflict = m.conflict
      BY <1>0, <3>2, LoadedIs
    <3>5. Fits(Loaded(m))
      BY <1>0, <3>2, LoadedFits DEF GuardInv
    <3>6. m.owner => \A t \in Servers : ~Owner(t)
      BY <3>2, OnlyOwner, GuardConstants
    <3> QED BY <3>2, <3>3, <3>4, <3>5, <3>6 DEF Owner
  <2>2. CASE Refuse(s)
    <3>1. life[s] = "up" /\ mem' = [mem EXCEPT ![s] = EnsureOwner(s, mem[s])]
      BY <2>2 DEF Refuse, Turn
    <3> QED BY <3>1, EnsuredFits
  <2> QED BY <2>1, <2>2
<1>2. /\ life' = [life EXCEPT ![s] = "up"] /\ UNCHANGED <<log, damaged, sends, faults>>
  BY <1>0 DEF Start, Refuse, Turn
<1>3. /\ \A t \in Servers : mem'[t] = IF t = s THEN x ELSE mem[t]
      /\ \A t \in Servers : life'[t] = IF t = s THEN "up" ELSE life[t]
  BY <1>0, <1>1, <1>2
<1>4. WorkInv'
  <2> SUFFICES ASSUME NEW j \in Ids, sends[j].pc \in Running
               PROVE  Owner(sends[j].server)' /\ sends[j].seq < mem'[sends[j].server].nextSeq
    BY <1>2 DEF WorkInv
  <2>1. Owner(sends[j].server) /\ sends[j].seq < mem[sends[j].server].nextSeq
    BY DEF GuardInv, WorkInv
  <2>2. sends[j].server \in Servers
    BY <1>0, RunningIsAdmitted DEF Running, MidTurn
  <2>3. mem'[sends[j].server] = mem[sends[j].server] /\ life'[sends[j].server] = "up"
    BY <1>1, <1>3, <2>1, <2>2 DEF Owner
  <2> QED BY <1>2, <2>1, <2>3 DEF Owner
<1>5. IdleInv'
  BY <1>1, <1>3, SMTT(30) DEF GuardInv, IdleInv
<1>6. MemInv'
  <2> SUFFICES ASSUME NEW t \in Servers, Owner(t)' PROVE Fits(mem[t])'
    BY DEF MemInv
  <2>1. Fits(mem'[t])
    <3>1. CASE t = s
      BY <1>1, <1>3, <3>1, SMT DEF Owner
    <3>2. CASE t # s
      <4>1. Owner(t) /\ mem'[t] = mem[t]
        BY <1>3, <3>2 DEF Owner
      <4> QED BY <4>1 DEF GuardInv, MemInv
    <3> QED BY <3>1, <3>2
  <2> QED BY <1>2, <2>1 DEF Fits, Knows, Noted, Live
<1>7. ChainInv' /\ ApartInv' /\ RecordInv' /\ LoneInv'
  BY <1>2 DEF GuardInv, ChainInv, ApartInv, RecordInv, LoneInv, Live
<1> QED BY <1>4, <1>5, <1>6, <1>7 DEF GuardInv

\* A server admits a request: it is told apart from every send that was not
\* given up, and no send of its payment is under way or unknown to it.
LEMMA AdmitGuard ==
    ASSUME Sound, ~usurped, GuardInv, NEW s \in Servers, NEW i \in Ids, NEW r \in Requests,
           Admit(s, i, r)
    PROVE  GuardInv'
<1> DEFINE m == EnsureOwner(s, mem[s])
           x == [m EXCEPT !.nextSeq = m.nextSeq + 1]
           z == [pc |-> "admitted", server |-> s, req |-> r, seq |-> m.nextSeq]
<1>0. /\ TypeOK /\ mem \in [Servers -> Memories] /\ Turn(s) /\ life[s] = "up" /\ sends[i].pc = "none"
      /\ sends \in [Ids -> {NoSend} \cup Admitted] /\ log \in Seq(Events)
  BY DEF Sound, TypeOK, Admit, Turn
<1>1. /\ Admits(s, m, r) /\ mem' = [mem EXCEPT ![s] = x] /\ sends' = [sends EXCEPT ![i] = z]
      /\ UNCHANGED <<life, log, damaged, faults>>
  BY DEF Admit
<1>2. m.owner /\ ~m.unavailable
  BY <1>1 DEF Admits
<1>3. /\ m \in Memories /\ Fits(m) /\ \A t \in Servers \ {s} : ~Owner(t)
      /\ Owner(s) => m = mem[s]
  BY <1>0, <1>2, EnsuredFits
<1>4. /\ z.pc = "admitted" /\ z.server = s /\ z.req = r /\ z.seq = m.nextSeq
      /\ sends'[i] = z /\ \A j \in Ids \ {i} : sends'[j] = sends[j]
  BY <1>0, <1>1
<1> HIDE DEF m
<1>5. /\ x \in Memories /\ x.owner = m.owner /\ x.conflict = m.conflict /\ x.unavailable = m.unavailable
      /\ x.head = m.head /\ x.byKey = m.byKey /\ x.unknown = m.unknown
      /\ m.nextSeq \in Nat /\ x.nextSeq = m.nextSeq + 1
  BY <1>3, SMT DEF Memories
<1> HIDE DEF x, z
<1>6. \A t \in Servers : mem'[t] = IF t = s THEN x ELSE mem[t]
  BY <1>0, <1>1
<1>7. Knows(m)
  BY <1>2, <1>3 DEF Fits
<1>8. ASSUME NEW j \in Ids, sends[j].pc \in Running
      PROVE  /\ sends[j].server = s /\ Owner(s) /\ j \in InFlight(s) /\ sends[j].pc # "admitted"
             /\ sends[j].req.payment # r.payment /\ sends[j].seq < m.nextSeq
  <2>1. sends[j].pc # "none" /\ sends[j].server \in Servers
    BY <1>0, <1>8, RunningIsAdmitted DEF Running, MidTurn
  <2>2. Owner(sends[j].server) /\ sends[j].seq < mem[sends[j].server].nextSeq
    BY <1>8 DEF GuardInv, WorkInv
  <2>3. sends[j].server = s /\ Owner(s) /\ m = mem[s]
    BY <1>3, <2>1, <2>2
  <2>4. j \in SendsOf(s)
    BY <2>1, <2>3 DEF SendsOf
  <2>5. sends[j].pc # "admitted"
    BY <1>0, <2>4 DEF Turn, MidTurn
  <2>6. j \in InFlight(s)
    BY <1>8, <2>4, <2>5 DEF InFlight
  <2> QED BY <1>1, <2>2, <2>3, <2>5, <2>6 DEF Admits
<1>9. ASSUME NEW j \in Ids, Live(j)
      PROVE  /\ j # i /\ Noted(j) /\ sends[j].seq < m.nextSeq
             /\ r.key = NoKey \/ r.key # sends[j].req.key
  <2>1. j # i
    BY <1>0, <1>9 DEF Live
  <2>2. Noted(j)
    BY <1>8, <1>9 DEF Noted, Running, MidTurn
  <2>3. PICK n \in DOMAIN log : log[n].seq = sends[j].seq
    BY <1>9, <2>2 DEF GuardInv, RecordInv, BeganIn, Noted
  <2>4. sends[j].seq < m.nextSeq
    BY <1>7, <2>3 DEF Knows
  <2>5. r.key # NoKey => m.byKey[r.key] = "none"
    BY <1>1 DEF Admits
  <2>6. sends[j].req.key # NoKey => m.byKey[sends[j].req.key] # "none"
    BY <1>7, <2>2 DEF Knows
  <2> QED BY <2>1, <2>2, <2>4, <2>5, <2>6
<1>10. \A j \in Ids : Live(j)' => j = i \/ (Live(j) /\ sends'[j] = sends[j])
  BY <1>4 DEF Live
<1>11. WorkInv'
  <2> SUFFICES ASSUME NEW j \in Ids, sends'[j].pc \in Running
               PROVE  Owner(sends[j].server)' /\ sends'[j].seq < mem'[sends'[j].server].nextSeq
    BY DEF WorkInv
  <2>1. mem'[s].owner /\ life'[s] = "up" /\ mem'[s].nextSeq = m.nextSeq + 1
    BY <1>0, <1>1, <1>2, <1>5, <1>6
  <2>2. CASE j = i
    BY <1>4, <1>5, <2>1, <2>2, SMT DEF Owner
  <2>3. CASE j # i
    <3>1. sends'[j] = sends[j]
      BY <1>4, <2>3
    <3>2. sends[j].server = s /\ sends[j].seq < m.nextSeq /\ sends[j].seq \in Nat
      BY <1>0, <1>8, <3>1, RunningIsAdmitted DEF Running, MidTurn
    <3> QED BY <1>5, <2>1, <3>1, <3>2, SMT DEF Owner
  <2> QED BY <2>2, <2>3
<1>12. IdleInv'
  BY <1>1, <1>2, <1>5, <1>6 DEF GuardInv, IdleInv
<1>13. MemInv'
  <2> SUFFICES ASSUME NEW t \in Servers, Owner(t)' PROVE Fits(mem[t])'
    BY DEF MemInv
  <2>1. t = s /\ mem'[t] = x
    BY <1>1, <1>3, <1>6 DEF Owner
  <2>2. \A j \in Ids : Noted(j)' => Noted(j) /\ sends'[j] = sends[j]
    BY <1>4, <1>10 DEF Noted, Live
  <2>3. \A n \in DOMAIN log : log[n].seq < x.nextSeq
    <3> SUFFICES ASSUME NEW n \in DOMAIN log PROVE log[n].seq < x.nextSeq
      OBVIOUS
    <3>0. log[n] \in Events
      BY <1>0, SMT
    <3>1. log[n].seq \in Nat
      BY <3>0 DEF Events
    <3>2. log[n].seq < m.nextSeq
      BY <1>7 DEF Knows
    <3> QED BY <1>5, <3>1, <3>2, SMT
  <2>4. Knows(mem[t])'
    <3>1. /\ ~damaged' /\ Chained(log') /\ x.head = Len(log')
          /\ \A n \in DOMAIN log' : log'[n].seq < x.nextSeq
      BY <1>1, <1>5, <1>7, <2>3 DEF Knows
    <3>2. \A j \in Ids : Noted(j)' =>
            /\ sends'[j].req.key # NoKey => x.byKey[sends'[j].req.key] # "none"
            /\ sends'[j].pc \in {"unknown", "unanswered"} =>
                  <<sends'[j].req.payment, sends'[j].seq>> \in x.unknown
      BY <1>5, <1>7, <2>2 DEF Knows
    <3> QED BY <2>1, <3>1, <3>2 DEF Knows
  <2>5. faults' = 0 => mem'[t].head = Len(log')
    BY <1>1, <1>5, <1>7, <2>1 DEF Knows
  <2> QED BY <2>4, <2>5 DEF Fits
<1>14. ChainInv'
  BY <1>1 DEF GuardInv, ChainInv
<1>15. ApartInv'
  <2> SUFFICES ASSUME NEW a \in Ids, NEW b \in Ids, a # b, Live(a)', Live(b)'
               PROVE  /\ sends'[a].seq # sends'[b].seq
                      /\ sends'[a].req.key = NoKey \/ sends'[a].req.key # sends'[b].req.key
    BY DEF ApartInv
  <2>1. CASE a # i /\ b # i
    BY <1>10, <2>1, SMT DEF GuardInv, ApartInv
  <2>2. CASE a = i
    <3>1. Live(b) /\ sends'[b] = sends[b] /\ sends'[a] = z
      BY <1>4, <1>10, <2>2
    <3>2. sends[b].seq < m.nextSeq /\ (r.key = NoKey \/ r.key # sends[b].req.key) /\ sends[b].seq \in Nat
      BY <1>0, <1>9, <3>1, RunningIsAdmitted DEF Live
    <3> QED BY <1>4, <1>5, <3>1, <3>2, SMT
  <2>3. CASE b = i
    <3>1. Live(a) /\ sends'[a] = sends[a] /\ sends'[b] = z
      BY <1>4, <1>10, <2>3
    <3>2. sends[a].seq < m.nextSeq /\ (r.key = NoKey \/ r.key # sends[a].req.key) /\ sends[a].seq \in Nat
      BY <1>0, <1>9, <3>1, RunningIsAdmitted DEF Live
    <3> QED BY <1>4, <1>5, <3>1, <3>2, SMT
  <2> QED BY <2>1, <2>2, <2>3
<1>16. RecordInv'
  <2> SUFFICES ASSUME NEW j \in Ids, Live(j)'
               PROVE  /\ sends'[j].pc # "admitted" => BeganIn(log', sends'[j])
                      /\ KeptIn(log', sends'[j])
    BY DEF RecordInv
  <2>1. CASE j = i
    <3>1. \A n \in DOMAIN log : log[n].seq # z.seq
      <4> SUFFICES ASSUME NEW n \in DOMAIN log PROVE log[n].seq # z.seq
        OBVIOUS
      <4>0. log[n] \in Events
        BY <1>0, SMT
      <4>1. log[n].seq \in Nat
        BY <4>0 DEF Events
      <4>2. log[n].seq < m.nextSeq
        BY <1>7 DEF Knows
      <4> QED BY <1>4, <1>5, <4>1, <4>2, SMT
    <3>2. KeptIn(log, z)
      BY <3>1 DEF KeptIn, Ended
    <3> QED BY <1>1, <1>4, <2>1, <3>2
  <2>2. CASE j # i
    BY <1>1, <1>10, <2>2 DEF GuardInv, RecordInv
  <2> QED BY <2>1, <2>2
<1>17. LoneInv'
  <2> SUFFICES ASSUME NEW a \in Ids, NEW b \in Ids, a # b, sends'[a].pc \in Running, Live(b)',
                      sends'[a].req.payment = sends'[b].req.payment
               PROVE  /\ sends'[b].pc \notin Running
                      /\ sends'[b].pc \in {"unknown", "unanswered"} => sends'[a].req.allowNew
    BY DEF LoneInv
  <2>1. CASE a # i /\ b # i
    <3>1. sends'[a] = sends[a] /\ sends'[b] = sends[b] /\ Live(b)
      BY <1>4, <1>10, <2>1
    <3> QED BY <3>1 DEF GuardInv, LoneInv
  <2>2. CASE a = i
    <3>1. Live(b) /\ sends'[b] = sends[b] /\ sends'[a].req = r /\ sends[b].req.payment = r.payment
      BY <1>4, <1>10, <2>2
    <3>2. sends[b].pc \notin Running
      BY <1>8, <3>1
    <3>3. ASSUME sends[b].pc \in {"unknown", "unanswered"} PROVE r.allowNew
      <4>1. <<sends[b].req.payment, sends[b].seq>> \in m.unknown
        BY <1>7, <1>9, <3>1, <3>3 DEF Knows
      <4>2. <<sends[b].req.payment, sends[b].seq>>[1] = r.payment
        BY <3>1
      <4>3. r.allowNew \/ \A u \in m.unknown : u[1] # r.payment
        BY <1>1 DEF Admits
      <4> QED BY <4>1, <4>2, <4>3
    <3> QED BY <3>1, <3>2, <3>3
  <2>3. CASE b = i
    <3>1. sends'[a] = sends[a] /\ sends'[b].req = r
      BY <1>4, <2>3
    <3> QED BY <1>8, <3>1
  <2> QED BY <2>1, <2>2, <2>3
<1> QED BY <1>11, <1>12, <1>13, <1>14, <1>15, <1>16, <1>17, SMT DEF GuardInv

\* A process ends: only the owner has sends to leave behind, and the log can only
\* be torn while one of them is writing.
LEMMA EndGuard ==
    ASSUME Sound, ~usurped, GuardInv, NEW s \in Servers, Crash(s) \/ Exit(s)
    PROVE  GuardInv'
<1>0. /\ TypeOK /\ mem \in [Servers -> Memories] /\ life \in [Servers -> {"off", "up", "dead"}]
      /\ sends \in [Ids -> {NoSend} \cup Admitted]
  BY DEF Sound, TypeOK
<1>1. /\ life[s] = "up" /\ life' = [life EXCEPT ![s] = "dead"] /\ sends' = Orphaned(s)
      /\ mem' = [mem EXCEPT ![s] = EmptyMemory] /\ UNCHANGED <<log, faults>>
      /\ Turn(s) => damaged' = damaged
  BY DEF Crash, Exit, Turn
<1>2. /\ \A t \in Servers : life'[t] = IF t = s THEN "dead" ELSE life[t]
      /\ \A t \in Servers \ {s} : mem'[t] = mem[t]
  BY <1>0, <1>1
<1>3. \A j \in Ids :
        \/ sends'[j] = sends[j] /\ (sends[j].pc \in Running => sends[j].server # s)
        \/ /\ sends[j].pc \in Running /\ sends[j].server = s
           /\ sends'[j].pc = (IF sends[j].pc = "sent" THEN "unanswered" ELSE "unsent")
           /\ sends'[j].seq = sends[j].seq /\ sends'[j].req = sends[j].req
  BY <1>0, <1>1, OrphanedIs, SMT
<1>4. \A j \in Ids : sends'[j].pc \in Running => sends'[j] = sends[j] /\ sends[j].server # s
  BY <1>3 DEF Running, MidTurn
<1>5. \A j \in Ids : Live(j)' =>
        /\ Live(j) /\ sends'[j].seq = sends[j].seq /\ sends'[j].req = sends[j].req
        /\ sends'[j] = sends[j] \/ (sends[j].pc = "sent" /\ sends'[j].pc = "unanswered")
  BY <1>3 DEF Live, Running, MidTurn
<1>6. WorkInv'
  <2> SUFFICES ASSUME NEW j \in Ids, sends'[j].pc \in Running
               PROVE  Owner(sends[j].server)' /\ sends'[j].seq < mem'[sends'[j].server].nextSeq
    BY DEF WorkInv
  <2>1. sends'[j] = sends[j] /\ sends[j].server # s
    BY <1>4
  <2>2. Owner(sends[j].server) /\ sends[j].seq < mem[sends[j].server].nextSeq
    BY <2>1 DEF GuardInv, WorkInv
  <2>3. sends[j].server \in Servers
    BY <1>0, <2>1, RunningIsAdmitted DEF Running, MidTurn
  <2> QED BY <1>2, <2>1, <2>2, <2>3, SMT DEF Owner
<1>7. IdleInv'
  BY <1>2 DEF GuardInv, IdleInv
<1>8. MemInv'
  <2> SUFFICES ASSUME NEW t \in Servers, Owner(t)' PROVE Fits(mem[t])'
    BY DEF MemInv
  <2>1. t # s /\ Owner(t) /\ mem'[t] = mem[t]
    BY <1>2 DEF Owner
  <2>2. ~Owner(s)
    BY <2>1, OnlyOwner
  <2>3. \A j \in Ids : sends[j].pc \in Running => sends[j].server # s
    BY <2>2 DEF GuardInv, WorkInv
  <2>4. \A j \in Ids : sends'[j] = sends[j]
    BY <1>3, <2>3
  <2>5. Turn(s)
    BY <1>1, <2>3 DEF Turn, SendsOf, Running
  <2>6. damaged' = damaged
    BY <1>1, <2>5
  <2>7. Fits(mem[t])
    BY <2>1 DEF GuardInv, MemInv
  <2> QED BY <1>1, <2>1, <2>4, <2>6, <2>7 DEF Fits, Knows, Noted, Live
<1>9. ChainInv'
  BY <1>1 DEF GuardInv, ChainInv
<1>10. ApartInv'
  BY <1>5, SMT DEF GuardInv, ApartInv
<1>11. RecordInv'
  <2> SUFFICES ASSUME NEW j \in Ids, Live(j)'
               PROVE  /\ sends'[j].pc # "admitted" => BeganIn(log', sends'[j])
                      /\ KeptIn(log', sends'[j])
    BY DEF RecordInv
  <2>1. (sends[j].pc # "admitted" => BeganIn(log, sends[j])) /\ KeptIn(log, sends[j])
    BY <1>5 DEF GuardInv, RecordInv
  <2>2. CASE sends'[j] = sends[j]
    BY <1>1, <2>1, <2>2
  <2>3. CASE sends[j].pc = "sent" /\ sends'[j].pc = "unanswered"
    <3>1. sends'[j].seq = sends[j].seq /\ sends'[j].req = sends[j].req
      BY <1>5
    <3> QED BY <1>1, <2>1, <2>3, <3>1, SMT DEF BeganIn, KeptIn
  <2> QED BY <1>5, <2>2, <2>3
<1>12. LoneInv'
  <2> SUFFICES ASSUME NEW a \in Ids, NEW b \in Ids, a # b, sends'[a].pc \in Running, Live(b)',
                      sends'[a].req.payment = sends'[b].req.payment
               PROVE  /\ sends'[b].pc \notin Running
                      /\ sends'[b].pc \in {"unknown", "unanswered"} => sends'[a].req.allowNew
    BY DEF LoneInv
  <2>1. sends'[a] = sends[a] /\ Live(b) /\ sends'[b].req = sends[b].req
    BY <1>4, <1>5
  <2>2. /\ sends[b].pc \notin Running
        /\ sends[b].pc \in {"unknown", "unanswered"} => sends[a].req.allowNew
    BY <2>1 DEF GuardInv, LoneInv
  <2>3. sends'[b] = sends[b]
    BY <1>3, <2>2
  <2> QED BY <2>1, <2>2, <2>3
<1> QED BY <1>6, <1>7, <1>8, <1>9, <1>10, <1>11, <1>12, SMT DEF GuardInv

-----------------------------------------------------------------------------
(* The invariant holds, and with it the properties *)

\* Nothing has happened yet.
LEMMA InitInv == Init => IInv
<1> SUFFICES ASSUME Init PROVE IInv
  OBVIOUS
<1>1. /\ life = [s \in Servers |-> "off"] /\ lock = NoServer /\ log = <<>> /\ damaged = FALSE
      /\ mem = [s \in Servers |-> EmptyMemory] /\ sends = [i \in Ids |-> NoSend]
      /\ reading = {} /\ faults = 0 /\ usurped = FALSE
  BY DEF Init
<1>2. log \in Seq(Events) /\ Len(log) = 0 /\ DOMAIN log = {}
  BY <1>1, SMT
<1>3. EmptyMemory \in Memories /\ ~EmptyMemory.owner /\ EmptyMemory.head = 0
  BY EmptyIsMemory DEF EmptyMemory
<1>4. TypeOK
  <2>1. mem \in [Servers -> Memories] /\ \A s \in Servers : mem[s].head <= Len(log)
    BY <1>1, <1>2, <1>3, SMT
  <2>2. sends \in [Ids -> {NoSend} \cup Admitted]
    BY <1>1
  <2>3. life \in [Servers -> {"off", "up", "dead"}] /\ faults \in 0..MaxFaults
    BY <1>1, GuardConstants, SMT
  <2> QED BY <1>1, <1>2, <2>1, <2>2, <2>3 DEF TypeOK
<1>5. OneOwner
  BY <1>1 DEF OneOwner
<1>6. \A i \in Ids : sends[i].pc = "none"
  BY <1>1 DEF NoSend
<1>7. \A s \in Servers : life[s] = "off"
  BY <1>1
<1>8. Chained(log)
  BY <1>2 DEF Chained
<1>9. WorkInv /\ LoneInv
  BY <1>6 DEF WorkInv, LoneInv, Running, MidTurn
<1>10. IdleInv /\ MemInv
  BY <1>7 DEF IdleInv, MemInv, Owner
<1>11. ApartInv /\ RecordInv
  BY <1>6 DEF ApartInv, RecordInv, Live
<1> QED BY <1>4, <1>5, <1>8, <1>9, <1>10, <1>11, SMT DEF IInv, Sound, GuardInv, ChainInv

\* Every step keeps the types, the owner and, unless a lock was usurped, the rest.
LEMMA Invariance == IInv /\ [Next]_vars => IInv'
<1> SUFFICES ASSUME IInv, [Next]_vars PROVE IInv'
  OBVIOUS
<1>0. Sound /\ (usurped \/ GuardInv)
  BY DEF IInv
<1>1. CASE UNCHANGED vars
  <2>1. TypeOK' /\ OneOwner'
    BY <1>0, <1>1 DEF vars, Sound, TypeOK, OneOwner
  <2>2. GuardInv => GuardInv'
    BY <1>1 DEF vars, GuardInv, WorkInv, IdleInv, MemInv, ChainInv, ApartInv, RecordInv, LoneInv,
                Owner, Live, Noted, Fits, Knows
  <2> QED BY <1>0, <1>1, <2>1, <2>2 DEF IInv, Sound, vars
<1>2. ASSUME NEW s \in Servers, Start(s) \/ Refuse(s) PROVE IInv'
  <2>1. usurped' = usurped
    BY <1>2 DEF Start, Refuse
  <2> QED BY <1>0, <1>2, <2>1, ServerSound, ServerGuard DEF IInv
<1>3. ASSUME NEW s \in Servers, NEW i \in Ids, NEW r \in Requests, Admit(s, i, r) PROVE IInv'
  <2>1. usurped' = usurped
    BY <1>3 DEF Admit
  <2> QED BY <1>0, <1>3, <2>1, ServerSound, AdmitGuard DEF IInv
<1>4. ASSUME NEW s \in Servers, Crash(s) \/ Exit(s) PROVE IInv'
  <2>1. usurped' = usurped
    BY <1>4 DEF Crash, Exit
  <2> QED BY <1>0, <1>4, <2>1, OtherSound, EndGuard DEF IInv
<1>5. ASSUME NEW i \in Ids, SignedCheck(i) \/ Broadcast(i) PROVE IInv'
  <2>1. usurped' = usurped
    BY <1>5 DEF SignedCheck, Broadcast
  <2> QED BY <1>0, <1>5, <2>1, SignedCheckSound, BroadcastSound, QuietGuard DEF IInv
<1>6. ASSUME NEW i \in Ids,
             \/ Begin(i) \/ BeginFails(i) \/ PlanFails(i) \/ SignedRecord(i)
             \/ SignedRecordFails(i) \/ AbandonUnrecorded(i) \/ NotSent(i)
             \/ \E o \in {"known", "unknown"} : Finish(i, o)
      PROVE  IInv'
  <2>0. TypeOK
    BY <1>0 DEF Sound
  <2>1. PICK l, e, y : Records(i, l, e, y)
    BY <1>6, <2>0, SendStepIs
  <2>2. usurped' = usurped
    BY <2>1 DEF Records
  <2> QED BY <1>0, <2>1, <2>2, RecordsSound, RecordsGuard DEF IInv
<1>7. ASSUME NEW o \in Operators, RecoverRead(o) \/ RecoverRename(o) PROVE IInv'
  <2>1. Sound'
    BY <1>0, <1>7, OtherSound
  <2>2. UNCHANGED <<life, log, damaged, mem, sends, faults>>
    BY <1>7 DEF RecoverRead, RecoverRename
  <2>3. usurped => usurped'
    BY <1>7 DEF RecoverRead, RecoverRename
  <2>4. GuardInv => GuardInv'
    BY <2>2 DEF GuardInv, WorkInv, IdleInv, MemInv, ChainInv, ApartInv, RecordInv, LoneInv,
                Owner, Live, Noted, Fits, Knows
  <2> QED BY <1>0, <2>1, <2>3, <2>4 DEF IInv
<1> QED BY <1>1, <1>2, <1>3, <1>4, <1>5, <1>6, <1>7, SMT DEF Next

\* The invariant holds of every behaviour.
LEMMA GuardInvariant == Spec => []IInv
BY InitInv, Invariance, PTL DEF Spec

\* The log is a sequence of events, every memory and send is of its type, and no
\* server takes a line past the end of the log for the head of the chain.
THEOREM TypeCorrect == Spec => []TypeOK
<1>1. IInv => TypeOK
  BY DEF IInv, Sound
<1> QED BY <1>1, GuardInvariant, PTL

\* At most one running server believes it owns the guard, and the lock names it
\* (ensureOwner creates the lock, and exit releases it only if it is its own).
THEOREM OneOwnerHolds == Spec => []OneOwner
<1>1. IInv => OneOwner
  BY DEF IInv, Sound
<1> QED BY <1>1, GuardInvariant, PTL

\* Without a failed write and without a usurped lock every line of the log names
\* the one before it: append writes on top of the head the guard has in memory,
\* and no other guard writes.
THEOREM ChainUnbrokenHolds == Spec => []ChainUnbroken
<1>1. IInv => ChainUnbroken
  BY DEF IInv, GuardInv, ChainInv, Chained, ChainUnbroken
<1> QED BY <1>1, GuardInvariant, PTL

\* A key broadcasts at most once over every sequence of crashes, exits and restarts,
\* unless an operator took the lock of a running server.
THEOREM KeyOnceHolds == Spec => []KeyOnce
<1>1. IInv => KeyOnce
  <2>1. \A i \in Ids : Broadcasted(i) => Live(i)
    BY DEF Broadcasted, Open, Live
  <2> QED BY <2>1 DEF IInv, GuardInv, ApartInv, KeyOnce
<1> QED BY <1>1, GuardInvariant, PTL

\* A payment whose earlier broadcast has an open outcome is broadcast again only
\* by a request that asked for a new one.
THEOREM NoBlindRepeatHolds == Spec => NoBlindRepeat
<1> DEFINE A == \A i, j \in Ids :
                  /\ i # j /\ sends[i].pc = "signed" /\ sends'[i].pc = "sent"
                  /\ Open(j) /\ sends[j].req.payment = sends[i].req.payment
                  => usurped \/ sends[i].req.allowNew
<1>1. IInv => A
  <2>1. \A j \in Ids : Open(j) => Live(j) /\ sends[j].pc \in {"sent", "unknown", "unanswered"}
    BY DEF Open, Live
  <2>2. "sent" \in Running /\ "signed" \in Running
    BY DEF Running
  <2> QED BY <2>1, <2>2 DEF IInv, GuardInv, LoneInv
<1>2. IInv /\ [Next]_vars => [A]_vars
  BY <1>1
<1> QED BY <1>2, GuardInvariant, PTL DEF Spec, NoBlindRepeat

=============================================================================
