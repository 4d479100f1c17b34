----------------------------- MODULE DurableLog -----------------------------
(***************************************************************************)
(* What a caller of appendAtomic relies on: a log that holds every entry   *)
(* whose append was reported as done ("an immediate fsync to ensure data   *)
(* durability"), and that grows at its end, one entry at a time.  An entry *)
(* whose append was not reported as done may be readable for a while and   *)
(* then go, as long as nothing came after it.                              *)
(***************************************************************************)
EXTENDS Naturals, Sequences

CONSTANT Entries

VARIABLES
    entries,  \* what a reader of the log sees, in order
    acked     \* the entries whose append returned

vars == <<entries, acked>>

Init == entries = <<>> /\ acked = {}

\* An entry becomes readable, and its append may return.
AppendEntry(e) ==
    /\ \A i \in DOMAIN entries : entries[i] # e
    /\ entries' = Append(entries, e)
    /\ acked' \in {acked, acked \cup {e}}

\* The last entry, whose append did not return, is no longer readable.
LoseTail ==
    /\ entries # <<>> /\ entries[Len(entries)] \notin acked
    /\ entries' = SubSeq(entries, 1, Len(entries) - 1)
    /\ UNCHANGED acked

Next == LoseTail \/ \E e \in Entries : AppendEntry(e)

Spec == Init /\ [][Next]_vars

=============================================================================
