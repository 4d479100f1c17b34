--------------------------- MODULE EvidencedLedger ---------------------------
(***************************************************************************)
(* What a simulated workspace promises: its ledger moves one execution at  *)
(* a time, each execution moves it exactly once, and nothing moves it      *)
(* again before the evidence of every earlier execution is published.      *)
(***************************************************************************)
CONSTANTS
    Starts,     \* the states a workspace can start from
    Funded(_)   \* a state after one funding

VARIABLES
    state,   \* the simulated state
    done,    \* the executions that moved it
    shown    \* those whose evidence is complete in the store

abstractVars == <<state, done, shown>>

AbstractInit == done = {} /\ shown = {}

\* An execution moves the state it was planned on, for the first time.
Perform ==
    /\ shown = done
    /\ \E e \in done' \ done :
         /\ done' = done \cup {e}
         /\ state = e.pre
         /\ state' = e.post
    /\ shown' = shown

Show ==
    /\ shown \subseteq shown' /\ shown' \subseteq done
    /\ UNCHANGED <<state, done>>

\* Funding, a reset, the creation of the workspace or its migration.
Replace ==
    /\ shown = done
    /\ state' \in Starts \cup {Funded(state)}
    /\ UNCHANGED <<done, shown>>

AbstractNext == Perform \/ Show \/ Replace

AbstractSpec == AbstractInit /\ [][AbstractNext]_abstractVars

=============================================================================
