-------------------------- MODULE BatchPublication --------------------------
(***************************************************************************)
(* What publishing a batch of records to a topic promises: when it has     *)
(* returned every record is in the topic, and until then the records are   *)
(* stored in their order up to a window, so that a batch cut short has     *)
(* stored all records but those of one window and what follows it.         *)
(***************************************************************************)
EXTENDS Integers

CONSTANTS
    RecordCount,  \* number of records of the batch
    ChunkSize     \* the window: how far a record may overtake another

VARIABLES
    stored,    \* the records the topic has at least once
    finished   \* whether publishing has returned

vars == <<stored, finished>>

Record == 1 .. RecordCount

Init ==
    /\ stored = {}
    /\ finished = (RecordCount = 0)

\* Records reach the topic, some of them perhaps once more, and publishing may
\* return as soon as all are there.
Store ==
    \E batch \in SUBSET Record :
        /\ \A r \in batch : 1 .. r - ChunkSize \subseteq stored
        /\ stored' = stored \cup batch
        /\ finished' \in {finished, stored' = Record}
        /\ finished => finished'

Spec == Init /\ [][Store]_vars
=============================================================================
