------------------------------- MODULE MCNode -------------------------------
(* The module Node for the run that crosses restarts.                       *)
EXTENDS Node

\* Of the third runs, those of a crash: nothing of the second run is in the proposal cache,
\* and the bootup reads what the first run saved beside the ledger of both.
ThirdRunAfterCrash ==
    run > 2 =>
        /\ faults = 0
        /\ \A saved \in cache : \A c \in saved.pending : c.run = 1
=============================================================================
