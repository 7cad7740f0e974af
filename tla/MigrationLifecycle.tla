------------------------ MODULE MigrationLifecycle ------------------------
(***************************************************************************)
(* What one run of a migration engine keeps to, for whoever watches the    *)
(* Migration row (the REST and OSC clients, SyncState): the state advances *)
(* through the phases of the sequence one at a time, may turn FAILED at    *)
(* any point, stays FAILED, and finished_at is set exactly at an end.      *)
(*                                                                         *)
(* This is the code's lifecycle.  The diagrams of docs/ have fewer edges   *)
(* to FAILED: none from PENDING and none from DONE (Architecture.md:305-   *)
(* 317; LLD.md:288; UMLs.md:370).  That nothing follows DONE is part of    *)
(* EndsAreFinal in MigrationService, which the code violates.              *)
(***************************************************************************)
EXTENDS Naturals, Sequences

CONSTANT Phases  \* the states of the sequence, in order

VARIABLES state, finished

Init ==
    /\ state = Phases[1]
    /\ finished = FALSE

\* _transition to the next phase.  Re-entering a phase with more progress is a
\* stuttering step here.
Advance ==
    \E n \in 2..Len(Phases) :
        /\ state = Phases[n - 1]
        /\ state' = Phases[n]
        /\ finished' = (n = Len(Phases))

Fail ==
    /\ state # "FAILED"
    /\ state' = "FAILED"
    /\ finished' = TRUE

Next == Advance \/ Fail

Spec == Init /\ [][Next]_<<state, finished>>
===========================================================================
