----------------------------- MODULE LeaderLock -----------------------------
(***************************************************************************)
(* What the election promises: a lock that at most one agent holds, taken  *)
(* only when it is free and given up before anyone else takes it.          *)
(***************************************************************************)
CONSTANTS Node, None

VARIABLE holder

Init == holder = None

Take == holder = None /\ holder' \in Node

Release == holder # None /\ holder' = None

Next == Take \/ Release

Spec == Init /\ [][Next]_holder
=============================================================================
