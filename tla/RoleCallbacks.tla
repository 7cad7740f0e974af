---------------------------- MODULE RoleCallbacks ----------------------------
(***************************************************************************)
(* What the election promises to the agent it runs in: the role changes    *)
(* while the agent runs and no callback does, to MASTER and back, and each *)
(* change is followed by its callback, awaited before the next.  Stopping  *)
(* cuts a callback short and leaves the role as it is.                     *)
(***************************************************************************)
VARIABLES
    role,      \* "MASTER" or "WORKER"
    callback,  \* the callback under way: "none", "become" or "lose"
    running    \* the election loop runs

Init == role = "WORKER" /\ callback = "none" /\ running = FALSE

Start ==
    /\ ~running /\ role = "WORKER" /\ callback = "none"
    /\ running' = TRUE
    /\ UNCHANGED <<role, callback>>

Idle == running /\ callback = "none" /\ UNCHANGED running

Win  == Idle /\ role = "WORKER" /\ role' = "MASTER" /\ callback' = "become"

Lose == Idle /\ role = "MASTER" /\ role' = "WORKER" /\ callback' = "lose"

CallbackEnds ==
    /\ running /\ callback # "none"
    /\ callback' = "none"
    /\ UNCHANGED <<role, running>>

Stop ==
    /\ running
    /\ running' = FALSE
    /\ callback' = "none"
    /\ UNCHANGED role

\* The process ends, and its memory with it.
Exit == role' = "WORKER" /\ callback' = "none" /\ running' = FALSE

Next == Start \/ Win \/ Lose \/ CallbackEnds \/ Stop \/ Exit

Step == [Next]_<<role, callback, running>>

Spec == Init /\ [][Next]_<<role, callback, running>>
==============================================================================
