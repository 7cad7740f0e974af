-------------------------- MODULE CephMirrorProofs --------------------------
(***************************************************************************)
(* Theorems about CephMirror, for any engines, thresholds, limits, polls   *)
(* and journals: type correctness, and what a promote may lose.            *)
(***************************************************************************)
EXTENDS CephMirror, TLAPS

\* What the destination's idea of the image says of its journal, and what a
\* promote there leaves of it.
ViewTrue ==
    /\ view = "orphan" => behind = 0 /\ src = "secondary"
    /\ dst = "primary" /\ ~forked => view = "orphan"

IInv == TypeOK /\ ViewTrue

----------------------------------------------------------------------------
(* Types.                                                                  *)

LEMMA IdleType == Idle \in Runs
BY MirrorAssumption DEF Idle, Runs, Labels

\* A run that goes on, or ends, keeps the types of runs.
LEMMA GoingOnType ==
    ASSUME TypeOK, NEW r \in Run, NEW label \in Labels, Goto(r, label)
    PROVE  run' \in [Run -> Runs]
<1>1. [run[r] EXCEPT !.pc = label] \in Runs
  BY DEF TypeOK, Runs
<1> QED
  BY <1>1 DEF Goto, TypeOK

LEMMA EndingType ==
    ASSUME TypeOK, NEW r \in Run, Ends(r)
    PROVE  run' \in [Run -> Runs]
BY IdleType DEF Ends, TypeOK

\* So does a promote at the source with what it writes.
LEMMA PromotedType ==
    ASSUME TypeOK, PromotedHere
    PROVE  /\ behind' = behind /\ view' \in {view, "stale"}
           /\ src' = "primary" /\ dst' = dst /\ forked' \in BOOLEAN
BY DEF TypeOK, PromotedHere

\* Every step keeps the types.
LEMMA TypeStep == TypeOK /\ [Next]_vars => TypeOK'
<1> SUFFICES ASSUME TypeOK, [Next]_vars PROVE TypeOK'
  OBVIOUS
<1> USE DEF TypeOK
<1>1. ASSUME NEW r \in Run, GetVM(r) PROVE TypeOK'
  <2>1. [run[r] EXCEPT !.pc = "check", !.seen = active] \in Runs
    BY DEF Runs, Labels
  <2>2. run' \in [Run -> Runs]
    BY <1>1, <2>1 DEF GetVM
  <2> QED
    BY <1>1, <2>2 DEF GetVM, image
<1>2. ASSUME NEW r \in Run, CheckImage(r) PROVE TypeOK'
  BY <1>2, GoingOnType, EndingType DEF CheckImage, Labels, image
<1>3. ASSUME NEW r \in Run, StopVM(r) PROVE TypeOK'
  <2>1. active' \in BOOLEAN
    BY <1>3 DEF StopVM
  <2>2. CASE Ends(r)
    BY <2>1, <2>2, <1>3, EndingType DEF StopVM, image
  <2>3. CASE Goto(r, "wait")
    BY <2>1, <2>3, <1>3, GoingOnType DEF StopVM, Labels, image
  <2>4. CASE run' = [run EXCEPT ![r].pc = "wait", ![r].started = FALSE]
    <3>1. [run[r] EXCEPT !.pc = "wait", !.started = FALSE] \in Runs
      BY DEF Runs, Labels
    <3> QED
      BY <2>1, <2>4, <3>1, <1>3 DEF StopVM, image
  <2> QED
    BY <1>3, <2>2, <2>3, <2>4 DEF StopVM
<1>4. ASSUME NEW r \in Run, Poll(r) PROVE TypeOK'
  <2>1. ASSUME Return(r) PROVE run' \in [Run -> Runs]
    <3>1. 0 \in 0..(MaxPolls - 1)
      BY MirrorAssumption
    <3>2. [run[r] EXCEPT !.pc = "demote", !.polls = 0] \in Runs
      BY <3>1 DEF Runs, Labels
    <3> QED
      BY <2>1, <3>2 DEF Return
  <2>2. ASSUME run[r].polls + 1 # MaxPolls, PollAgain(r) PROVE run' \in [Run -> Runs]
    BY <2>2, MirrorAssumption DEF PollAgain, Runs, Labels
  <2> QED
    BY <1>4, <2>1, <2>2, EndingType DEF Poll, image
<1>5. ASSUME NEW r \in Run, Demote(r) PROVE TypeOK'
  <2>1. run' \in [Run -> Runs]
    BY <1>5, GoingOnType, EndingType DEF Demote, Labels
  <2>2. src' \in {src, "secondary"} /\ UNCHANGED <<active, behind, view, dst, forked>>
    BY <1>5 DEF Demote, Demoted, image
  <2> QED
    BY <2>1, <2>2
<1>6. ASSUME NEW r \in Run, PromoteThere(r) PROVE TypeOK'
  <2>1. run' \in [Run -> Runs]
    BY <1>6, GoingOnType DEF PromoteThere, Labels
  <2>2. dst' \in {"primary", "secondary"} /\ forked' \in BOOLEAN
    BY <1>6 DEF PromoteThere, PromotedThere, image
  <2>3. UNCHANGED <<active, behind, view, src>>
    BY <1>6 DEF PromoteThere, PromotedThere, image
  <2> QED
    BY <2>1, <2>2, <2>3
<1>7. ASSUME NEW r \in Run, PromoteHere(r) PROVE TypeOK'
  <2>1. run' \in [Run -> Runs]
    BY <1>7, GoingOnType DEF PromoteHere, Labels
  <2>2. active' = active /\ (PromotedHere \/ UNCHANGED image)
    BY <1>7 DEF PromoteHere
  <2> QED
    BY <2>1, <2>2, PromotedType DEF image
<1>8. ASSUME NEW r \in Run, LaterSteps(r) \/ Crash(r) PROVE TypeOK'
  <2>1. run' \in [Run -> Runs]
    BY <1>8, GoingOnType, EndingType DEF LaterSteps, Crash, Labels
  <2> QED
    BY <1>8, <2>1 DEF LaterSteps, Crash, image
<1>9. ASSUME NEW r \in Run, Rollback(r) PROVE TypeOK'
  <2>1. run' \in [Run -> Runs]
    BY <1>9, EndingType DEF Rollback
  <2>2. active' = active /\ (PromotedHere \/ UNCHANGED image)
    BY <1>9 DEF Rollback
  <2> QED
    BY <2>1, <2>2, PromotedType DEF image
<1>10. ASSUME OwnerStarts PROVE TypeOK'
  <2>1. \A r \in Run : [run[r] EXCEPT !.started = TRUE] \in Runs
    BY DEF Runs
  <2>2. run' \in [Run -> Runs]
    BY <1>10, <2>1 DEF OwnerStarts
  <2> QED
    BY <1>10, <2>2 DEF OwnerStarts, image
<1>11. ASSUME OwnerStops \/ GuestWrites \/ Replay PROVE TypeOK'
  <2>1. CASE OwnerStops
    BY <2>1 DEF OwnerStops, image
  <2>2. CASE GuestWrites
    BY <2>2, MirrorAssumption DEF GuestWrites
  <2>3. CASE Replay
    BY <2>3, MirrorAssumption DEF Replay
  <2> QED
    BY <1>11, <2>1, <2>2, <2>3
<1>12. CASE UNCHANGED vars
  BY <1>12 DEF vars
<1> QED
  BY <1>1, <1>2, <1>3, <1>4, <1>5, <1>6, <1>7, <1>8, <1>9, <1>10, <1>11, <1>12
     DEF Next, Step

----------------------------------------------------------------------------
(* Data.                                                                   *)

\* What the destination takes the image for stays true: writes need a primary
\* source, and a promoted source makes an orphan stale or forks the image.
LEMMA ViewStep == TypeOK /\ ViewTrue /\ [Next]_vars => ViewTrue'
<1> SUFFICES ASSUME TypeOK, ViewTrue, [Next]_vars PROVE ViewTrue'
  OBVIOUS
<1> USE DEF TypeOK, ViewTrue
<1>1. CASE UNCHANGED image
  BY <1>1 DEF image
<1>2. CASE Demoted
  BY <1>2 DEF Demoted
<1>3. CASE PromotedHere
  BY <1>3 DEF PromotedHere
<1>4. CASE PromotedThere
  BY <1>4 DEF PromotedThere
<1>5. CASE GuestWrites
  BY <1>5 DEF GuestWrites
<1>6. CASE Replay
  BY <1>6 DEF Replay
<1>7. UNCHANGED image \/ Demoted \/ PromotedHere \/ PromotedThere \/ GuestWrites \/ Replay
  BY DEF Next, Step, vars, image, GetVM, CheckImage, StopVM, Poll, Demote, PromoteThere,
         PromoteHere, LaterSteps, Rollback, Crash, OwnerStarts, OwnerStops
<1> QED
  BY <1>1, <1>2, <1>3, <1>4, <1>5, <1>6, <1>7

----------------------------------------------------------------------------
(* Theorems.                                                               *)

\* IInv holds of every reachable state.
LEMMA Inductive == Spec => []IInv
<1>1. Init => IInv
  <2> SUFFICES ASSUME Init PROVE IInv
    OBVIOUS
  <2>1. TypeOK
    <3>1. run \in [Run -> Runs]
      BY IdleType DEF Init
    <3>2. behind \in 0..MaxBehind
      BY MirrorAssumption DEF Init
    <3> QED
      BY <3>1, <3>2 DEF Init, TypeOK
  <2>2. ViewTrue
    BY DEF Init, ViewTrue
  <2> QED
    BY <2>1, <2>2 DEF IInv
<1>2. IInv /\ [Next]_vars => IInv'
  BY TypeStep, ViewStep DEF IInv
<1> QED
  BY <1>1, <1>2, PTL DEF Spec

\* The variables keep the types of what they stand for, for any engines.
THEOREM TypeCorrect == Spec => []TypeOK
<1>1. IInv => TypeOK
  BY DEF IInv
<1> QED
  BY <1>1, Inductive, PTL

\* A destination that became primary, and was not forked, lacks no write the
\* source accepted (promote and demote, ceph.py:192-203), for any engines.
THEOREM NothingLostHolds == Spec => []NothingLost
<1>1. IInv => NothingLost
  BY DEF IInv, ViewTrue, NothingLost
<1> QED
  BY <1>1, Inductive, PTL
=============================================================================
