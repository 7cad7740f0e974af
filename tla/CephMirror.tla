---------------------------- MODULE CephMirror -----------------------------
(***************************************************************************)
(* cnf/storage/ceph.py under the disk step of the cold engine: one image   *)
(* and its mirror, the guest that writes to it, and the runs of engines    *)
(* that try to move it.  Nothing locks a VM, so several runs may be under  *)
(* way at once; and each may be followed by another, as task retries and   *)
(* redeliveries make them.  Where ColdMigration takes the answers of Ceph  *)
(* as they come, here they follow from the journal: what the mirror lacks, *)
(* what a status can tell of it, and which promote and demote the clusters *)
(* accept.  An engine asks the cluster it runs in, the source's.           *)
(*                                                                         *)
(* Lag is counted in journal entries, which get_mirror_status multiplies   *)
(* by a constant.                                                          *)
(***************************************************************************)
EXTENDS Naturals

CONSTANTS
    Run,        \* the engines that may run at once
    Default,    \* cfg.mirror_lag_threshold_bytes
    MaxLags,    \* the values of settings.migration_max_lag_bytes
    MaxPolls,   \* polls before wait_for_sync times out
    MaxBehind,  \* bound: entries a mirror lacks
    None

ASSUME MirrorAssumption ==
    /\ Default \in Nat /\ MaxLags \subseteq Nat
    /\ MaxPolls \in Nat \ {0} /\ MaxBehind \in Nat
    /\ None \notin Nat

VARIABLES
    run,       \* for each engine: the await it is at, the polls it has made,
               \* whether get_vm found the VM ACTIVE, and whether the owner
               \* started the VM after it was read or stopped
    active,    \* whether the VM runs
    behind,    \* entries written at the source and not replayed
    view,      \* the mirror's own: replica of a primary image; orphan, once it
               \* has replayed a demotion; stale, if the source was promoted since
    src, dst,  \* mirroring role of the image in each cluster
    forked     \* history: the two clusters may have diverged

image == <<behind, view, src, dst, forked>>
vars  == <<run, active, behind, view, src, dst, forked>>

Idle == [pc |-> "idle", polls |-> 0, seen |-> FALSE, started |-> FALSE]

Labels == {"idle", "check", "stop", "wait", "demote", "promote", "later", "rollback"}
Runs == [pc : Labels, polls : 0..(MaxPolls - 1), seen : BOOLEAN, started : BOOLEAN]

TypeOK ==
    /\ run \in [Run -> Runs]
    /\ active \in BOOLEAN
    /\ behind \in 0..MaxBehind
    /\ view \in {"replica", "orphan", "stale"}
    /\ src \in {"primary", "secondary"} /\ dst \in {"primary", "secondary"}
    /\ forked \in BOOLEAN

Init ==
    /\ run = [r \in Run |-> Idle]
    /\ active \in BOOLEAN
    /\ behind = 0
    /\ view = "replica"
    /\ src = "primary" /\ dst = "secondary"
    /\ forked = FALSE

----------------------------------------------------------------------------
(* The answers of Ceph.                                                    *)

\* get_mirror_status, the lag it reads.  The description counts the entries behind
\* only where the image is replayed, at the source once the destination is primary
\* and another mirror replays what is written there.  Of an image that is primary
\* it says nothing, nor does a mirror that is down, which reads as lag 0.
Status ==
    {0} \cup IF src = "secondary" /\ dst = "primary" THEN 0..MaxBehind ELSE {}

Threshold(limit) == IF limit \in {None, 0} THEN Default ELSE limit

Demoted == src' = "secondary" /\ UNCHANGED <<behind, view, dst, forked>>

\* A promote at the source, forced or of an image demoted there.
PromotedHere ==
    /\ src' = "primary"
    /\ view' = IF view = "orphan" THEN "stale" ELSE view
    /\ forked' = (forked \/ dst = "primary")
    /\ UNCHANGED <<behind, dst>>

\* A promote at the destination: refused before it has replayed a demotion.
PromotedThere ==
    /\ view # "replica"
    /\ dst' = "primary"
    /\ forked' = (forked \/ view = "stale")
    /\ UNCHANGED <<behind, view, src>>

----------------------------------------------------------------------------
(* The run of engine r.  An exception ends it before the rollback handler  *)
(* of the disk step is registered, and leads to the handler afterwards.    *)

At(r, label) == run[r].pc = label
Goto(r, label) == run' = [run EXCEPT ![r].pc = label]
Ends(r) == run' = [run EXCEPT ![r] = Idle]

GetVM(r) ==
    /\ At(r, "idle")
    /\ run' = [run EXCEPT ![r].pc = "check", ![r].seen = active]
    /\ UNCHANGED <<active, image>>

\* preflight_check: any rbd command may fail.
CheckImage(r) ==
    /\ At(r, "check")
    /\ \/ Ends(r)
       \/ /\ \E limit \in MaxLags, lag \in Status : lag <= Threshold(limit)
          /\ Goto(r, "stop")
    /\ UNCHANGED <<active, image>>

\* stop_vm returns once the VM is SHUTOFF.
StopVM(r) ==
    /\ At(r, "stop")
    /\ IF run[r].seen
       THEN \/ active' = FALSE
               /\ run' = [run EXCEPT ![r].pc = "wait", ![r].started = FALSE]
            \/ active' \in {active, FALSE} /\ Ends(r)
       ELSE Goto(r, "wait") /\ UNCHANGED active
    /\ UNCHANGED image

Synced(lag) == lag <= Threshold(None)

Return(r) == run' = [run EXCEPT ![r].pc = "demote", ![r].polls = 0]
PollAgain(r) == run' = [run EXCEPT ![r].polls = @ + 1]

\* Variants: the timeout starts the wait anew; it comes late.
PollAnew(r) ==
    /\ At(r, "wait")
    /\ \E lag \in Status :
          IF Synced(lag) THEN Return(r)
          ELSE IF run[r].polls + 1 = MaxPolls THEN run' = [run EXCEPT ![r].polls = 0]
          ELSE PollAgain(r)
    /\ UNCHANGED <<active, image>>

PollLate(r) ==
    /\ At(r, "wait")
    /\ \E lag \in Status :
          IF Synced(lag) THEN Return(r)
          ELSE IF run[r].polls = MaxPolls THEN Ends(r) ELSE PollAgain(r)
    /\ UNCHANGED <<active, image>>

\* wait_for_sync, one poll.
Poll(r) ==
    /\ At(r, "wait")
    /\ \/ Ends(r)
       \/ \E lag \in Status :
             IF Synced(lag) THEN Return(r)
             ELSE IF run[r].polls + 1 = MaxPolls THEN Ends(r) ELSE PollAgain(r)
    /\ UNCHANGED <<active, image>>

\* demote: refused unless the image is primary here; its answer may be lost.
Demote(r) ==
    /\ At(r, "demote")
    /\ \/ Ends(r) /\ UNCHANGED image
       \/ src = "primary" /\ Demoted /\ (Goto(r, "promote") \/ Ends(r))
    /\ UNCHANGED active

\* Variant: the RPC asks for a forced promote.
PromoteThereForced(r) ==
    /\ At(r, "promote")
    /\ Goto(r, "later") \/ Goto(r, "rollback")
    /\ dst' \in {dst, "primary"}
    /\ forked' = (forked \/ src = "primary")
    /\ UNCHANGED <<active, behind, view, src>>

\* PromoteRBDImage: success=False is not looked at, and the call may be lost.
PromoteThere(r) ==
    /\ At(r, "promote")
    /\ Goto(r, "later") \/ Goto(r, "rollback")
    /\ PromotedThere \/ UNCHANGED image
    /\ UNCHANGED active

\* Without a stub, promote through the engine's own client.
PromoteHere(r) ==
    /\ At(r, "promote")
    /\ \/ PromotedHere /\ (Goto(r, "later") \/ Goto(r, "rollback"))
       \/ Goto(r, "rollback") /\ UNCHANGED image
    /\ UNCHANGED active

\* The steps after the disk step: all go well, or one raises.
LaterSteps(r) ==
    /\ At(r, "later")
    /\ Ends(r) \/ Goto(r, "rollback")
    /\ UNCHANGED <<active, image>>

\* _rollback_disk: a forced promote, which asks nobody.
Rollback(r) ==
    /\ At(r, "rollback")
    /\ Ends(r)
    /\ PromotedHere \/ UNCHANGED image
    /\ UNCHANGED active

\* The process that runs the engine dies: no handler runs.
Crash(r) ==
    /\ ~At(r, "idle")
    /\ Ends(r)
    /\ UNCHANGED <<active, image>>

----------------------------------------------------------------------------
(* Outside.                                                                *)

\* Nova: the owner starts or stops the VM.
OwnerStarts ==
    /\ ~active
    /\ active' = TRUE
    /\ run' = [r \in Run |->
                  IF At(r, "idle") THEN run[r] ELSE [run[r] EXCEPT !.started = TRUE]]
    /\ UNCHANGED image

OwnerStops ==
    /\ active
    /\ active' = FALSE
    /\ UNCHANGED <<run, image>>

\* The guest writes; nobody writes to an image that is not primary.
GuestWrites ==
    /\ active /\ src = "primary" /\ behind < MaxBehind
    /\ behind' = behind + 1
    /\ UNCHANGED <<run, active, view, src, dst, forked>>

\* rbd-mirror at the destination replays the journal in its order, if it does.
Replay ==
    /\ dst = "secondary"
    /\ \/ view = "replica" /\ behind > 0 /\ behind' = behind - 1 /\ UNCHANGED view
       \/ /\ view = "replica" /\ behind = 0 /\ src = "secondary"
          /\ view' = "orphan" /\ UNCHANGED behind
       \/ view = "stale" /\ view' = "replica" /\ UNCHANGED behind
    /\ UNCHANGED <<run, active, src, dst, forked>>

Step(r) ==
    \/ CheckImage(r) \/ StopVM(r) \/ Poll(r) \/ Demote(r)
    \/ PromoteThere(r) \/ PromoteHere(r) \/ LaterSteps(r) \/ Rollback(r)

Next ==
    \/ \E r \in Run : GetVM(r) \/ Step(r) \/ Crash(r)
    \/ OwnerStarts \/ OwnerStops \/ GuestWrites \/ Replay

\* The coroutine of a run goes on: every rbd command is given a timeout.  The
\* mirror, the guest and the retries are under no obligation.
Spec == Init /\ [][Next]_vars /\ \A r \in Run : WF_vars(Step(r))

----------------------------------------------------------------------------
(* Properties.                                                             *)

\* A destination that became primary holds every write the source accepted,
\* whatever failed, crashed, was retried or ran beside it before, unless a run
\* has promoted the source beside it, or had promoted it again after a demotion
\* and the mirror did not know (ceph.py:192-203, engine.py:257-274).
NothingLost == dst = "primary" /\ ~forked => behind = 0

\* Every run ends, whatever the guest writes and the mirrors replay.
RunsEnd == \A r \in Run : ~At(r, "idle") ~> At(r, "idle")

----------------------------------------------------------------------------
(* What the source says of itself and the code does not do.                *)

\* engine.py:247: "Wait for final RBD mirror sync", and ceph.py:159: "until lag falls
\* below threshold or timeout".  Once a run has demoted an image it waited for, and
\* no owner started the VM under it, the mirror lacks no more than the threshold.
DemotedInSync ==
    \A r \in Run : At(r, "promote") /\ ~run[r].started => behind <= Default
============================================================================
