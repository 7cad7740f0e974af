--------------------------- MODULE ColdMigration ---------------------------
(***************************************************************************)
(* ColdMigrationEngine of cnf/migration/engine.py:                         *)
(*   PREFLIGHT -> DISK -> CUTOVER -> BGP -> CLEANUP -> DONE,               *)
(* with FAILED and the rollback handlers from any of its awaits.           *)
(***************************************************************************)
EXTENDS MigrationEngine

Labels == {"preflight", "get_vm", "check", "disk", "stop_vm", "sync", "demote",
           "promote", "promoted", "cutover", "volume", "bgp", "announce",
           "withdraw", "cleanup", "delete_vm", "done", "fail", "rollback",
           "rollback_disk", "rollback_bgp", "rollback_announce",
           "returned", "raised"}

Init == EngineInit /\ pc = "preflight"

----------------------------------------------------------------------------
(* _step_preflight                                                         *)

EnterPreflight == pc = "preflight" /\ Transition("PREFLIGHT", 5, "get_vm")

\* get_vm raises, or answers with the status the VM has now.
GetVM ==
    /\ pc = "get_vm"
    /\ \/ UNCHANGED seen /\ Raise
       \/ seen' = vm /\ vm \in {"ACTIVE", "SHUTOFF"} /\ Goto("check")
       \/ seen' = vm /\ vm \notin {"ACTIVE", "SHUTOFF"} /\ Raise
    /\ UNCHANGED <<db, undo, wiring, vm, disk, routes>>

\* preflight_check accepts the image, rejects it or raises.
CheckImage ==
    /\ pc = "check"
    /\ i \in Images
    /\ Continue \/ Raise
    /\ UNCHANGED <<db, undo, ctx, vm, disk, routes>>

CheckDone ==
    /\ pc = "check"
    /\ i \notin Images
    /\ Goto("disk")
    /\ UNCHANGED <<db, undo, ctx, vm, disk, routes>>

----------------------------------------------------------------------------
(* _step_disk                                                              *)

EnterDisk == pc = "disk" /\ Transition("DISK", 20, "stop_vm")

\* The VM is stopped if preflight saw it running, whatever it does by now.
\* stop_vm returns once Nova reports SHUTOFF, and raises on ERROR or timeout.
StopVM ==
    /\ pc = "stop_vm"
    /\ \/ seen = "ACTIVE" /\ vm' = "SHUTOFF" /\ Goto("sync")
       \/ seen = "ACTIVE" /\ vm' \in {vm, "SHUTOFF", "ERROR"} /\ Raise
       \/ seen # "ACTIVE" /\ UNCHANGED vm /\ Goto("sync")
    /\ UNCHANGED <<db, undo, ctx, disk, routes>>

\* wait_for_sync returns, or raises CephSyncTimeout or CephError.
SyncImage ==
    /\ pc = "sync"
    /\ i \in Images
    /\ Continue \/ Raise
    /\ UNCHANGED <<db, undo, ctx, vm, disk, routes>>

\* Variant: promote before demote.
SyncThenPromote ==
    /\ pc = "sync"
    /\ i \notin Images
    /\ Goto("promote")
    /\ UNCHANGED <<db, undo, ctx, vm, disk, routes>>

SyncDone ==
    /\ pc = "sync"
    /\ i \notin Images
    /\ Goto("demote")
    /\ UNCHANGED <<db, undo, ctx, vm, disk, routes>>

DemoteImage ==
    /\ pc = "demote"
    /\ i \in Images
    /\ \/ src' = [src EXCEPT ![i] = "secondary"] /\ Continue
       \/ src' \in {src, [src EXCEPT ![i] = "secondary"]} /\ Raise
    /\ UNCHANGED <<db, undo, ctx, vm, dst, volumes, routes>>

\* The handler is registered when every image has been demoted.
DemoteDone ==
    /\ pc = "demote"
    /\ i \notin Images
    /\ Register("rollback_disk")
    /\ Goto("promote")
    /\ UNCHANGED <<db, rolled, unrestored, ctx, vm, disk, routes>>

PromoteDone ==
    /\ pc = "promote"
    /\ i \notin Images
    /\ Goto("promoted")
    /\ UNCHANGED <<db, undo, ctx, vm, disk, routes>>

\* Variant: _transition called with its default progress.
DiskMovedDefault == pc = "promoted" /\ Transition("DISK", 0, "cutover")

DiskMoved == pc = "promoted" /\ Transition("DISK", 50, "cutover")

----------------------------------------------------------------------------
(* _step_cutover: register each image in the destination Cinder.  No call  *)
(* creates a VM there.                                                     *)

EnterCutover == pc = "cutover" /\ Transition("CUTOVER", 70, "volume")

\* Variant: a failing create_volume_from_rbd is passed over, as get_volume is.
CreateVolumeCaught ==
    /\ pc = "volume"
    /\ i \in Images
    /\ volumes' \in {volumes, volumes \cup {i}}
    /\ Continue
    /\ UNCHANGED <<db, undo, ctx, vm, src, dst, routes>>

CreateVolume ==
    /\ pc = "volume"
    /\ i \in Images
    /\ \/ volumes' = volumes \cup {i} /\ Continue
       \/ volumes' \in {volumes, volumes \cup {i}} /\ Raise
    /\ UNCHANGED <<db, undo, ctx, vm, src, dst, routes>>

CreateVolumesDone ==
    /\ pc = "volume"
    /\ i \notin Images
    /\ Goto("bgp")
    /\ UNCHANGED <<db, undo, ctx, vm, disk, routes>>

----------------------------------------------------------------------------
(* _step_bgp and _step_cleanup                                             *)

EnterBgp == pc = "bgp" /\ Transition("BGP", 85, "announce")

\* handoff returns and its rollback is registered; a VM without addresses
\* skips both.
HandoffDone ==
    /\ pc = "withdraw"
    /\ i \notin Prefixes
    /\ IF NPrefixes = 0 THEN UNCHANGED rollbacks ELSE Register("rollback_bgp")
    /\ Goto("cleanup")
    /\ UNCHANGED <<db, rolled, unrestored, ctx, vm, disk, routes>>

EnterCleanup == pc = "cleanup" /\ Transition("CLEANUP", 95, "delete_vm")

----------------------------------------------------------------------------

Returned ==
    /\ pc \in {"returned", "raised"}
    /\ UNCHANGED engineVars

Preflight == EnterPreflight \/ GetVM \/ CheckImage \/ CheckDone
Disk == EnterDisk \/ StopVM \/ SyncImage \/ SyncDone \/ DemoteImage
        \/ DemoteDone \/ PromoteImage \/ PromoteDone \/ DiskMoved
Cutover == EnterCutover \/ CreateVolume \/ CreateVolumesDone
Bgp == EnterBgp \/ AnnouncePrefix \/ AnnounceDone \/ WithdrawPrefix \/ HandoffDone
Cleanup == EnterCleanup \/ DeleteVM \/ Finish
Rollback == Fail \/ NextHandler \/ RePromoteImage \/ RePromoteDone
            \/ RollbackWithdraw \/ RollbackAnnounce \/ RollbackBgpDone
            \/ RollbacksDone

Run == Preflight \/ Disk \/ Cutover \/ Bgp \/ Cleanup \/ Rollback

Next == Run \/ OwnerActs \/ Returned

\* Every call the engine makes returns or times out, and the event loop
\* resumes the coroutine.
Spec == Init /\ [][Next]_engineVars /\ WF_engineVars(Run)

----------------------------------------------------------------------------
(* Properties.                                                             *)

\* Every variable has its type; in particular _run_rollbacks never counts
\* more handlers than were registered.
TypeOK == EngineTypeOK /\ pc \in Labels

\* An image is writable in both clusters only after the migration failed: on
\* the way forward every demote precedes the first promote.
SingleWriter ==
    (\E m \in Images : src[m] = "primary" /\ dst[m] = "primary")
        => row.state = "FAILED"

\* The source VM is deleted last: by then the disk rollback is registered, all
\* its volumes are registered at the destination and, when the destination's
\* agent does the promoting, none of its images is writable at the source
\* (unless a rollback is what made it so again).
DeleteIsLast ==
    vm = "DELETED" =>
        /\ volumes = Images
        /\ \E n \in DOMAIN rollbacks : rollbacks[n] = "rollback_disk"
        /\ row.state = "FAILED" \/ ~wiring.dest
             \/ \A m \in Images : src[m] = "secondary"

\* When a failed run returns after the disk step registered its handler,
\* each image is primary at the source again or its promote was logged as failed,
\* in whatever order the handlers ran and whichever of them raised.
DisksRolledBack ==
    /\ pc = "returned"
    /\ row.state = "FAILED"
    /\ \E n \in DOMAIN rollbacks : rollbacks[n] = "rollback_disk"
    => \A m \in Images \ unrestored : src[m] = "primary"

\* Once the row says FAILED the engine only goes backwards: it creates no
\* volume, promotes nothing at the destination, demotes nothing at the source
\* and does not delete the VM.
NothingAfterFailed ==
    [][row.state = "FAILED" =>
        /\ volumes' = volumes
        /\ dst' = dst
        /\ \A m \in Images : src[m] = "primary" => src'[m] = "primary"
        /\ vm' = "DELETED" => vm = "DELETED"]_engineVars

\* The progress shown for a cold migration never goes back, FAILED included.
ProgressMonotone == [][row'.progress >= row.progress]_engineVars

\* The lifecycle the code keeps to, whichever call fails (engine.py:91-134): the
\* row goes through the states of the sequence one by one, stays FAILED, and has
\* finished_at exactly at an end.  It may fail at any point, PENDING and DONE
\* included, which the documented lifecycle has not (MigrationService!EndsAreFinal).
Lifecycle == INSTANCE MigrationLifecycle
    WITH Phases <- <<"PENDING", "PREFLIGHT", "DISK", "CUTOVER", "BGP", "CLEANUP", "DONE">>,
         state <- row.state, finished <- row.finished_at = "set"

ImplementsLifecycle == Lifecycle!Spec

\* Every run comes to an end, and leaves a finished row behind unless
\* the commit of _fail itself raised.
Settles == <>[](pc = "raised" \/ (pc = "returned" /\ row.finished_at = "set"))

----------------------------------------------------------------------------
(* What the source says of itself and the code does not do.                *)

\* engine.py:267: "Re-promote images on source if disk step fails."
FailureRestoresDisks ==
    pc = "returned" /\ row.state = "FAILED"
        => \A m \in Images \ unrestored : src[m] = "primary"

\* engine.py:251: "Demote on source, promote on destination", and bgp.py:185:
\* "Announce prefix from destination cluster (this node)".  A migration that is DONE
\* has its disks and its addresses at the destination.
DoneMeansMoved ==
    row.state = "DONE" =>
        (\A m \in Images : dst[m] = "primary") /\ routes.dest = Prefixes
============================================================================
