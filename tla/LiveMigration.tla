--------------------------- MODULE LiveMigration ---------------------------
(***************************************************************************)
(* LiveMigrationEngine and QEMUMigrationTunnel of cnf/migration/engine.py: *)
(*   PREFLIGHT -> DISK -> MEMORY -> CUTOVER -> BGP -> CLEANUP -> DONE.     *)
(*                                                                         *)
(* During the memory phase two tasks write the Migration row: the engine   *)
(* waits for libvirt in a thread, and the tunnel's monitor reports what    *)
(* libvirt says of the job.                                                *)
(***************************************************************************)
EXTENDS MigrationEngine

CONSTANTS
    Percents,   \* what _get_progress_pct may return (below 100)
    MaxReports  \* bound: how often the monitor reports

ASSUME PercentsAssumption == Percents \subseteq 0..99
ASSUME MaxReportsAssumption == MaxReports \in Nat

VARIABLES
    at,         \* the cluster the guest runs in
    monitor,    \* the tunnel's monitor task
    reports     \* how often it has asked libvirt

tunnel == <<at, monitor, reports>>
vars == <<engineVars, tunnel>>

Labels == {"preflight", "get_vm", "check", "disk", "status", "memory", "tunnel",
           "migrate", "migrated", "migrate_failed", "report", "cutover", "flush",
           "demote", "promote", "bgp", "announce", "withdraw", "cleanup",
           "delete_vm", "done", "fail", "rollback", "rollback_disk",
           "rollback_tunnel", "returned", "raised"}

Init ==
    /\ EngineInit
    /\ pc = "preflight"
    /\ at = "source"
    /\ monitor = "none"
    /\ reports = 0

----------------------------------------------------------------------------
(* _step_preflight and _step_disk_sync                                     *)

EnterPreflight == pc = "preflight" /\ Transition("PREFLIGHT", 5, "get_vm")

\* get_vm raises, or answers; only an ACTIVE VM is migrated live.
GetVM ==
    /\ pc = "get_vm"
    /\ \/ UNCHANGED seen /\ Raise
       \/ seen' = vm /\ vm = "ACTIVE" /\ Goto("check")
       \/ seen' = vm /\ vm # "ACTIVE" /\ Raise
    /\ UNCHANGED <<db, undo, wiring, vm, disk, routes>>

\* preflight_check accepts the image, rejects it or raises.
CheckImage ==
    /\ pc = "check"
    /\ i \in Images
    /\ Continue \/ Raise
    /\ UNCHANGED <<db, undo, ctx, vm, disk, routes>>

CheckDone ==
    /\ pc = "check"
    /\ i \notin Images
    /\ Goto("disk")
    /\ UNCHANGED <<db, undo, ctx, vm, disk, routes>>

EnterDisk == pc = "disk" /\ Transition("DISK", 15, "status")

\* get_mirror_status: the answer is only logged.
MirrorStatus ==
    /\ pc = "status"
    /\ i \in Images
    /\ Continue \/ Raise
    /\ UNCHANGED <<db, undo, ctx, vm, disk, routes>>

MirrorStatusDone ==
    /\ pc = "status"
    /\ i \notin Images
    /\ Goto("memory")
    /\ UNCHANGED <<db, undo, ctx, vm, disk, routes>>

----------------------------------------------------------------------------
(* _step_memory: the tunnel and its monitor.                               *)

EnterMemory == pc = "memory" /\ Transition("MEMORY", 25, "tunnel")

\* Without options["dest_host"] the step raises before it opens the tunnel, and
\* without libvirt the tunnel raises before it starts the monitor.
OpenTunnel ==
    /\ pc = "tunnel"
    /\ \/ Raise /\ UNCHANGED <<rollbacks, monitor>>
       \/ Register("rollback_tunnel") /\ UNCHANGED monitor /\ Raise
       \/ Register("rollback_tunnel") /\ monitor' = "waiting" /\ Goto("migrate")
    /\ UNCHANGED <<db, rolled, unrestored, ctx, vm, disk, routes, at, reports>>

\* Variant: the monitor's flag is set on abort only, and cancel is left out.
CancelMissed == UNCHANGED monitor

\* monitor_task.cancel(): a transaction it is in may still be committed.
CancelMonitor == monitor' = IF monitor = "writing" THEN "cancelled" ELSE "ended"

\* Variant: a failing migrateToURI3 is logged, as an abort's failure is.
MigrateLogged ==
    /\ pc = "migrate"
    /\ at' \in {at} \cup (IF vm = "ACTIVE" THEN {"dest"} ELSE {})
    /\ Goto("migrated")
    /\ CancelMonitor
    /\ UNCHANGED <<db, undo, ctx, vm, disk, routes, reports>>

\* _do_migrate ends in its thread.  Only a running guest can be moved; it is
\* resumed at the destination at once.
Migrate ==
    /\ pc = "migrate"
    /\ \/ vm = "ACTIVE" /\ at' = "dest" /\ Goto("migrated")
       \/ vm = "ACTIVE" /\ at' = "dest" /\ Goto("migrate_failed")
       \/ UNCHANGED at /\ Goto("migrate_failed")
    /\ CancelMonitor
    /\ UNCHANGED <<db, undo, ctx, vm, disk, routes, reports>>

\* Variant: the cancelled task is not awaited.
MonitorLeft ==
    /\ \/ pc = "migrated" /\ Goto("report")
       \/ pc = "migrate_failed" /\ Raise
    /\ UNCHANGED <<db, undo, ctx, vm, disk, routes, tunnel>>

\* The finally clause: the engine goes on when the monitor has ended.
MonitorJoined ==
    /\ monitor = "ended"
    /\ \/ pc = "migrated" /\ Goto("report")
       \/ pc = "migrate_failed" /\ Raise
    /\ UNCHANGED <<db, undo, ctx, vm, disk, routes, tunnel>>

\* progress_callback(100.0)
ReportDone == pc = "report" /\ Transition("MEMORY", 75, "cutover")

\* The monitor slept and asked libvirt; it now reports.
MonitorPolls ==
    /\ monitor = "waiting"
    /\ reports < MaxReports
    /\ monitor' = "writing"
    /\ reports' = reports + 1
    /\ UNCHANGED <<pc, i, db, undo, ctx, vm, disk, routes, at>>

\* Variant: the percentage is not scaled to the memory phase.
MonitorUnscaled ==
    /\ monitor \in {"writing", "cancelled"}
    /\ \E pct \in Percents : Entered("MEMORY", 25 + pct)
    /\ monitor' = IF monitor = "writing" THEN "waiting" ELSE "ended"
    /\ UNCHANGED <<pc, i, undo, ctx, vm, disk, routes, at, reports>>

\* Its _transition commits, or raises and is passed over.
MonitorReports ==
    /\ monitor \in {"writing", "cancelled"}
    /\ \/ \E pct \in Percents : Entered("MEMORY", 25 + (pct \div 2))
       \/ UNCHANGED db
    /\ monitor' = IF monitor = "writing" THEN "waiting" ELSE "ended"
    /\ UNCHANGED <<pc, i, undo, ctx, vm, disk, routes, at, reports>>

----------------------------------------------------------------------------
(* _step_cutover: image by image a last wait_for_sync, then the demote.    *)

EnterCutover == pc = "cutover" /\ Transition("CUTOVER", 80, "flush")

FlushImage ==
    /\ pc = "flush"
    /\ i \in Images
    /\ \/ pc' = "demote" /\ UNCHANGED i
       \/ Raise
    /\ UNCHANGED <<db, undo, ctx, vm, disk, routes>>

\* Variant: a failing demote is logged and the loop goes on.
DemoteLogged ==
    /\ pc = "demote"
    /\ src' \in {src, [src EXCEPT ![i] = "secondary"]}
    /\ pc' = "flush"
    /\ i' = i + 1
    /\ UNCHANGED <<db, undo, ctx, vm, dst, volumes, routes>>

DemoteImage ==
    /\ pc = "demote"
    /\ \/ src' = [src EXCEPT ![i] = "secondary"] /\ pc' = "flush" /\ i' = i + 1
       \/ src' \in {src, [src EXCEPT ![i] = "secondary"]} /\ Raise
    /\ UNCHANGED <<db, undo, ctx, vm, dst, volumes, routes>>

\* Variant: no handler is registered.
FlushedUnregistered ==
    /\ pc = "flush"
    /\ i \notin Images
    /\ Goto("promote")
    /\ UNCHANGED <<db, undo, ctx, vm, disk, routes>>

\* The handler is registered when every image has been demoted.
FlushDone ==
    /\ pc = "flush"
    /\ i \notin Images
    /\ Register("rollback_disk")
    /\ Goto("promote")
    /\ UNCHANGED <<db, rolled, unrestored, ctx, vm, disk, routes>>

PromoteDone ==
    /\ pc = "promote"
    /\ i \notin Images
    /\ Goto("bgp")
    /\ UNCHANGED <<db, undo, ctx, vm, disk, routes>>

----------------------------------------------------------------------------
(* _step_bgp, which registers no rollback, and _step_cleanup               *)

EnterBgp == pc = "bgp" /\ Transition("BGP", 90, "announce")

HandoffDone ==
    /\ pc = "withdraw"
    /\ i \notin Prefixes
    /\ Goto("cleanup")
    /\ UNCHANGED <<db, undo, ctx, vm, disk, routes>>

EnterCleanup == pc = "cleanup" /\ Transition("CLEANUP", 96, "delete_vm")

\* QEMUMigrationTunnel.abort as a handler: the job it would abort is over, and
\* its errors are logged.
AbortTunnel ==
    /\ pc = "rollback_tunnel"
    /\ HandlerEnds
    /\ UNCHANGED <<db, ctx, vm, disk, routes>>

----------------------------------------------------------------------------

Returned ==
    /\ pc \in {"returned", "raised"}
    /\ UNCHANGED vars

Preflight == EnterPreflight \/ GetVM \/ CheckImage \/ CheckDone
DiskSync == EnterDisk \/ MirrorStatus \/ MirrorStatusDone
Cutover == EnterCutover \/ FlushImage \/ DemoteImage \/ FlushDone
           \/ PromoteImage \/ PromoteDone
Bgp == EnterBgp \/ AnnouncePrefix \/ AnnounceDone \/ WithdrawPrefix \/ HandoffDone
Cleanup == EnterCleanup \/ DeleteVM \/ Finish
Rollback == Fail \/ NextHandler \/ RePromoteImage \/ RePromoteDone
            \/ AbortTunnel \/ RollbacksDone

Memory == OpenTunnel \/ Migrate \/ MonitorJoined

Run ==
    \/ /\ \/ Preflight \/ DiskSync \/ EnterMemory \/ ReportDone \/ Cutover
          \/ Bgp \/ Cleanup \/ Rollback
       /\ UNCHANGED tunnel
    \/ Memory

Monitor == MonitorPolls \/ MonitorReports

Next == Run \/ Monitor \/ (OwnerActs /\ UNCHANGED tunnel) \/ Returned

\* Every call the engine makes returns or times out; libvirt's job comes to an
\* end; the event loop resumes both tasks.
Spec == Init /\ [][Next]_vars /\ WF_vars(Run) /\ WF_vars(MonitorReports)

----------------------------------------------------------------------------
(* Properties.                                                             *)

\* Every variable has its type.
TypeOK ==
    /\ EngineTypeOK
    /\ pc \in Labels
    /\ at \in {"source", "dest"}
    /\ monitor \in {"none", "waiting", "writing", "cancelled", "ended"}
    /\ reports \in 0..MaxReports

\* An image is writable in both clusters only after the migration failed.
SingleWriter ==
    (\E m \in Images : src[m] = "primary" /\ dst[m] = "primary")
        => row.state = "FAILED"

\* No image is taken from the guest while it runs at the source, whichever task
\* or call fails in the memory phase: it is only demoted after the guest moved.
DisksUnderGuest == at = "source" => \A m \in Images : src[m] = "primary"

\* The source VM is deleted only when the guest runs at the destination, both
\* handlers are registered and, with the destination's stub, no image is writable
\* at the source (unless a rollback is what made it so again).
DeleteIsLast ==
    vm = "DELETED" =>
        /\ at = "dest"
        /\ {"rollback_tunnel", "rollback_disk"}
               \subseteq {rollbacks[n] : n \in DOMAIN rollbacks}
        /\ row.state = "FAILED" \/ ~wiring.dest
             \/ \A m \in Images : src[m] = "secondary"

\* When a failed run returns after the cutover registered its handler, each
\* image is primary at the source again or its promote was logged as failed: the tunnel's
\* handler neither replaces nor stops it.
DisksRolledBack ==
    /\ pc = "returned"
    /\ row.state = "FAILED"
    /\ \E n \in DOMAIN rollbacks : rollbacks[n] = "rollback_disk"
    => \A m \in Images \ unrestored : src[m] = "primary"

\* Once the row says FAILED neither task goes forward: the row stays as it is,
\* the guest is not moved, nothing is promoted at the destination or demoted at
\* the source, and the VM is not deleted.
NothingAfterFailed ==
    [][row.state = "FAILED" =>
        /\ row' = row
        /\ at' = at
        /\ dst' = dst
        /\ \A m \in Images : src[m] = "primary" => src'[m] = "primary"
        /\ vm' = "DELETED" => vm = "DELETED"]_vars

\* The lifecycle the code keeps to (engine.py:91-134), with two tasks writing the
\* row: it goes through the states of the sequence one by one, stays FAILED, and
\* has finished_at exactly at an end.  It may fail at any point, PENDING and DONE
\* included, which the documented lifecycle has not (MigrationService!EndsAreFinal).
Lifecycle == INSTANCE MigrationLifecycle
    WITH Phases <- <<"PENDING", "PREFLIGHT", "DISK", "MEMORY", "CUTOVER", "BGP", "CLEANUP", "DONE">>,
         state <- row.state, finished <- row.finished_at = "set"

ImplementsLifecycle == Lifecycle!Spec

\* Every run comes to an end with its monitor, and leaves a finished row behind
\* unless the commit of _fail itself raised.
Settles ==
    <>[]/\ pc = "raised" \/ (pc = "returned" /\ row.finished_at = "set")
        /\ monitor \in {"none", "ended"}

----------------------------------------------------------------------------
(* What the source says of itself and the code does not do.                *)

\* engine.py:452-454: "Final cutover: 1. Flush last dirty RBD pages (demote source,
\* promote dest). 2. Resume VM on destination."
ResumedAfterPromote == at = "dest" => \A m \in Images : dst[m] = "primary"
============================================================================
