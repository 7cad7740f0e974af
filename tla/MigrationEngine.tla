-------------------------- MODULE MigrationEngine --------------------------
(***************************************************************************)
(* The part of cnf/migration/engine.py that the cold and the live engine   *)
(* share: the base class MigrationEngine (state transitions, failure,      *)
(* rollback handlers) and the calls both sequences make to the storage,    *)
(* network and compute clients.  An engine is one coroutine: an action     *)
(* runs from one await to the next, and pc names the await it is at.       *)
(*                                                                         *)
(* A call to an outside system ends in one of three ways: it succeeds, it  *)
(* raises without effect, or it raises although it took effect (the answer *)
(* was lost, or a timeout expired after the command was executed).         *)
(*                                                                         *)
(* The engine runs in the agent of the source cluster, as                  *)
(* cnf/api/v1/vms.py starts it, so its Ceph client and its FRR client are  *)
(* those of the source.                                                    *)
(***************************************************************************)
EXTENDS Naturals, Sequences

CONSTANTS
    NImages,    \* RBD images of the VM's volumes (ctx.rbd_images)
    NPrefixes,  \* addresses of the VM (ctx.vm_ips), one /32 prefix each
    Wirings     \* which peer gRPC stubs the migration context may carry

ASSUME CountsAssumption == NImages \in Nat /\ NPrefixes \in Nat
ASSUME WiringsAssumption == Wirings \subseteq [source : BOOLEAN, dest : BOOLEAN]

Images   == 1..NImages
Prefixes == 1..NPrefixes

VARIABLES
    pc,         \* the await the coroutine is at
    i,          \* position of the for loop it is in
    row,        \* the Migration row in the database
    events,     \* states of the MigrationEvent rows, oldest first
    rollbacks,  \* self._rollbacks
    rolled,     \* how many handlers _run_rollbacks has gone through
    unrestored, \* images whose forced promote was logged as failed
    seen,       \* ctx.vm.status, as preflight read it
    wiring,     \* whether ctx.source_grpc_client and ctx.dest_grpc_client are set
    vm,         \* status of the VM in the source Nova
    src,        \* mirroring role of each image in the source Ceph cluster
    dst,        \* ... and in the destination Ceph cluster
    volumes,    \* images registered as volumes in the destination Cinder
    routes      \* prefixes announced by the FRR speaker of each cluster

db   == <<row, events>>
undo == <<rollbacks, rolled, unrestored>>
ctx  == <<seen, wiring>>
disk == <<src, dst, volumes>>
engineVars == <<pc, i, row, events, rollbacks, rolled, unrestored, seen, wiring,
                vm, src, dst, volumes, routes>>

Roles    == {"primary", "secondary"}
Statuses == {"ACTIVE", "SHUTOFF", "ERROR", "DELETED"}
States   == {"PENDING", "PREFLIGHT", "DISK", "MEMORY", "CUTOVER", "BGP",
             "CLEANUP", "DONE", "FAILED"}
Handlers == {"rollback_disk", "rollback_bgp", "rollback_tunnel"}

EngineTypeOK ==
    /\ i \in Nat \ {0}
    /\ row \in [state : States, progress : 0..100, finished_at : {"null", "set"}]
    /\ events \in Seq(States)
    /\ rollbacks \in Seq(Handlers)
    /\ rolled \in 0..Len(rollbacks)
    /\ unrestored \subseteq Images
    /\ seen \in Statuses \cup {"unknown"}
    /\ wiring \in Wirings
    /\ vm \in Statuses
    /\ src \in [Images -> Roles]
    /\ dst \in [Images -> Roles]
    /\ volumes \subseteq Images
    /\ routes \in [{"source", "dest"} -> SUBSET Prefixes]

\* The row was inserted by the REST handler; the source holds the primaries
\* and announces the addresses; the VM is in any state its owner left it in.
EngineInit ==
    /\ i = 1
    /\ row = [state |-> "PENDING", progress |-> 0, finished_at |-> "null"]
    /\ events = <<>>
    /\ rollbacks = <<>>
    /\ rolled = 0
    /\ unrestored = {}
    /\ seen = "unknown"
    /\ wiring \in Wirings
    /\ vm \in {"ACTIVE", "SHUTOFF", "ERROR"}
    /\ src = [m \in Images |-> "primary"]
    /\ dst = [m \in Images |-> "secondary"]
    /\ volumes = {}
    /\ routes = [source |-> Prefixes, dest |-> {}]

----------------------------------------------------------------------------
(* Control.                                                                *)

Goto(label) == pc' = label /\ i' = 1

\* The next iteration of the loop the coroutine is in.
Continue == i' = i + 1 /\ UNCHANGED pc

\* An exception reaches the except clause of run().
Raise == Goto("fail")

----------------------------------------------------------------------------
(* The base class.                                                         *)

\* What _transition commits: the row and its event, in one transaction.
Entered(state, progress) ==
    /\ row' = [state |-> state, progress |-> progress,
               finished_at |-> IF state = "DONE" THEN "set" ELSE row.finished_at]
    /\ events' = Append(events, state)

\* _transition, followed by the code at label next.
Transition(state, progress, next) ==
    /\ \/ Entered(state, progress) /\ Goto(next)
       \/ Entered(state, progress) /\ Raise
       \/ UNCHANGED db /\ Raise
    /\ UNCHANGED <<undo, ctx, vm, disk, routes>>

\* Variant: _fail without finished_at.
FailUnfinished ==
    /\ pc = "fail"
    /\ row' = [row EXCEPT !.state = "FAILED"]
    /\ Goto("rollback") \/ Goto("raised")
    /\ UNCHANGED <<events, undo, ctx, vm, disk, routes>>

\* _fail: sets the row FAILED and adds no event.  When its commit raises, the
\* exception leaves run() and no rollback handler runs.
Fail ==
    /\ pc = "fail"
    /\ \/ Goto("rollback") /\ row' = [row EXCEPT !.state = "FAILED", !.finished_at = "set"]
       \/ Goto("raised") /\ row' = [row EXCEPT !.state = "FAILED", !.finished_at = "set"]
       \/ Goto("raised") /\ UNCHANGED row
    /\ UNCHANGED <<events, undo, ctx, vm, disk, routes>>

Register(handler) == rollbacks' = Append(rollbacks, handler)

\* _run_rollbacks: the newest handler first, then return False.
NextHandler ==
    /\ pc = "rollback"
    /\ rolled < Len(rollbacks)
    /\ Goto(rollbacks[Len(rollbacks) - rolled])
    /\ UNCHANGED <<db, undo, ctx, vm, disk, routes>>

\* Variant: _step_cleanup moved to a finally clause.
CleanUpAfterRollbacks ==
    /\ pc = "rollback"
    /\ rolled = Len(rollbacks)
    /\ Goto("delete_vm")
    /\ UNCHANGED <<db, undo, ctx, vm, disk, routes>>

RollbacksDone ==
    /\ pc = "rollback"
    /\ rolled = Len(rollbacks)
    /\ Goto("returned")
    /\ UNCHANGED <<db, undo, ctx, vm, disk, routes>>

\* Variants: the handler is also popped; the handler is never left behind.
HandlerPopped ==
    /\ Goto("rollback")
    /\ rolled' = rolled + 1
    /\ rollbacks' = SubSeq(rollbacks, 1, Len(rollbacks) - 1)
    /\ UNCHANGED unrestored

HandlerRepeated == Goto("rollback") /\ UNCHANGED undo

\* Variant: an error of a handler is not caught.
HandlerEndsRun ==
    /\ Goto("rollback") \/ Goto("raised")
    /\ rolled' = rolled + 1
    /\ UNCHANGED <<rollbacks, unrestored>>

\* A handler returned, or raised and _run_rollbacks logged it.
HandlerEnds ==
    /\ Goto("rollback")
    /\ rolled' = rolled + 1
    /\ UNCHANGED <<rollbacks, unrestored>>

----------------------------------------------------------------------------
(* _rollback_disk and _rollback_cutover: force-promote every image on the  *)
(* source; a failure is logged and the loop goes on.                       *)

\* Variant: one try around the loop instead of one per image.
RePromoteUntilFailure ==
    /\ pc = "rollback_disk"
    /\ i \in Images
    /\ \/ src' = [src EXCEPT ![i] = "primary"] /\ Continue /\ UNCHANGED undo
       \/ UNCHANGED <<src, rollbacks>> /\ Goto("rollback") /\ rolled' = rolled + 1
          /\ unrestored' = unrestored \cup {i}
    /\ UNCHANGED <<db, ctx, vm, dst, volumes, routes>>

RePromoteImage ==
    /\ pc = "rollback_disk"
    /\ i \in Images
    /\ \/ src' = [src EXCEPT ![i] = "primary"] /\ UNCHANGED unrestored
       \/ /\ src' \in {src, [src EXCEPT ![i] = "primary"]}
          /\ unrestored' = unrestored \cup {i}
    /\ Continue
    /\ UNCHANGED <<db, rollbacks, rolled, ctx, vm, dst, volumes, routes>>

RePromoteDone ==
    /\ pc = "rollback_disk"
    /\ i \notin Images
    /\ HandlerEnds
    /\ UNCHANGED <<db, ctx, vm, disk, routes>>

----------------------------------------------------------------------------
(* Steps both sequences take.                                              *)

\* PromoteRBDImage on the destination's agent, or, without a stub, a promote
\* through the engine's own Ceph client.  The destination's servicer answers
\* success=False when its promote fails, and the engine does not look at it.
PromoteImage ==
    /\ pc = "promote"
    /\ i \in Images
    /\ IF wiring.dest
       THEN /\ UNCHANGED src
            /\ dst' \in {dst, [dst EXCEPT ![i] = "primary"]}
            /\ Continue \/ Raise
       ELSE /\ UNCHANGED dst
            /\ \/ src' = [src EXCEPT ![i] = "primary"] /\ Continue
               \/ src' \in {src, [src EXCEPT ![i] = "primary"]} /\ Raise
    /\ UNCHANGED <<db, undo, ctx, vm, volumes, routes>>

\* BGPManager.handoff, step 1: announce each prefix on this node's speaker.
AnnouncePrefix ==
    /\ pc = "announce"
    /\ i \in Prefixes
    /\ \/ routes' = [routes EXCEPT !.source = @ \cup {i}] /\ Continue
       \/ routes' \in {routes, [routes EXCEPT !.source = @ \cup {i}]} /\ Raise
    /\ UNCHANGED <<db, undo, ctx, vm, disk>>

AnnounceDone ==
    /\ pc = "announce"
    /\ i \notin Prefixes
    /\ Goto("withdraw")
    /\ UNCHANGED <<db, undo, ctx, vm, disk, routes>>

\* Step 2: ask the source to withdraw.  A missing stub, an RPC error and an
\* answer success=False are all passed over.
WithdrawPrefix ==
    /\ pc = "withdraw"
    /\ i \in Prefixes
    /\ \/ UNCHANGED routes
       \/ wiring.source /\ routes' = [routes EXCEPT !.source = @ \ {i}]
    /\ Continue
    /\ UNCHANGED <<db, undo, ctx, vm, disk>>

\* BGPManager.rollback, given the destination's stub: withdraw on this node ...
RollbackWithdraw ==
    /\ pc = "rollback_bgp"
    /\ i \in Prefixes
    /\ \/ /\ routes' = [routes EXCEPT !.source = @ \ {i}]
          /\ pc' = "rollback_announce"
          /\ UNCHANGED <<i, undo>>
       \/ /\ routes' \in {routes, [routes EXCEPT !.source = @ \ {i}]}
          /\ HandlerEnds
    /\ UNCHANGED <<db, ctx, vm, disk>>

\* ... and announce the prefix on the peer; a failure is logged.
RollbackAnnounce ==
    /\ pc = "rollback_announce"
    /\ \/ UNCHANGED routes
       \/ wiring.dest /\ routes' = [routes EXCEPT !.dest = @ \cup {i}]
    /\ pc' = "rollback_bgp"
    /\ i' = i + 1
    /\ UNCHANGED <<db, undo, ctx, vm, disk>>

RollbackBgpDone ==
    /\ pc = "rollback_bgp"
    /\ i \notin Prefixes
    /\ HandlerEnds
    /\ UNCHANGED <<db, ctx, vm, disk, routes>>

\* _step_cleanup after its transition: a failing delete_vm is only logged.
DeleteVM ==
    /\ pc = "delete_vm"
    /\ vm' \in {vm, "DELETED"}
    /\ Goto("done")
    /\ UNCHANGED <<db, undo, ctx, disk, routes>>

Finish ==
    /\ pc = "done"
    /\ Transition("DONE", 100, "returned")

\* The owner of the VM starts and stops it through Nova while the engine runs.
OwnerActs ==
    /\ vm \in {"ACTIVE", "SHUTOFF"}
    /\ vm' \in {"ACTIVE", "SHUTOFF"} \ {vm}
    /\ UNCHANGED <<pc, i, db, undo, ctx, disk, routes>>

----------------------------------------------------------------------------
(* The engine as MigrationService sees it: the run of one migration, "m",  *)
(* by what its row shows and by how it ends.                               *)

RunAt ==
    CASE pc = "preflight" -> "begin"
      [] pc = "fail" -> "failing"
      [] pc \in {"rollback", "rollback_announce"} \cup Handlers -> "undoing"
      [] pc \in {"returned", "raised"} -> pc
      [] OTHER -> "running"

RunRow ==
    [state |-> IF row.state \in {"PENDING", "DONE", "FAILED"} THEN row.state ELSE "RUNNING",
     finished |-> row.finished_at = "set"]

Service == INSTANCE MigrationService
    WITH Migration <- {"m"}, Worker <- {}, Listening <- {},
         MaxRetries <- 0, MaxSends <- 0, MaxFaults <- 0,
         None <- [state |-> "none", finished |-> FALSE],
         row <- [m \in {"m"} |-> RunRow],
         agent <- [m \in {"m"} |-> RunAt],
         ended <- [m \in {"m"} |-> {RunAt} \cap {"returned", "raised"}],
         abort <- {}, queue <- {}, unacked <- {}, job <- <<>>, stray <- <<>>,
         sends <- [m \in {"m"} |-> 0], faults <- 0

\* The run starts from what Migrate leaves behind and takes the steps of AgentRuns:
\* whichever call fails and whichever task writes the row, it reaches an end and
\* shows it the way MigrationService has it (engine.py:91-155), FAILED before the
\* handlers and a return after them.
IsServiceRun ==
    /\ RunAt = "begin" /\ RunRow = [state |-> "PENDING", finished |-> FALSE]
    /\ [][Service!AgentRuns("m")]_<<RunRow, RunAt>>
============================================================================
