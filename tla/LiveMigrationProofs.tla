------------------------ MODULE LiveMigrationProofs ------------------------
(***************************************************************************)
(* Theorems about LiveMigration for any number of images and prefixes, any *)
(* wiring of the peer stubs, and any number of progress reports.           *)
(***************************************************************************)
EXTENDS LiveMigration, MigrationEngineProofs

PostFlush  == {"promote", "bgp", "announce", "withdraw", "cleanup", "delete_vm", "done"}
PostMove   == PostFlush \cup {"migrated", "report", "cutover", "flush", "demote"}
PostTunnel == PostMove \cup {"migrate", "migrate_failed"}
Undoing    == {"rollback", "rollback_disk", "rollback_tunnel"}
Ended      == {"returned", "raised"}
LiveHandlers == {"rollback_tunnel", "rollback_disk"}

Registered(h) == \E n \in DOMAIN rollbacks : rollbacks[n] = h
Restored(m) == m \in unrestored \/ src[m] = "primary"

\* What the row says at each await of the way forward; while the monitor may
\* write it, only its state is known.
RowIs(state, progress) ==
    row = [state |-> state, progress |-> progress, finished_at |-> "null"]

RowAt ==
    /\ pc = "preflight" => RowIs("PENDING", 0)
    /\ pc \in {"get_vm", "check", "disk"} => RowIs("PREFLIGHT", 5)
    /\ pc \in {"status", "memory"} => RowIs("DISK", 15)
    /\ pc = "tunnel" => RowIs("MEMORY", 25)
    /\ pc \in {"migrate", "migrated", "migrate_failed", "report"} =>
           row.state = "MEMORY" /\ row.finished_at = "null"
    /\ pc = "cutover" => RowIs("MEMORY", 75)
    /\ pc \in {"flush", "demote", "promote", "bgp"} => RowIs("CUTOVER", 80)
    /\ pc \in {"announce", "withdraw", "cleanup"} => RowIs("BGP", 90)
    /\ pc \in {"delete_vm", "done"} => RowIs("CLEANUP", 96)

\* The row is FAILED exactly while and after the handlers run.
RowFailed ==
    /\ pc \in Undoing => row.state = "FAILED"
    /\ row.state = "FAILED" => pc \in Undoing \cup Ended

\* The monitor lives no longer than the step that started it.
MonitorAt ==
    /\ monitor \in {"waiting", "writing"} <=> pc = "migrate"
    /\ monitor = "cancelled" => pc \in {"migrated", "migrate_failed"}

\* The guest has moved, and what the loops over the images have done.
DiskAt ==
    /\ pc \in PostMove => at = "dest"
    /\ pc = "demote" => i \in Images
    /\ pc \in {"flush", "demote"} => \A m \in Images : m < i => src[m] = "secondary"
    /\ pc \in PostFlush /\ wiring.dest => \A m \in Images : src[m] = "secondary"
    /\ ~wiring.dest => \A m \in Images : dst[m] = "secondary"

\* Which handlers are registered, which one runs, what those that ran did.
UndoAt ==
    /\ rollbacks \in Seq(LiveHandlers)
    /\ pc \in PostTunnel => Registered("rollback_tunnel")
    /\ pc \in PostFlush => Registered("rollback_disk")
    /\ pc \notin Undoing \cup {"returned"} => rolled = 0
    /\ pc \in Undoing \ {"rollback"} => rolled < Len(rollbacks)
    /\ pc = "rollback_tunnel" => rollbacks[Len(rollbacks) - rolled] = "rollback_tunnel"
    /\ pc = "rollback_disk" => \A m \in Images : m < i => Restored(m)
    /\ \A n \in DOMAIN rollbacks :
           n > Len(rollbacks) - rolled /\ rollbacks[n] = "rollback_disk"
               => \A m \in Images : Restored(m)
    /\ pc = "returned" /\ row.state = "FAILED" => rolled = Len(rollbacks)

IInv ==
    /\ TypeOK
    /\ RowAt
    /\ RowFailed
    /\ MonitorAt
    /\ DiskAt
    /\ UndoAt
    /\ SingleWriter
    /\ DisksUnderGuest
    /\ DeleteIsLast

----------------------------------------------------------------------------
(* The steps: one lemma per phase, one case per action.                     *)

\* A transition on the way forward keeps the invariant when what it writes fits
\* the await it leads to and that await needs no more than the one before it.
LEMMA TransitionInv ==
    ASSUME IInv, NEW s \in States \ {"FAILED"}, NEW p \in 0..100,
           NEW l \in Labels \ (Undoing \cup {"migrate", "demote"}),
           Transition(s, p, l), UNCHANGED tunnel,
           pc \notin Undoing \cup Ended \cup {"migrate", "migrated", "migrate_failed"},
           Entered(s, p) /\ pc' = l => RowAt',
           l \in PostTunnel => pc \in PostTunnel,
           l \in PostMove => pc \in PostMove,
           l \in PostFlush => pc \in PostFlush
    PROVE  IInv'
  <1> USE CountsAssumption
  <1>1. /\ UNCHANGED <<rollbacks, rolled, unrestored, wiring, vm, src, dst, at, monitor>>
        /\ i' = 1
        /\ \/ pc' = l /\ Entered(s, p)
           \/ pc' = "fail" /\ (Entered(s, p) \/ row' = row)
    BY DEF Transition, Goto, Raise, db, undo, ctx, disk, tunnel
  <1>2. TypeOK'
    <2>1. EngineTypeOK' /\ pc' \in {l, "fail"}
      BY TransitionTypes DEF IInv, TypeOK
    <2> QED
      BY <2>1 DEF IInv, TypeOK, Labels, tunnel
  <1>3. RowAt'
    BY <1>1 DEF RowAt
  <1>4. row.state # "FAILED" /\ row'.state # "FAILED"
    BY <1>1 DEF IInv, RowFailed, Entered
  <1>5. RowFailed'
    BY <1>1, <1>4 DEF RowFailed, Undoing
  <1>6. MonitorAt'
    BY <1>1 DEF IInv, MonitorAt
  <1>7. DiskAt'
    BY <1>1 DEF IInv, DiskAt, Images, PostMove, PostFlush
  <1>8. UndoAt'
    BY <1>1, <1>4 DEF IInv, UndoAt, Undoing, Ended, PostTunnel, PostMove, PostFlush, Registered, Restored
  <1>9. SingleWriter' /\ DisksUnderGuest'
    BY <1>1, <1>4 DEF IInv, SingleWriter, DisksUnderGuest
  <1>10. DeleteIsLast'
    BY <1>1, <1>4 DEF IInv, DeleteIsLast
  <1> QED
    BY <1>2, <1>3, <1>5, <1>6, <1>7, <1>8, <1>9, <1>10 DEF IInv

LEMMA PreflightInv == IInv /\ Preflight /\ UNCHANGED tunnel => IInv'
  <1> SUFFICES ASSUME IInv, Preflight, UNCHANGED tunnel PROVE IInv'
    OBVIOUS
  <1> USE CountsAssumption
  <1>1. CASE EnterPreflight
    <2>1. Transition("PREFLIGHT", 5, "get_vm")
      BY <1>1 DEF EnterPreflight
    <2>2. /\ "PREFLIGHT" \in States \ {"FAILED"} /\ 5 \in 0..100
          /\ "get_vm" \in Labels \ (Undoing \cup {"migrate", "demote"})
          /\ pc \notin Undoing \cup Ended \cup {"migrate", "migrated", "migrate_failed"}
          /\ "get_vm" \in PostTunnel => pc \in PostTunnel
          /\ "get_vm" \in PostMove => pc \in PostMove
          /\ "get_vm" \in PostFlush => pc \in PostFlush
      BY <1>1 DEF EnterPreflight, States, Labels, Undoing, Ended, PostTunnel, PostMove, PostFlush
    <2>3. Entered("PREFLIGHT", 5) /\ pc' = "get_vm" => RowAt'
      BY <1>1 DEF EnterPreflight, Entered, IInv, RowAt, RowIs
    <2> QED
      BY <2>1, <2>2, <2>3, TransitionInv
  <1>2. CASE GetVM
    BY <1>2
    DEF GetVM, Goto, Continue, Raise, db, undo, ctx, disk, tunnel,
         IInv, TypeOK, EngineTypeOK, Labels, RowAt, RowIs, RowFailed, MonitorAt, DiskAt,
         UndoAt, Registered, Restored, SingleWriter, DisksUnderGuest, DeleteIsLast, PostFlush,
         PostMove, PostTunnel, Undoing, Ended, LiveHandlers, Images, Prefixes, States, Statuses, Roles
  <1>3. CASE CheckImage
    BY <1>3
    DEF CheckImage, Goto, Continue, Raise, db, undo, ctx, disk, tunnel,
         IInv, TypeOK, EngineTypeOK, Labels, RowAt, RowIs, RowFailed, MonitorAt, DiskAt,
         UndoAt, Registered, Restored, SingleWriter, DisksUnderGuest, DeleteIsLast, PostFlush,
         PostMove, PostTunnel, Undoing, Ended, LiveHandlers, Images, Prefixes, States, Statuses, Roles
  <1>4. CASE CheckDone
    BY <1>4
    DEF CheckDone, Goto, Continue, Raise, db, undo, ctx, disk, tunnel,
         IInv, TypeOK, EngineTypeOK, Labels, RowAt, RowIs, RowFailed, MonitorAt, DiskAt,
         UndoAt, Registered, Restored, SingleWriter, DisksUnderGuest, DeleteIsLast, PostFlush,
         PostMove, PostTunnel, Undoing, Ended, LiveHandlers, Images, Prefixes, States, Statuses, Roles
  <1> QED
    BY <1>1, <1>2, <1>3, <1>4 DEF Preflight

LEMMA DiskSyncInv == IInv /\ DiskSync /\ UNCHANGED tunnel => IInv'
  <1> SUFFICES ASSUME IInv, DiskSync, UNCHANGED tunnel PROVE IInv'
    OBVIOUS
  <1> USE CountsAssumption
  <1>1. CASE EnterDisk
    <2>1. Transition("DISK", 15, "status")
      BY <1>1 DEF EnterDisk
    <2>2. /\ "DISK" \in States \ {"FAILED"} /\ 15 \in 0..100
          /\ "status" \in Labels \ (Undoing \cup {"migrate", "demote"})
          /\ pc \notin Undoing \cup Ended \cup {"migrate", "migrated", "migrate_failed"}
          /\ "status" \in PostTunnel => pc \in PostTunnel
          /\ "status" \in PostMove => pc \in PostMove
          /\ "status" \in PostFlush => pc \in PostFlush
      BY <1>1 DEF EnterDisk, States, Labels, Undoing, Ended, PostTunnel, PostMove, PostFlush
    <2>3. Entered("DISK", 15) /\ pc' = "status" => RowAt'
      BY <1>1 DEF EnterDisk, Entered, IInv, RowAt, RowIs
    <2> QED
      BY <2>1, <2>2, <2>3, TransitionInv
  <1>2. CASE MirrorStatus
    BY <1>2
    DEF MirrorStatus, Goto, Continue, Raise, db, undo, ctx, disk, tunnel,
         IInv, TypeOK, EngineTypeOK, Labels, RowAt, RowIs, RowFailed, MonitorAt, DiskAt,
         UndoAt, Registered, Restored, SingleWriter, DisksUnderGuest, DeleteIsLast, PostFlush,
         PostMove, PostTunnel, Undoing, Ended, LiveHandlers, Images, Prefixes, States, Statuses, Roles
  <1>3. CASE MirrorStatusDone
    BY <1>3
    DEF MirrorStatusDone, Goto, Continue, Raise, db, undo, ctx, disk, tunnel,
         IInv, TypeOK, EngineTypeOK, Labels, RowAt, RowIs, RowFailed, MonitorAt, DiskAt,
         UndoAt, Registered, Restored, SingleWriter, DisksUnderGuest, DeleteIsLast, PostFlush,
         PostMove, PostTunnel, Undoing, Ended, LiveHandlers, Images, Prefixes, States, Statuses, Roles
  <1> QED
    BY <1>1, <1>2, <1>3 DEF DiskSync

LEMMA MemoryEndsInv == IInv /\ (EnterMemory \/ ReportDone) /\ UNCHANGED tunnel => IInv'
  <1> SUFFICES ASSUME IInv, (EnterMemory \/ ReportDone), UNCHANGED tunnel PROVE IInv'
    OBVIOUS
  <1> USE CountsAssumption
  <1>1. CASE EnterMemory
    <2>1. Transition("MEMORY", 25, "tunnel")
      BY <1>1 DEF EnterMemory
    <2>2. /\ "MEMORY" \in States \ {"FAILED"} /\ 25 \in 0..100
          /\ "tunnel" \in Labels \ (Undoing \cup {"migrate", "demote"})
          /\ pc \notin Undoing \cup Ended \cup {"migrate", "migrated", "migrate_failed"}
          /\ "tunnel" \in PostTunnel => pc \in PostTunnel
          /\ "tunnel" \in PostMove => pc \in PostMove
          /\ "tunnel" \in PostFlush => pc \in PostFlush
      BY <1>1 DEF EnterMemory, States, Labels, Undoing, Ended, PostTunnel, PostMove, PostFlush
    <2>3. Entered("MEMORY", 25) /\ pc' = "tunnel" => RowAt'
      BY <1>1 DEF EnterMemory, Entered, IInv, RowAt, RowIs
    <2> QED
      BY <2>1, <2>2, <2>3, TransitionInv
  <1>2. CASE ReportDone
    <2>1. Transition("MEMORY", 75, "cutover")
      BY <1>2 DEF ReportDone
    <2>2. /\ "MEMORY" \in States \ {"FAILED"} /\ 75 \in 0..100
          /\ "cutover" \in Labels \ (Undoing \cup {"migrate", "demote"})
          /\ pc \notin Undoing \cup Ended \cup {"migrate", "migrated", "migrate_failed"}
          /\ "cutover" \in PostTunnel => pc \in PostTunnel
          /\ "cutover" \in PostMove => pc \in PostMove
          /\ "cutover" \in PostFlush => pc \in PostFlush
      BY <1>2 DEF ReportDone, States, Labels, Undoing, Ended, PostTunnel, PostMove, PostFlush
    <2>3. Entered("MEMORY", 75) /\ pc' = "cutover" => RowAt'
      BY <1>2 DEF ReportDone, Entered, IInv, RowAt, RowIs
    <2> QED
      BY <2>1, <2>2, <2>3, TransitionInv
  <1> QED
    BY <1>1, <1>2

LEMMA MemoryInv == IInv /\ Memory => IInv'
  <1> SUFFICES ASSUME IInv, Memory PROVE IInv'
    OBVIOUS
  <1> USE CountsAssumption
  <1>1. CASE OpenTunnel
    <2>1. /\ rollbacks \in Seq(LiveHandlers) /\ LiveHandlers \subseteq Handlers
          /\ rolled = 0 /\ "rollback_tunnel" \in LiveHandlers
      BY <1>1 DEF OpenTunnel, IInv, UndoAt, Undoing, LiveHandlers, Handlers
    <2>2. /\ rollbacks' \in Seq(LiveHandlers) /\ rollbacks' \in Seq(Handlers)
          /\ rolled \in 0..Len(rollbacks')
          /\ \A g : Registered(g) => Registered(g)'
          /\ pc' = "migrate" => Registered("rollback_tunnel")'
          /\ \A n \in DOMAIN rollbacks' : ~(n > Len(rollbacks') - rolled)
      <3>1. CASE Register("rollback_tunnel")
        BY <2>1, <3>1, RegisterFacts DEF Registered
      <3>2. CASE rollbacks' = rollbacks /\ pc' = "fail"
        <4>1. Len(rollbacks) \in Nat /\ DOMAIN rollbacks = 1..Len(rollbacks)
          BY <2>1, LenProperties
        <4> QED
          BY <2>1, <3>2, <4>1, SeqMonotonic DEF Registered
      <3> QED
        BY <1>1, <3>1, <3>2 DEF OpenTunnel, Raise, Goto, undo
    <2>3. /\ pc' \in {"migrate", "fail"} /\ i' = 1
          /\ UNCHANGED <<row, events, rolled, unrestored, seen, wiring, vm, src, dst, volumes,
                         routes, at, reports>>
          /\ pc = "tunnel" /\ monitor' = (IF pc' = "migrate" THEN "waiting" ELSE monitor)
      BY <1>1 DEF OpenTunnel, Goto, Raise, db, undo, ctx, disk, tunnel
    <2>4. TypeOK'
      BY <2>2, <2>3 DEF IInv, TypeOK, EngineTypeOK, Labels
    <2>5. RowAt' /\ RowFailed' /\ MonitorAt'
      BY <2>3 DEF IInv, RowAt, RowIs, RowFailed, MonitorAt, Undoing, Ended
    <2>6. DiskAt'
      BY <2>3 DEF IInv, TypeOK, EngineTypeOK, DiskAt, PostMove, PostFlush, Images
    <2>7. UndoAt'
      BY <2>1, <2>2, <2>3 DEF IInv, UndoAt, PostTunnel, PostMove, PostFlush, Undoing, Ended
    <2>8. SingleWriter' /\ DisksUnderGuest'
      BY <2>3 DEF IInv, SingleWriter, DisksUnderGuest
    <2>9. DeleteIsLast'
      BY <2>2, <2>3 DEF IInv, DeleteIsLast, Registered
    <2> QED
      BY <2>4, <2>5, <2>6, <2>7, <2>8, <2>9 DEF IInv
  <1>2. CASE Migrate
    BY <1>2
    DEF Migrate, CancelMonitor, Goto, Continue, Raise, db, undo, ctx, disk, tunnel,
         IInv, TypeOK, EngineTypeOK, Labels, RowAt, RowIs, RowFailed, MonitorAt, DiskAt,
         UndoAt, Registered, Restored, SingleWriter, DisksUnderGuest, DeleteIsLast, PostFlush,
         PostMove, PostTunnel, Undoing, Ended, LiveHandlers, Images, Prefixes, States, Statuses, Roles
  <1>3. CASE MonitorJoined
    BY <1>3
    DEF MonitorJoined, Goto, Continue, Raise, db, undo, ctx, disk, tunnel,
         IInv, TypeOK, EngineTypeOK, Labels, RowAt, RowIs, RowFailed, MonitorAt, DiskAt,
         UndoAt, Registered, Restored, SingleWriter, DisksUnderGuest, DeleteIsLast, PostFlush,
         PostMove, PostTunnel, Undoing, Ended, LiveHandlers, Images, Prefixes, States, Statuses, Roles
  <1> QED
    BY <1>1, <1>2, <1>3 DEF Memory

LEMMA MonitorInv == IInv /\ Monitor => IInv'
  <1> SUFFICES ASSUME IInv, Monitor PROVE IInv'
    OBVIOUS
  <1> USE CountsAssumption
  <1>1. CASE MonitorPolls
    <2> USE <1>1 DEF MonitorPolls, Goto, Continue, Raise, db, undo, ctx, disk, tunnel
    <2>1. TypeOK'
      <3>1. reports' \in 0..MaxReports
        BY MaxReportsAssumption DEF IInv, TypeOK
      <3> QED
        BY <3>1 DEF IInv, TypeOK, EngineTypeOK
    <2>2. RowAt' /\ RowFailed' /\ MonitorAt'
      BY DEF IInv, TypeOK, RowAt, RowIs, RowFailed, MonitorAt, Undoing, Ended
    <2>3. DiskAt'
      BY DEF IInv, TypeOK, EngineTypeOK, DiskAt, PostMove, PostFlush, Images
    <2>4. UndoAt'
      BY DEF IInv, TypeOK, EngineTypeOK, UndoAt, Registered, Restored, Undoing, Ended, PostTunnel,
             PostMove, PostFlush, Images, RowFailed
    <2>5. SingleWriter' /\ DisksUnderGuest'
      BY DEF IInv, TypeOK, EngineTypeOK, SingleWriter, DisksUnderGuest, DiskAt, RowFailed, Undoing,
             PostMove, PostFlush
    <2>6. DeleteIsLast'
      BY DEF IInv, TypeOK, EngineTypeOK, DeleteIsLast, DiskAt, RowFailed, Undoing, PostFlush
    <2> QED
      BY <2>1, <2>2, <2>3, <2>4, <2>5, <2>6 DEF IInv
  <1>2. CASE MonitorReports
    <2>1. /\ UNCHANGED <<pc, i, rollbacks, rolled, unrestored, seen, wiring, vm, src, dst,
                         volumes, routes, at, reports>>
          /\ monitor' = IF monitor = "writing" THEN "waiting" ELSE "ended"
          /\ monitor \in {"writing", "cancelled"}
          /\ \/ \E pct \in Percents : Entered("MEMORY", 25 + (pct \div 2))
             \/ UNCHANGED <<row, events>>
      BY <1>2 DEF MonitorReports, db, undo, ctx, disk
    <2>2. pc \in {"migrate", "migrated", "migrate_failed"} /\ row.state = "MEMORY" /\ row.finished_at = "null"
      BY <2>1 DEF IInv, MonitorAt, RowAt
    <2>3. row' \in RowType /\ events' \in Seq(States) /\ row'.state = "MEMORY" /\ row'.finished_at = "null"
      <3>1. ASSUME NEW pct \in Percents, Entered("MEMORY", 25 + (pct \div 2))
            PROVE  /\ row' \in RowType /\ events' \in Seq(States)
                   /\ row'.state = "MEMORY" /\ row'.finished_at = "null"
        <4>1. 25 + (pct \div 2) \in 0..100
          BY PercentsAssumption
        <4>2. "MEMORY" \in States /\ EngineTypeOK
          BY DEF IInv, TypeOK, States
        <4>3. row' \in RowType /\ events' \in Seq(States)
          BY <3>1, <4>1, <4>2, EnteredTypes
        <4> QED
          BY <2>2, <3>1, <4>3 DEF Entered
      <3>2. CASE UNCHANGED <<row, events>>
        BY <2>2, <3>2 DEF IInv, TypeOK, EngineTypeOK, RowType
      <3> QED
        BY <2>1, <3>1, <3>2
    <2>4. TypeOK'
      BY <2>1, <2>3 DEF IInv, TypeOK, EngineTypeOK, RowType
    <2>5. RowAt' /\ RowFailed' /\ MonitorAt'
      BY <2>1, <2>2, <2>3 DEF IInv, RowAt, RowFailed, MonitorAt, Undoing, Ended
    <2>6. DiskAt' /\ UndoAt'
      BY <2>1, <2>2 DEF IInv, DiskAt, UndoAt, Registered, Restored
    <2>7. SingleWriter' /\ DisksUnderGuest' /\ DeleteIsLast'
      BY <2>1, <2>2 DEF IInv, SingleWriter, DisksUnderGuest, DeleteIsLast
    <2> QED
      BY <2>4, <2>5, <2>6, <2>7 DEF IInv
  <1> QED
    BY <1>1, <1>2 DEF Monitor

LEMMA CutoverInv == IInv /\ Cutover /\ UNCHANGED tunnel => IInv'
  <1> SUFFICES ASSUME IInv, Cutover, UNCHANGED tunnel PROVE IInv'
    OBVIOUS
  <1> USE CountsAssumption
  <1>1. CASE EnterCutover
    <2>1. Transition("CUTOVER", 80, "flush")
      BY <1>1 DEF EnterCutover
    <2>2. /\ "CUTOVER" \in States \ {"FAILED"} /\ 80 \in 0..100
          /\ "flush" \in Labels \ (Undoing \cup {"migrate", "demote"})
          /\ pc \notin Undoing \cup Ended \cup {"migrate", "migrated", "migrate_failed"}
          /\ "flush" \in PostTunnel => pc \in PostTunnel
          /\ "flush" \in PostMove => pc \in PostMove
          /\ "flush" \in PostFlush => pc \in PostFlush
      BY <1>1 DEF EnterCutover, States, Labels, Undoing, Ended, PostTunnel, PostMove, PostFlush
    <2>3. Entered("CUTOVER", 80) /\ pc' = "flush" => RowAt'
      BY <1>1 DEF EnterCutover, Entered, IInv, RowAt, RowIs
    <2> QED
      BY <2>1, <2>2, <2>3, TransitionInv
  <1>2. CASE FlushImage
    BY <1>2
    DEF FlushImage, Goto, Continue, Raise, db, undo, ctx, disk, tunnel,
         IInv, TypeOK, EngineTypeOK, Labels, RowAt, RowIs, RowFailed, MonitorAt, DiskAt,
         UndoAt, Registered, Restored, SingleWriter, DisksUnderGuest, DeleteIsLast, PostFlush,
         PostMove, PostTunnel, Undoing, Ended, LiveHandlers, Images, Prefixes, States, Statuses, Roles
  <1>3. CASE DemoteImage
    <2> USE <1>3 DEF DemoteImage, Goto, Continue, Raise, db, undo, ctx, disk, tunnel
    <2>1. TypeOK'
      BY DEF IInv, TypeOK, EngineTypeOK, Labels, Roles, UndoAt, DiskAt, Images
    <2>2. RowAt' /\ RowFailed' /\ MonitorAt'
      BY DEF IInv, TypeOK, RowAt, RowIs, RowFailed, MonitorAt, Undoing, Ended
    <2>3. DiskAt'
      <3>1. src' \in {src, [src EXCEPT ![i] = "secondary"]} /\ src \in [Images -> Roles]
        BY DEF IInv, TypeOK, EngineTypeOK
      <3>2. \A m \in Images : src[m] = "secondary" => src'[m] = "secondary"
        BY <3>1
      <3>3. CASE pc' = "fail"
        BY <3>3 DEF IInv, DiskAt, PostMove, PostFlush
      <3>4. CASE pc' = "flush" /\ i' = i + 1 /\ src' = [src EXCEPT ![i] = "secondary"]
        <4>1. \A m \in Images : m < i + 1 => m < i \/ m = i
          BY DEF IInv, TypeOK, EngineTypeOK, Images
        <4>2. \A m \in Images : m < i' => src'[m] = "secondary"
          BY <3>1, <3>2, <3>4, <4>1 DEF IInv, DiskAt
        <4> QED
          BY <3>4, <4>2 DEF IInv, DiskAt, PostMove, PostFlush
      <3> QED
        BY <3>3, <3>4
    <2>4. UndoAt'
      BY DEF IInv, TypeOK, EngineTypeOK, UndoAt, Registered, Restored, Undoing, Ended, PostTunnel,
             PostMove, PostFlush, Images, RowFailed
    <2>5. SingleWriter' /\ DisksUnderGuest'
      BY DEF IInv, TypeOK, EngineTypeOK, SingleWriter, DisksUnderGuest, DiskAt, RowFailed, Undoing,
             PostMove, PostFlush
    <2>6. DeleteIsLast'
      BY DEF IInv, TypeOK, EngineTypeOK, DeleteIsLast, DiskAt, RowFailed, Undoing, PostFlush
    <2> QED
      BY <2>1, <2>2, <2>3, <2>4, <2>5, <2>6 DEF IInv
  <1>4. CASE FlushDone
    <2>1. /\ rollbacks \in Seq(LiveHandlers) /\ LiveHandlers \subseteq Handlers
          /\ rolled = 0 /\ "rollback_disk" \in LiveHandlers
      BY <1>4 DEF FlushDone, IInv, UndoAt, Undoing, LiveHandlers, Handlers
    <2>2. /\ rollbacks' \in Seq(LiveHandlers) /\ rollbacks' \in Seq(Handlers)
          /\ rolled \in 0..Len(rollbacks')
          /\ \A g : Registered(g) => Registered(g)'
          /\ pc' = "promote" => Registered("rollback_disk")'
          /\ \A n \in DOMAIN rollbacks' : ~(n > Len(rollbacks') - rolled)
      <3>1. CASE Register("rollback_disk")
        BY <2>1, <3>1, RegisterFacts DEF Registered
      <3>2. CASE rollbacks' = rollbacks /\ pc' = "fail"
        <4>1. Len(rollbacks) \in Nat /\ DOMAIN rollbacks = 1..Len(rollbacks)
          BY <2>1, LenProperties
        <4> QED
          BY <2>1, <3>2, <4>1, SeqMonotonic DEF Registered
      <3> QED
        BY <1>4, <3>1, <3>2 DEF FlushDone, Raise, Goto, undo
    <2>3. /\ pc' \in {"promote"} /\ i' = 1
          /\ UNCHANGED <<row, events, rolled, unrestored, seen, wiring, vm, src, dst, volumes,
                         routes, at, reports>>
          /\ pc = "flush" /\ i \notin Images /\ monitor' = monitor
      BY <1>4 DEF FlushDone, Goto, Raise, db, undo, ctx, disk, tunnel
    <2>4. TypeOK'
      BY <2>2, <2>3 DEF IInv, TypeOK, EngineTypeOK, Labels
    <2>5. RowAt' /\ RowFailed' /\ MonitorAt'
      BY <2>3 DEF IInv, RowAt, RowIs, RowFailed, MonitorAt, Undoing, Ended
    <2>6. DiskAt'
      BY <2>3 DEF IInv, TypeOK, EngineTypeOK, DiskAt, PostMove, PostFlush, Images
    <2>7. UndoAt'
      BY <2>1, <2>2, <2>3 DEF IInv, UndoAt, PostTunnel, PostMove, PostFlush, Undoing, Ended
    <2>8. SingleWriter' /\ DisksUnderGuest'
      BY <2>3 DEF IInv, SingleWriter, DisksUnderGuest
    <2>9. DeleteIsLast'
      BY <2>2, <2>3 DEF IInv, DeleteIsLast, Registered
    <2> QED
      BY <2>4, <2>5, <2>6, <2>7, <2>8, <2>9 DEF IInv
  <1>5. CASE PromoteImage
    <2> USE <1>5 DEF PromoteImage, Goto, Continue, Raise, db, undo, ctx, disk, tunnel
    <2>1. TypeOK'
      BY DEF IInv, TypeOK, EngineTypeOK, Labels, Roles, UndoAt, DiskAt, Images
    <2>2. RowAt' /\ RowFailed' /\ MonitorAt'
      BY DEF IInv, TypeOK, RowAt, RowIs, RowFailed, MonitorAt, Undoing, Ended
    <2>3. DiskAt'
      BY DEF IInv, TypeOK, EngineTypeOK, DiskAt, PostMove, PostFlush, Images
    <2>4. UndoAt'
      BY DEF IInv, TypeOK, EngineTypeOK, UndoAt, Registered, Restored, Undoing, Ended, PostTunnel,
             PostMove, PostFlush, Images, RowFailed
    <2>5. SingleWriter' /\ DisksUnderGuest'
      BY DEF IInv, TypeOK, EngineTypeOK, SingleWriter, DisksUnderGuest, DiskAt, RowFailed, Undoing,
             PostMove, PostFlush
    <2>6. DeleteIsLast'
      BY DEF IInv, TypeOK, EngineTypeOK, DeleteIsLast, DiskAt, RowFailed, Undoing, PostFlush
    <2> QED
      BY <2>1, <2>2, <2>3, <2>4, <2>5, <2>6 DEF IInv
  <1>6. CASE PromoteDone
    BY <1>6
    DEF PromoteDone, Goto, Continue, Raise, db, undo, ctx, disk, tunnel,
         IInv, TypeOK, EngineTypeOK, Labels, RowAt, RowIs, RowFailed, MonitorAt, DiskAt,
         UndoAt, Registered, Restored, SingleWriter, DisksUnderGuest, DeleteIsLast, PostFlush,
         PostMove, PostTunnel, Undoing, Ended, LiveHandlers, Images, Prefixes, States, Statuses, Roles
  <1> QED
    BY <1>1, <1>2, <1>3, <1>4, <1>5, <1>6 DEF Cutover

LEMMA BgpInv == IInv /\ Bgp /\ UNCHANGED tunnel => IInv'
  <1> SUFFICES ASSUME IInv, Bgp, UNCHANGED tunnel PROVE IInv'
    OBVIOUS
  <1> USE CountsAssumption
  <1>1. CASE EnterBgp
    <2>1. Transition("BGP", 90, "announce")
      BY <1>1 DEF EnterBgp
    <2>2. /\ "BGP" \in States \ {"FAILED"} /\ 90 \in 0..100
          /\ "announce" \in Labels \ (Undoing \cup {"migrate", "demote"})
          /\ pc \notin Undoing \cup Ended \cup {"migrate", "migrated", "migrate_failed"}
          /\ "announce" \in PostTunnel => pc \in PostTunnel
          /\ "announce" \in PostMove => pc \in PostMove
          /\ "announce" \in PostFlush => pc \in PostFlush
      BY <1>1 DEF EnterBgp, States, Labels, Undoing, Ended, PostTunnel, PostMove, PostFlush
    <2>3. Entered("BGP", 90) /\ pc' = "announce" => RowAt'
      BY <1>1 DEF EnterBgp, Entered, IInv, RowAt, RowIs
    <2> QED
      BY <2>1, <2>2, <2>3, TransitionInv
  <1>2. CASE AnnouncePrefix
    <2> USE <1>2 DEF AnnouncePrefix, Goto, Continue, Raise, db, undo, ctx, disk, tunnel
    <2>1. TypeOK'
      <3>1. routes' \in [{"source", "dest"} -> SUBSET Prefixes]
        BY DEF IInv, TypeOK, EngineTypeOK
      <3> QED
        BY <3>1 DEF IInv, TypeOK, EngineTypeOK, Labels
    <2>2. RowAt' /\ RowFailed' /\ MonitorAt'
      BY DEF IInv, TypeOK, RowAt, RowIs, RowFailed, MonitorAt, Undoing, Ended
    <2>3. DiskAt'
      BY DEF IInv, TypeOK, EngineTypeOK, DiskAt, PostMove, PostFlush, Images
    <2>4. UndoAt'
      BY DEF IInv, TypeOK, EngineTypeOK, UndoAt, Registered, Restored, Undoing, Ended, PostTunnel,
             PostMove, PostFlush, Images, RowFailed
    <2>5. SingleWriter' /\ DisksUnderGuest'
      BY DEF IInv, TypeOK, EngineTypeOK, SingleWriter, DisksUnderGuest, DiskAt, RowFailed, Undoing,
             PostMove, PostFlush
    <2>6. DeleteIsLast'
      BY DEF IInv, TypeOK, EngineTypeOK, DeleteIsLast, DiskAt, RowFailed, Undoing, PostFlush
    <2> QED
      BY <2>1, <2>2, <2>3, <2>4, <2>5, <2>6 DEF IInv
  <1>3. CASE AnnounceDone
    BY <1>3
    DEF AnnounceDone, Goto, Continue, Raise, db, undo, ctx, disk, tunnel,
         IInv, TypeOK, EngineTypeOK, Labels, RowAt, RowIs, RowFailed, MonitorAt, DiskAt,
         UndoAt, Registered, Restored, SingleWriter, DisksUnderGuest, DeleteIsLast, PostFlush,
         PostMove, PostTunnel, Undoing, Ended, LiveHandlers, Images, Prefixes, States, Statuses, Roles
  <1>4. CASE WithdrawPrefix
    <2> USE <1>4 DEF WithdrawPrefix, Goto, Continue, Raise, db, undo, ctx, disk, tunnel
    <2>1. TypeOK'
      <3>1. routes' \in [{"source", "dest"} -> SUBSET Prefixes]
        BY DEF IInv, TypeOK, EngineTypeOK
      <3> QED
        BY <3>1 DEF IInv, TypeOK, EngineTypeOK, Labels
    <2>2. RowAt' /\ RowFailed' /\ MonitorAt'
      BY DEF IInv, TypeOK, RowAt, RowIs, RowFailed, MonitorAt, Undoing, Ended
    <2>3. DiskAt'
      BY DEF IInv, TypeOK, EngineTypeOK, DiskAt, PostMove, PostFlush, Images
    <2>4. UndoAt'
      BY DEF IInv, TypeOK, EngineTypeOK, UndoAt, Registered, Restored, Undoing, Ended, PostTunnel,
             PostMove, PostFlush, Images, RowFailed
    <2>5. SingleWriter' /\ DisksUnderGuest'
      BY DEF IInv, TypeOK, EngineTypeOK, SingleWriter, DisksUnderGuest, DiskAt, RowFailed, Undoing,
             PostMove, PostFlush
    <2>6. DeleteIsLast'
      BY DEF IInv, TypeOK, EngineTypeOK, DeleteIsLast, DiskAt, RowFailed, Undoing, PostFlush
    <2> QED
      BY <2>1, <2>2, <2>3, <2>4, <2>5, <2>6 DEF IInv
  <1>5. CASE HandoffDone
    BY <1>5
    DEF HandoffDone, Goto, Continue, Raise, db, undo, ctx, disk, tunnel,
         IInv, TypeOK, EngineTypeOK, Labels, RowAt, RowIs, RowFailed, MonitorAt, DiskAt,
         UndoAt, Registered, Restored, SingleWriter, DisksUnderGuest, DeleteIsLast, PostFlush,
         PostMove, PostTunnel, Undoing, Ended, LiveHandlers, Images, Prefixes, States, Statuses, Roles
  <1> QED
    BY <1>1, <1>2, <1>3, <1>4, <1>5 DEF Bgp

LEMMA CleanupInv == IInv /\ Cleanup /\ UNCHANGED tunnel => IInv'
  <1> SUFFICES ASSUME IInv, Cleanup, UNCHANGED tunnel PROVE IInv'
    OBVIOUS
  <1> USE CountsAssumption
  <1>1. CASE EnterCleanup
    <2>1. Transition("CLEANUP", 96, "delete_vm")
      BY <1>1 DEF EnterCleanup
    <2>2. /\ "CLEANUP" \in States \ {"FAILED"} /\ 96 \in 0..100
          /\ "delete_vm" \in Labels \ (Undoing \cup {"migrate", "demote"})
          /\ pc \notin Undoing \cup Ended \cup {"migrate", "migrated", "migrate_failed"}
          /\ "delete_vm" \in PostTunnel => pc \in PostTunnel
          /\ "delete_vm" \in PostMove => pc \in PostMove
          /\ "delete_vm" \in PostFlush => pc \in PostFlush
      BY <1>1 DEF EnterCleanup, States, Labels, Undoing, Ended, PostTunnel, PostMove, PostFlush
    <2>3. Entered("CLEANUP", 96) /\ pc' = "delete_vm" => RowAt'
      BY <1>1 DEF EnterCleanup, Entered, IInv, RowAt, RowIs
    <2> QED
      BY <2>1, <2>2, <2>3, TransitionInv
  <1>2. CASE DeleteVM
    BY <1>2
    DEF DeleteVM, Goto, Continue, Raise, db, undo, ctx, disk, tunnel,
         IInv, TypeOK, EngineTypeOK, Labels, RowAt, RowIs, RowFailed, MonitorAt, DiskAt,
         UndoAt, Registered, Restored, SingleWriter, DisksUnderGuest, DeleteIsLast, PostFlush,
         PostMove, PostTunnel, Undoing, Ended, LiveHandlers, Images, Prefixes, States, Statuses, Roles
  <1>3. CASE Finish
    <2>1. Transition("DONE", 100, "returned")
      BY <1>3 DEF Finish
    <2>2. /\ "DONE" \in States \ {"FAILED"} /\ 100 \in 0..100
          /\ "returned" \in Labels \ (Undoing \cup {"migrate", "demote"})
          /\ pc \notin Undoing \cup Ended \cup {"migrate", "migrated", "migrate_failed"}
          /\ "returned" \in PostTunnel => pc \in PostTunnel
          /\ "returned" \in PostMove => pc \in PostMove
          /\ "returned" \in PostFlush => pc \in PostFlush
      BY <1>3 DEF Finish, States, Labels, Undoing, Ended, PostTunnel, PostMove, PostFlush
    <2>3. Entered("DONE", 100) /\ pc' = "returned" => RowAt'
      BY <1>3 DEF Finish, Entered, IInv, RowAt, RowIs
    <2> QED
      BY <2>1, <2>2, <2>3, TransitionInv
  <1> QED
    BY <1>1, <1>2, <1>3 DEF Cleanup

LEMMA RollbackInv == IInv /\ Rollback /\ UNCHANGED tunnel => IInv'
  <1> SUFFICES ASSUME IInv, Rollback, UNCHANGED tunnel PROVE IInv'
    OBVIOUS
  <1> USE CountsAssumption
  <1>1. CASE Fail
    <2> USE <1>1 DEF Fail, Goto, Continue, Raise, db, undo, ctx, disk, tunnel
    <2>1. TypeOK'
      <3>1. row' \in RowType
        BY DEF IInv, TypeOK, EngineTypeOK, States, RowType
      <3> QED
        BY <3>1 DEF IInv, TypeOK, EngineTypeOK, Labels, RowType
    <2>2. RowAt' /\ RowFailed' /\ MonitorAt'
      <3>1. row.state # "FAILED"
        BY DEF IInv, RowFailed, Undoing, Ended
      <3>2. pc' = "rollback" => row'.state = "FAILED"
        BY DEF IInv, TypeOK, EngineTypeOK
      <3>3. pc' \in {"rollback", "raised"} /\ monitor' = monitor
        OBVIOUS
      <3>4. MonitorAt'
        BY <3>3 DEF IInv, MonitorAt
      <3> QED
        BY <3>1, <3>2, <3>3, <3>4 DEF RowAt, RowFailed, Undoing, Ended
    <2>3. DiskAt'
      BY DEF IInv, TypeOK, EngineTypeOK, DiskAt, PostMove, PostFlush, Images
    <2>4. UndoAt'
      BY DEF IInv, TypeOK, EngineTypeOK, UndoAt, Registered, Restored, Undoing, Ended, PostTunnel,
             PostMove, PostFlush, Images, RowFailed
    <2>5. SingleWriter' /\ DisksUnderGuest'
      BY DEF IInv, TypeOK, EngineTypeOK, SingleWriter, DisksUnderGuest, DiskAt, RowFailed, Undoing,
             PostMove, PostFlush
    <2>6. DeleteIsLast'
      <3>1. row'.state = "FAILED" \/ row' = row
        BY DEF IInv, TypeOK, EngineTypeOK
      <3> QED
        BY <3>1 DEF IInv, DeleteIsLast
    <2> QED
      BY <2>1, <2>2, <2>3, <2>4, <2>5, <2>6 DEF IInv
  <1>2. CASE NextHandler
    BY <1>2
    DEF NextHandler, Goto, Continue, Raise, db, undo, ctx, disk, tunnel,
         IInv, TypeOK, EngineTypeOK, Labels, RowAt, RowIs, RowFailed, MonitorAt, DiskAt,
         UndoAt, Registered, Restored, SingleWriter, DisksUnderGuest, DeleteIsLast, PostFlush,
         PostMove, PostTunnel, Undoing, Ended, LiveHandlers, Images, Prefixes, States, Statuses, Roles
  <1>3. CASE RePromoteImage
    <2> USE <1>3 DEF RePromoteImage, Goto, Continue, Raise, db, undo, ctx, disk, tunnel
    <2>1. TypeOK'
      <3>1. src' \in [Images -> Roles] /\ unrestored' \subseteq Images
        BY DEF IInv, TypeOK, EngineTypeOK, Roles
      <3> QED
        BY <3>1 DEF IInv, TypeOK, EngineTypeOK, Labels
    <2>2. RowAt' /\ RowFailed' /\ MonitorAt'
      BY DEF IInv, TypeOK, RowAt, RowIs, RowFailed, MonitorAt, Undoing, Ended
    <2>3. DiskAt'
      BY DEF IInv, TypeOK, EngineTypeOK, DiskAt, PostMove, PostFlush, Images
    <2>4. UndoAt'
      BY DEF IInv, TypeOK, EngineTypeOK, UndoAt, Registered, Restored, Undoing, Ended, PostTunnel,
             PostMove, PostFlush, Images, RowFailed
    <2>5. SingleWriter' /\ DisksUnderGuest'
      BY DEF IInv, TypeOK, EngineTypeOK, SingleWriter, DisksUnderGuest, DiskAt, RowFailed, Undoing,
             PostMove, PostFlush
    <2>6. DeleteIsLast'
      BY DEF IInv, TypeOK, EngineTypeOK, DeleteIsLast, DiskAt, RowFailed, Undoing, PostFlush
    <2> QED
      BY <2>1, <2>2, <2>3, <2>4, <2>5, <2>6 DEF IInv
  <1>4. CASE RePromoteDone
    BY <1>4
    DEF RePromoteDone, HandlerEnds, Goto, Continue, Raise, db, undo, ctx, disk, tunnel,
         IInv, TypeOK, EngineTypeOK, Labels, RowAt, RowIs, RowFailed, MonitorAt, DiskAt,
         UndoAt, Registered, Restored, SingleWriter, DisksUnderGuest, DeleteIsLast, PostFlush,
         PostMove, PostTunnel, Undoing, Ended, LiveHandlers, Images, Prefixes, States, Statuses, Roles
  <1>5. CASE AbortTunnel
    BY <1>5
    DEF AbortTunnel, HandlerEnds, Goto, Continue, Raise, db, undo, ctx, disk, tunnel,
         IInv, TypeOK, EngineTypeOK, Labels, RowAt, RowIs, RowFailed, MonitorAt, DiskAt,
         UndoAt, Registered, Restored, SingleWriter, DisksUnderGuest, DeleteIsLast, PostFlush,
         PostMove, PostTunnel, Undoing, Ended, LiveHandlers, Images, Prefixes, States, Statuses, Roles
  <1>6. CASE RollbacksDone
    BY <1>6
    DEF RollbacksDone, Goto, Continue, Raise, db, undo, ctx, disk, tunnel,
         IInv, TypeOK, EngineTypeOK, Labels, RowAt, RowIs, RowFailed, MonitorAt, DiskAt,
         UndoAt, Registered, Restored, SingleWriter, DisksUnderGuest, DeleteIsLast, PostFlush,
         PostMove, PostTunnel, Undoing, Ended, LiveHandlers, Images, Prefixes, States, Statuses, Roles
  <1> QED
    BY <1>1, <1>2, <1>3, <1>4, <1>5, <1>6 DEF Rollback

LEMMA OwnerInv == IInv /\ OwnerActs /\ UNCHANGED tunnel => IInv'
  BY DEF OwnerActs, db, undo, ctx, disk, tunnel, Statuses, IInv, TypeOK, EngineTypeOK, RowAt, RowIs,
         RowFailed, MonitorAt, DiskAt, UndoAt, Registered, Restored, SingleWriter,
         DisksUnderGuest, DeleteIsLast

LEMMA StutterInv == IInv /\ UNCHANGED vars => IInv'
  BY DEF vars, engineVars, tunnel, IInv, TypeOK, EngineTypeOK, RowAt, RowIs, RowFailed, MonitorAt,
         DiskAt, UndoAt, Registered, Restored, SingleWriter, DisksUnderGuest, DeleteIsLast

LEMMA InitInv == Init => IInv
  <1> SUFFICES ASSUME Init PROVE IInv
    OBVIOUS
  <1> USE CountsAssumption, WiringsAssumption, MaxReportsAssumption DEF Init, EngineInit
  <1>1. TypeOK
    BY DEF TypeOK, EngineTypeOK, Labels, States, Statuses, Roles, Images, Prefixes
  <1>2. RowAt /\ RowFailed /\ MonitorAt
    BY DEF RowAt, RowIs, RowFailed, MonitorAt, Undoing
  <1>3. DiskAt
    BY DEF DiskAt, PostMove, PostFlush
  <1>4. UndoAt
    BY DEF UndoAt, PostTunnel, PostMove, PostFlush, Undoing
  <1>5. SingleWriter /\ DisksUnderGuest /\ DeleteIsLast
    BY DEF SingleWriter, DisksUnderGuest, DeleteIsLast
  <1> QED
    BY <1>1, <1>2, <1>3, <1>4, <1>5 DEF IInv

LEMMA StepInv == IInv /\ [Next]_vars => IInv'
  BY PreflightInv, DiskSyncInv, MemoryEndsInv, MemoryInv, MonitorInv, CutoverInv, BgpInv,
     CleanupInv, RollbackInv, OwnerInv, StutterInv
  DEF Next, Run, Returned

LEMMA Invariance == Spec => []IInv
  BY InitInv, StepInv, PTL DEF Spec

----------------------------------------------------------------------------
(* The invariants the runs check.                                          *)

\* Type correctness: the progress both tasks write stays within 0..100 and
\* _run_rollbacks inside the list of registered handlers.
THEOREM TypeCorrect == Spec => []TypeOK
  BY Invariance, PTL DEF IInv

\* _step_cutover demotes every image before it promotes one.
THEOREM SingleWriterHolds == Spec => []SingleWriter
  BY Invariance, PTL DEF IInv

\* Only _step_cutover takes an image from the guest, and tunnel.run() returned
\* normally before it.
THEOREM DisksUnderGuestHolds == Spec => []DisksUnderGuest
  BY Invariance, PTL DEF IInv

\* _step_cleanup deletes the source VM when nothing of it is needed any more.
THEOREM DeleteIsLastHolds == Spec => []DeleteIsLast
  BY Invariance, PTL DEF IInv

\* _run_rollbacks runs the cutover's handler although the tunnel's is registered
\* too, so it has gone through all images by the time run() returns.
THEOREM DisksRolledBackHolds == Spec => []DisksRolledBack
  <1>1. IInv => DisksRolledBack
    <2> SUFFICES ASSUME IInv, pc = "returned", row.state = "FAILED",
                        NEW n \in DOMAIN rollbacks, rollbacks[n] = "rollback_disk",
                        NEW m \in Images \ unrestored
                 PROVE  src[m] = "primary"
      BY DEF DisksRolledBack
    <2>1. rolled = Len(rollbacks) /\ rollbacks \in Seq(LiveHandlers)
      BY DEF IInv, UndoAt
    <2>2. n > Len(rollbacks) - rolled
      BY <2>1, LenProperties
    <2>3. Restored(m)
      BY <2>2 DEF IInv, UndoAt
    <2> QED
      BY <2>3 DEF Restored
  <1> QED
    BY <1>1, Invariance, PTL

----------------------------------------------------------------------------
(* Action properties and refinement.                                       *)

\* The steps that change the row, from what it says at each await; the one
\* inside MEMORY is the monitor's or the engine's last report.
RowMoves ==
    \/ RowIs("PENDING", 0) /\ Entered("PREFLIGHT", 5)
    \/ RowIs("PREFLIGHT", 5) /\ Entered("DISK", 15)
    \/ RowIs("DISK", 15) /\ Entered("MEMORY", 25)
    \/ row.state = "MEMORY" /\ row'.state = "MEMORY" /\ row'.finished_at = row.finished_at
    \/ RowIs("MEMORY", 75) /\ Entered("CUTOVER", 80)
    \/ RowIs("CUTOVER", 80) /\ Entered("BGP", 90)
    \/ RowIs("BGP", 90) /\ Entered("CLEANUP", 96)
    \/ RowIs("CLEANUP", 96) /\ Entered("DONE", 100)
    \/ /\ row.state # "FAILED"
       /\ row' = [row EXCEPT !.state = "FAILED", !.finished_at = "set"]

LEMMA RowSteps == IInv /\ [Next]_vars => RowMoves \/ UNCHANGED row
  <1> SUFFICES ASSUME IInv, Next PROVE RowMoves \/ UNCHANGED row
    BY DEF vars, engineVars
  <1>1. CASE EnterPreflight \/ EnterDisk \/ EnterMemory \/ EnterCutover \/ EnterBgp
             \/ EnterCleanup \/ Finish
    BY <1>1 DEF EnterPreflight, EnterDisk, EnterMemory, EnterCutover, EnterBgp, EnterCleanup,
                Finish, Transition, db, IInv, RowAt, RowMoves
  <1>2. CASE ReportDone
    BY <1>2 DEF ReportDone, Transition, Entered, db, IInv, RowAt, RowMoves
  <1>3. CASE MonitorReports
    <2>1. row.state = "MEMORY" /\ row.finished_at = "null"
      BY <1>3 DEF MonitorReports, IInv, MonitorAt, RowAt
    <2> QED
      BY <1>3, <2>1 DEF MonitorReports, Entered, db, RowMoves
  <1>4. CASE Fail
    BY <1>4 DEF Fail, IInv, RowFailed, Undoing, Ended, RowMoves
  <1>5. CASE OwnerActs \/ Returned
    BY <1>5 DEF OwnerActs, Returned, vars, engineVars, db
  <1>6. CASE GetVM \/ CheckImage \/ CheckDone \/ MirrorStatus \/ MirrorStatusDone
             \/ OpenTunnel \/ Migrate \/ MonitorJoined \/ MonitorPolls
    BY <1>6 DEF GetVM, CheckImage, CheckDone, MirrorStatus, MirrorStatusDone, OpenTunnel,
                Migrate, MonitorJoined, MonitorPolls, db
  <1>7. CASE FlushImage \/ DemoteImage \/ FlushDone \/ PromoteImage \/ PromoteDone
             \/ AnnouncePrefix \/ AnnounceDone \/ WithdrawPrefix \/ HandoffDone \/ DeleteVM
    BY <1>7 DEF FlushImage, DemoteImage, FlushDone, PromoteImage, PromoteDone, AnnouncePrefix,
                AnnounceDone, WithdrawPrefix, HandoffDone, DeleteVM, db
  <1>8. CASE NextHandler \/ RePromoteImage \/ RePromoteDone \/ AbortTunnel \/ RollbacksDone
    BY <1>8 DEF NextHandler, RePromoteImage, RePromoteDone, AbortTunnel, RollbacksDone, db
  <1> QED
    BY <1>1, <1>2, <1>3, <1>4, <1>5, <1>6, <1>7, <1>8
    DEF Next, Run, Preflight, DiskSync, Memory, Monitor, Cutover, Bgp, Cleanup, Rollback

\* When _fail has run the monitor has been awaited and the engine only undoes:
\* neither task writes the row or touches the guest again.
THEOREM NothingAfterFailedHolds == Spec => NothingAfterFailed
  <1> DEFINE A == row.state = "FAILED" =>
                    /\ row' = row
                    /\ at' = at
                    /\ dst' = dst
                    /\ \A m \in Images : src[m] = "primary" => src'[m] = "primary"
                    /\ vm' = "DELETED" => vm = "DELETED"
  <1>1. IInv /\ [Next]_vars => [A]_vars
    <2> SUFFICES ASSUME IInv, Next, row.state = "FAILED"
                 PROVE  A
      OBVIOUS
    <2>0. pc \in Undoing \cup Ended /\ monitor \notin {"waiting", "writing", "cancelled"}
      BY DEF IInv, RowFailed, MonitorAt, Undoing, Ended
    <2>1. CASE RePromoteImage /\ UNCHANGED tunnel
      <3>1. src' = src \/ src' = [src EXCEPT ![i] = "primary"]
        BY <2>1 DEF RePromoteImage
      <3>2. \A m \in Images : src[m] = "primary" => src'[m] = "primary"
        BY <3>1 DEF IInv, TypeOK, EngineTypeOK
      <3> QED
        BY <2>1, <3>2 DEF RePromoteImage, tunnel, db
    <2>2. CASE Rollback /\ ~RePromoteImage /\ UNCHANGED tunnel
      BY <2>0, <2>2 DEF Undoing, Ended, Rollback, Fail, NextHandler, RePromoteDone, AbortTunnel,
                        RollbacksDone, ctx, disk, db, tunnel
    <2>3. CASE OwnerActs /\ UNCHANGED tunnel
      BY <2>3 DEF OwnerActs, disk, db, tunnel
    <2>4. CASE Returned
      BY <2>4 DEF Returned, vars, engineVars, tunnel
    <2>5. /\ ~Preflight /\ ~DiskSync /\ ~EnterMemory /\ ~Memory /\ ~ReportDone
          /\ ~Cutover /\ ~Bgp /\ ~Cleanup /\ ~Monitor
      BY <2>0 DEF Undoing, Ended, Preflight, DiskSync, Memory, Cutover, Bgp, Cleanup, Monitor,
                  EnterPreflight, GetVM, CheckImage, CheckDone, EnterDisk, MirrorStatus,
                  MirrorStatusDone, EnterMemory, OpenTunnel, Migrate, MonitorJoined, ReportDone,
                  MonitorPolls, MonitorReports, EnterCutover, FlushImage, DemoteImage, FlushDone,
                  PromoteImage, PromoteDone, EnterBgp, AnnouncePrefix, AnnounceDone,
                  WithdrawPrefix, HandoffDone, EnterCleanup, DeleteVM, Finish
    <2> QED
      BY <2>1, <2>2, <2>3, <2>4, <2>5 DEF Next, Run
  <1>2. Spec => [][A]_vars
    BY <1>1, Invariance, PTL DEF Spec
  <1> QED
    BY <1>2 DEF NothingAfterFailed

\* The Migration row of a live migration, with its two writers, is an instance
\* of the abstract lifecycle.
THEOREM LiveImplementsLifecycle == Spec => ImplementsLifecycle
  <1> DEFINE ph == <<"PENDING", "PREFLIGHT", "DISK", "MEMORY", "CUTOVER", "BGP", "CLEANUP", "DONE">>
  <1>1. Init => Lifecycle!Init
    BY DEF Init, EngineInit, Lifecycle!Init
  <1>2. IInv /\ [Next]_vars => [Lifecycle!Next]_(<<row.state, row.finished_at = "set">>)
    <2> SUFFICES ASSUME IInv, [Next]_vars
                 PROVE  Lifecycle!Next \/ UNCHANGED <<row.state, row.finished_at = "set">>
      OBVIOUS
    <2>1. row \in [state : States, progress : 0..100, finished_at : {"null", "set"}]
      BY DEF IInv, TypeOK, EngineTypeOK
    <2>2. CASE UNCHANGED row
      BY <2>2
    <2>3. CASE row.state # "FAILED" /\ row' = [row EXCEPT !.state = "FAILED", !.finished_at = "set"]
      BY <2>1, <2>3 DEF Lifecycle!Next, Lifecycle!Fail
    <2>4. CASE row.state = "MEMORY" /\ row'.state = "MEMORY" /\ row'.finished_at = row.finished_at
      BY <2>4
    <2>5. ASSUME NEW n \in 2..8, row.state = ph[n - 1], row'.state = ph[n],
                 (row'.finished_at = "set") = (n = 8)
          PROVE  Lifecycle!Next
      BY <2>5 DEF Lifecycle!Next, Lifecycle!Advance
    <2>6. CASE RowIs("PENDING", 0) /\ Entered("PREFLIGHT", 5)
      BY <2>5, <2>6 DEF RowIs, Entered
    <2>7. CASE RowIs("PREFLIGHT", 5) /\ Entered("DISK", 15)
      BY <2>5, <2>7 DEF RowIs, Entered
    <2>8. CASE RowIs("DISK", 15) /\ Entered("MEMORY", 25)
      BY <2>5, <2>8 DEF RowIs, Entered
    <2>9. CASE RowIs("MEMORY", 75) /\ Entered("CUTOVER", 80)
      BY <2>5, <2>9 DEF RowIs, Entered
    <2>10. CASE RowIs("CUTOVER", 80) /\ Entered("BGP", 90)
      BY <2>5, <2>10 DEF RowIs, Entered
    <2>11. CASE RowIs("BGP", 90) /\ Entered("CLEANUP", 96)
      BY <2>5, <2>11 DEF RowIs, Entered
    <2>12. CASE RowIs("CLEANUP", 96) /\ Entered("DONE", 100)
      BY <2>5, <2>12 DEF RowIs, Entered
    <2> QED
      BY <2>2, <2>3, <2>4, <2>6, <2>7, <2>8, <2>9, <2>10, <2>11, <2>12, RowSteps DEF RowMoves
  <1> QED
    BY <1>1, <1>2, Invariance, PTL DEF Spec, ImplementsLifecycle, Lifecycle!Spec

\* What each step of the run shows to MigrationService. The monitor's reports show
\* nothing: the row said MEMORY before.
LEMMA RunSteps == IInv /\ [Next]_vars => RunMoves \/ UNCHANGED <<RunRow, RunAt>>
  <1> SUFFICES ASSUME IInv, Next PROVE RunMoves \/ UNCHANGED <<RunRow, RunAt>>
    BY DEF vars, engineVars, RunRow, RunAt
  <1> USE DEF RunMoves, RunAt, Handlers
  <1>1. CASE EnterPreflight
    BY <1>1 DEF EnterPreflight, Transition, Entered, Goto, Raise, db, IInv, RowAt, RowIs, RunRow, Shown
  <1>2. CASE EnterDisk \/ EnterMemory \/ ReportDone \/ EnterCutover \/ EnterBgp \/ EnterCleanup
    <2>1. /\ row'.finished_at = row.finished_at
          /\ {row.state, row'.state} \cap {"PENDING", "DONE", "FAILED"} = {}
      BY <1>2 DEF EnterDisk, EnterMemory, ReportDone, EnterCutover, EnterBgp, EnterCleanup,
                  Transition, Entered, db, IInv, RowAt, RowIs
    <2>2. UNCHANGED RunRow
      BY <2>1 DEF RunRow
    <2> QED
      BY <1>2, <2>2 DEF EnterDisk, EnterMemory, ReportDone, EnterCutover, EnterBgp, EnterCleanup,
                        Transition, Goto, Raise
  <1>3. CASE Finish
    <2>1. ASSUME Entered("DONE", 100) PROVE Shown("DONE", TRUE)
      <3>1. row'.state = "DONE" /\ (row'.finished_at = "set") = TRUE
        BY <2>1 DEF Entered
      <3> QED
        BY <3>1 DEF RunRow, Shown
    <2> QED
      BY <1>3, <2>1 DEF Finish, Transition, Goto, Raise, db, RunRow
  <1>4. CASE Fail
    <2>1. ASSUME row' = [row EXCEPT !.state = "FAILED", !.finished_at = "set"]
          PROVE  Shown("FAILED", TRUE)
      BY <2>1 DEF IInv, TypeOK, EngineTypeOK, RunRow, Shown
    <2> QED
      BY <1>4, <2>1 DEF Fail, Goto, RunRow
  <1>5. CASE MonitorReports
    <2>1. row.state = "MEMORY" /\ row.finished_at = "null"
      BY <1>5 DEF MonitorReports, IInv, MonitorAt, RowAt
    <2>2. row'.state = "MEMORY" /\ row'.finished_at = "null"
      BY <1>5, <2>1 DEF MonitorReports, Entered, db
    <2>3. UNCHANGED RunRow
      BY <2>1, <2>2 DEF RunRow
    <2> QED
      BY <1>5, <2>3 DEF MonitorReports
  <1>6. CASE OwnerActs \/ Returned \/ MonitorPolls
    BY <1>6 DEF OwnerActs, Returned, MonitorPolls, vars, engineVars, db, RunRow
  <1>7. CASE GetVM \/ CheckImage \/ CheckDone \/ MirrorStatus \/ MirrorStatusDone
             \/ OpenTunnel \/ Migrate \/ MonitorJoined
    BY <1>7 DEF GetVM, CheckImage, CheckDone, MirrorStatus, MirrorStatusDone, OpenTunnel,
                Migrate, MonitorJoined, Goto, Continue, Raise, db, RunRow
  <1>8. CASE FlushImage \/ DemoteImage \/ FlushDone \/ PromoteImage \/ PromoteDone
             \/ AnnouncePrefix \/ AnnounceDone \/ WithdrawPrefix \/ HandoffDone \/ DeleteVM
    BY <1>8 DEF FlushImage, DemoteImage, FlushDone, PromoteImage, PromoteDone, AnnouncePrefix,
                AnnounceDone, WithdrawPrefix, HandoffDone, DeleteVM, Goto, Continue, Raise, db, RunRow
  <1>9. CASE NextHandler
    <2>1. rollbacks[Len(rollbacks) - rolled] \in Handlers
      BY <1>9 DEF NextHandler, IInv, TypeOK, EngineTypeOK
    <2> QED
      BY <1>9, <2>1 DEF NextHandler, Goto, db, RunRow
  <1>10. CASE RePromoteImage \/ RePromoteDone \/ AbortTunnel \/ RollbacksDone
    BY <1>10 DEF RePromoteImage, RePromoteDone, AbortTunnel, RollbacksDone, HandlerEnds, Goto,
                 Continue, db, RunRow
  <1> QED
    BY <1>1, <1>2, <1>3, <1>4, <1>5, <1>6, <1>7, <1>8, <1>9, <1>10
    DEF Next, Run, Preflight, DiskSync, Memory, Monitor, Cutover, Bgp, Cleanup, Rollback

\* A live migration, its monitor included, is the run that MigrationService starts,
\* retries and aborts.
THEOREM LiveIsServiceRun == Spec => IsServiceRun
  <1> DEFINE A == Service!AgentRuns("m")
  <1>1. Init => RunAt = "begin" /\ RunRow = [state |-> "PENDING", finished |-> FALSE]
    BY RunInit DEF Init
  <1>2. IInv /\ [Next]_vars => [A]_<<RunRow, RunAt>>
    BY RunSteps, ServiceStep
  <1>3. Spec => [][A]_<<RunRow, RunAt>>
    BY <1>2, Invariance, PTL DEF Spec
  <1> QED
    BY <1>1, <1>3, PTL DEF Spec, IsServiceRun
============================================================================
