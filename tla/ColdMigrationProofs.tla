------------------------ MODULE ColdMigrationProofs ------------------------
(***************************************************************************)
(* Theorems about ColdMigration for any number of images and prefixes and  *)
(* any wiring of the peer stubs.                                           *)
(***************************************************************************)
EXTENDS ColdMigration, MigrationEngineProofs

PostVolumes == {"bgp", "announce", "withdraw", "cleanup", "delete_vm", "done"}
PostDemote  == PostVolumes \cup {"promote", "promoted", "cutover", "volume"}
Undoing     == {"rollback", "rollback_disk", "rollback_bgp", "rollback_announce"}

Registered == \E n \in DOMAIN rollbacks : rollbacks[n] = "rollback_disk"
Restored(m) == m \in unrestored \/ src[m] = "primary"

\* What the row says at each await of the way forward.
RowIs(state, progress) ==
    row = [state |-> state, progress |-> progress, finished_at |-> "null"]

RowAt ==
    /\ pc = "preflight" => RowIs("PENDING", 0)
    /\ pc \in {"get_vm", "check", "disk"} => RowIs("PREFLIGHT", 5)
    /\ pc \in {"stop_vm", "sync", "demote", "promote", "promoted"} => RowIs("DISK", 20)
    /\ pc = "cutover" => RowIs("DISK", 50)
    /\ pc \in {"volume", "bgp"} => RowIs("CUTOVER", 70)
    /\ pc \in {"announce", "withdraw", "cleanup"} => RowIs("BGP", 85)
    /\ pc \in {"delete_vm", "done"} => RowIs("CLEANUP", 95)

\* The row is FAILED exactly while and after the handlers run.
RowFailed ==
    /\ pc \in Undoing => row.state = "FAILED"
    /\ row.state = "FAILED" => pc \in Undoing \cup {"returned", "raised"}

\* What the loops over the images have done.
DiskAt ==
    /\ pc = "demote" => \A m \in Images : m < i => src[m] = "secondary"
    /\ pc \in PostDemote /\ wiring.dest => \A m \in Images : src[m] = "secondary"
    /\ ~wiring.dest => \A m \in Images : dst[m] = "secondary"
    /\ pc = "volume" => \A m \in Images : m < i => m \in volumes
    /\ pc \in PostVolumes => volumes = Images

\* Which handlers are registered, which one runs, what those that ran did.
UndoAt ==
    /\ rollbacks \in Seq({"rollback_disk", "rollback_bgp"})
    /\ pc \in PostDemote => Registered
    /\ pc \notin Undoing \cup {"returned"} => rolled = 0
    /\ pc \in Undoing \ {"rollback"} => rolled < Len(rollbacks)
    /\ pc \in {"rollback_bgp", "rollback_announce"} =>
           rollbacks[Len(rollbacks) - rolled] = "rollback_bgp"
    /\ pc = "rollback_announce" => i \in Prefixes
    /\ pc = "rollback_disk" => \A m \in Images : m < i => Restored(m)
    /\ \A n \in DOMAIN rollbacks :
           n > Len(rollbacks) - rolled /\ rollbacks[n] = "rollback_disk"
               => \A m \in Images : Restored(m)
    /\ pc = "returned" /\ row.state = "FAILED" => rolled = Len(rollbacks)

IInv ==
    /\ TypeOK
    /\ RowAt
    /\ RowFailed
    /\ DiskAt
    /\ UndoAt
    /\ SingleWriter
    /\ DeleteIsLast

----------------------------------------------------------------------------
(* The steps: one lemma per phase, one case per action.                     *)

LEMMA PreflightInv == IInv /\ Preflight => IInv'
  <1> SUFFICES ASSUME IInv, Preflight PROVE IInv'
    OBVIOUS
  <1> USE CountsAssumption
  <1>1. CASE EnterPreflight
    <2> USE <1>1 DEF EnterPreflight, Transition, Entered, Goto, Continue, Raise, db, undo, ctx, disk
    <2>1. TypeOK'
      <3>1. Transition("PREFLIGHT", 5, "get_vm") /\ "PREFLIGHT" \in States /\ 5 \in 0..100
        BY DEF States
      <3> QED
        BY <3>1, TransitionTypes DEF IInv, TypeOK, Labels
    <2>2. RowAt'
      <3>1. CASE Raise
        BY <3>1 DEF RowAt
      <3>2. CASE Entered("PREFLIGHT", 5) /\ Goto("get_vm")
        BY <3>2 DEF IInv, RowAt, RowIs
      <3> QED
        BY <3>1, <3>2
    <2>3. RowFailed'
      BY DEF IInv, TypeOK, EngineTypeOK, RowAt, RowIs, RowFailed, Undoing, UndoAt
    <2>4. DiskAt'
      BY DEF IInv, TypeOK, EngineTypeOK, DiskAt, PostDemote, PostVolumes, Images, UndoAt
    <2>5. UndoAt'
      BY DEF IInv, TypeOK, EngineTypeOK, UndoAt, Registered, Restored, Undoing, PostDemote, PostVolumes,
                Images, RowFailed
    <2>6. SingleWriter'
      BY DEF IInv, TypeOK, EngineTypeOK, SingleWriter, DiskAt, RowFailed, RowAt, RowIs, Undoing,
                PostDemote
    <2>7. DeleteIsLast'
      BY DEF IInv, TypeOK, EngineTypeOK, DeleteIsLast, DiskAt, UndoAt, Registered, RowFailed, Undoing,
                PostDemote, PostVolumes, Statuses, RowAt, RowIs
    <2> QED
      BY <2>1, <2>2, <2>3, <2>4, <2>5, <2>6, <2>7 DEF IInv
  <1>2. CASE GetVM
    BY <1>2
    DEF GetVM, Goto, Continue, Raise, db, undo, ctx, disk,
              IInv, TypeOK, EngineTypeOK, Labels, RowAt, RowIs, RowFailed, DiskAt, UndoAt, Registered,
              Restored, SingleWriter, DeleteIsLast, PostVolumes, PostDemote, Undoing, States,
              Statuses, Roles, Handlers, Images, Prefixes
  <1>3. CASE CheckImage
    BY <1>3
    DEF CheckImage, Goto, Continue, Raise, db, undo, ctx, disk,
              IInv, TypeOK, EngineTypeOK, Labels, RowAt, RowIs, RowFailed, DiskAt, UndoAt, Registered,
              Restored, SingleWriter, DeleteIsLast, PostVolumes, PostDemote, Undoing, States,
              Statuses, Roles, Handlers, Images, Prefixes
  <1>4. CASE CheckDone
    BY <1>4
    DEF CheckDone, Goto, Continue, Raise, db, undo, ctx, disk,
              IInv, TypeOK, EngineTypeOK, Labels, RowAt, RowIs, RowFailed, DiskAt, UndoAt, Registered,
              Restored, SingleWriter, DeleteIsLast, PostVolumes, PostDemote, Undoing, States,
              Statuses, Roles, Handlers, Images, Prefixes
  <1> QED
    BY <1>1, <1>2, <1>3, <1>4 DEF Preflight

LEMMA DiskInv == IInv /\ Disk => IInv'
  <1> SUFFICES ASSUME IInv, Disk PROVE IInv'
    OBVIOUS
  <1> USE CountsAssumption
  <1>1. CASE EnterDisk
    <2> USE <1>1 DEF EnterDisk, Transition, Entered, Goto, Continue, Raise, db, undo, ctx, disk
    <2>1. TypeOK'
      <3>1. Transition("DISK", 20, "stop_vm") /\ "DISK" \in States /\ 20 \in 0..100
        BY DEF States
      <3> QED
        BY <3>1, TransitionTypes DEF IInv, TypeOK, Labels
    <2>2. RowAt'
      <3>1. CASE Raise
        BY <3>1 DEF RowAt
      <3>2. CASE Entered("DISK", 20) /\ Goto("stop_vm")
        BY <3>2 DEF IInv, RowAt, RowIs
      <3> QED
        BY <3>1, <3>2
    <2>3. RowFailed'
      BY DEF IInv, TypeOK, EngineTypeOK, RowAt, RowIs, RowFailed, Undoing, UndoAt
    <2>4. DiskAt'
      BY DEF IInv, TypeOK, EngineTypeOK, DiskAt, PostDemote, PostVolumes, Images, UndoAt
    <2>5. UndoAt'
      BY DEF IInv, TypeOK, EngineTypeOK, UndoAt, Registered, Restored, Undoing, PostDemote, PostVolumes,
                Images, RowFailed
    <2>6. SingleWriter'
      BY DEF IInv, TypeOK, EngineTypeOK, SingleWriter, DiskAt, RowFailed, RowAt, RowIs, Undoing,
                PostDemote
    <2>7. DeleteIsLast'
      BY DEF IInv, TypeOK, EngineTypeOK, DeleteIsLast, DiskAt, UndoAt, Registered, RowFailed, Undoing,
                PostDemote, PostVolumes, Statuses, RowAt, RowIs
    <2> QED
      BY <2>1, <2>2, <2>3, <2>4, <2>5, <2>6, <2>7 DEF IInv
  <1>2. CASE StopVM
    BY <1>2
    DEF StopVM, Goto, Continue, Raise, db, undo, ctx, disk,
              IInv, TypeOK, EngineTypeOK, Labels, RowAt, RowIs, RowFailed, DiskAt, UndoAt, Registered,
              Restored, SingleWriter, DeleteIsLast, PostVolumes, PostDemote, Undoing, States,
              Statuses, Roles, Handlers, Images, Prefixes
  <1>3. CASE SyncImage
    BY <1>3
    DEF SyncImage, Goto, Continue, Raise, db, undo, ctx, disk,
              IInv, TypeOK, EngineTypeOK, Labels, RowAt, RowIs, RowFailed, DiskAt, UndoAt, Registered,
              Restored, SingleWriter, DeleteIsLast, PostVolumes, PostDemote, Undoing, States,
              Statuses, Roles, Handlers, Images, Prefixes
  <1>4. CASE SyncDone
    BY <1>4
    DEF SyncDone, Goto, Continue, Raise, db, undo, ctx, disk,
              IInv, TypeOK, EngineTypeOK, Labels, RowAt, RowIs, RowFailed, DiskAt, UndoAt, Registered,
              Restored, SingleWriter, DeleteIsLast, PostVolumes, PostDemote, Undoing, States,
              Statuses, Roles, Handlers, Images, Prefixes
  <1>5. CASE DemoteImage
    <2> USE <1>5 DEF DemoteImage, Goto, Continue, Raise, db, undo, ctx, disk
    <2>1. TypeOK'
      BY DEF IInv, TypeOK, EngineTypeOK, Labels, Roles, UndoAt, Images
    <2>2. RowAt'
      BY DEF IInv, TypeOK, RowAt, RowIs, Labels, UndoAt, Undoing
    <2>3. RowFailed'
      BY DEF IInv, TypeOK, EngineTypeOK, RowAt, RowIs, RowFailed, Undoing, UndoAt
    <2>4. DiskAt'
      BY DEF IInv, TypeOK, EngineTypeOK, DiskAt, PostDemote, PostVolumes, Images, UndoAt
    <2>5. UndoAt'
      BY DEF IInv, TypeOK, EngineTypeOK, UndoAt, Registered, Restored, Undoing, PostDemote, PostVolumes,
                Images, RowFailed
    <2>6. SingleWriter'
      BY DEF IInv, TypeOK, EngineTypeOK, SingleWriter, DiskAt, RowFailed, RowAt, RowIs, Undoing,
                PostDemote
    <2>7. DeleteIsLast'
      BY DEF IInv, TypeOK, EngineTypeOK, DeleteIsLast, DiskAt, UndoAt, Registered, RowFailed, Undoing,
                PostDemote, PostVolumes, Statuses, RowAt, RowIs
    <2> QED
      BY <2>1, <2>2, <2>3, <2>4, <2>5, <2>6, <2>7 DEF IInv
  <1>6. CASE DemoteDone
    <2> USE <1>6 DEF DemoteDone, Register, Goto, Continue, Raise, db, undo, ctx, disk
    <2>1. TypeOK'
      <3>1. /\ rollbacks \in Seq({"rollback_disk", "rollback_bgp"})
            /\ {"rollback_disk", "rollback_bgp"} \subseteq Handlers
            /\ rolled = 0
        BY DEF IInv, UndoAt, Undoing, Handlers
      <3>2. Register("rollback_disk")
        OBVIOUS
      <3> HIDE DEF Register
      <3>3. rollbacks' \in Seq(Handlers) /\ rolled \in 0..Len(rollbacks')
        BY <3>1, <3>2, RegisterFacts DEF Registered
      <3> QED
        BY <3>3 DEF IInv, TypeOK, EngineTypeOK, Labels
    <2>2. RowAt'
      BY DEF IInv, TypeOK, RowAt, RowIs, Labels, UndoAt, Undoing
    <2>3. RowFailed'
      BY DEF IInv, TypeOK, EngineTypeOK, RowAt, RowIs, RowFailed, Undoing, UndoAt
    <2>4. DiskAt'
      BY DEF IInv, TypeOK, EngineTypeOK, DiskAt, PostDemote, PostVolumes, Images, UndoAt
    <2>5. UndoAt'
      <3>1. /\ rollbacks \in Seq({"rollback_disk", "rollback_bgp"})
            /\ {"rollback_disk", "rollback_bgp"} \subseteq Handlers
            /\ rolled = 0
        BY DEF IInv, UndoAt, Undoing, Handlers
      <3>2. Register("rollback_disk")
        OBVIOUS
      <3> HIDE DEF Register
      <3>3. /\ rollbacks' \in Seq({"rollback_disk", "rollback_bgp"})
            /\ Registered'
            /\ \A n \in DOMAIN rollbacks' : ~(n > Len(rollbacks') - rolled')
        BY <3>1, <3>2, RegisterFacts DEF Registered
      <3>4. pc' = "promote" /\ rolled' = 0
        BY <3>1
      <3> QED
        BY <3>3, <3>4 DEF UndoAt, Undoing, PostDemote, PostVolumes
    <2>6. SingleWriter'
      BY DEF IInv, TypeOK, EngineTypeOK, SingleWriter, DiskAt, RowFailed, RowAt, RowIs, Undoing,
                PostDemote
    <2>7. DeleteIsLast'
      <3>1. pc' = "promote" /\ UNCHANGED <<row, wiring, vm, src, volumes>>
        OBVIOUS
      <3>2. Registered'
        BY <2>5, <3>1 DEF UndoAt, PostDemote, PostVolumes
      <3> QED
        BY <3>1, <3>2 DEF IInv, DeleteIsLast, Registered
    <2> QED
      BY <2>1, <2>2, <2>3, <2>4, <2>5, <2>6, <2>7 DEF IInv
  <1>7. CASE PromoteImage
    <2> USE <1>7 DEF PromoteImage, Goto, Continue, Raise, db, undo, ctx, disk
    <2>1. TypeOK'
      BY DEF IInv, TypeOK, EngineTypeOK, Labels, Roles, UndoAt, Images
    <2>2. RowAt'
      BY DEF IInv, TypeOK, RowAt, RowIs, Labels, UndoAt, Undoing
    <2>3. RowFailed'
      BY DEF IInv, TypeOK, EngineTypeOK, RowAt, RowIs, RowFailed, Undoing, UndoAt
    <2>4. DiskAt'
      BY DEF IInv, TypeOK, EngineTypeOK, DiskAt, PostDemote, PostVolumes, Images, UndoAt
    <2>5. UndoAt'
      BY DEF IInv, TypeOK, EngineTypeOK, UndoAt, Registered, Restored, Undoing, PostDemote, PostVolumes,
                Images, RowFailed
    <2>6. SingleWriter'
      BY DEF IInv, TypeOK, EngineTypeOK, SingleWriter, DiskAt, RowFailed, RowAt, RowIs, Undoing,
                PostDemote
    <2>7. DeleteIsLast'
      BY DEF IInv, TypeOK, EngineTypeOK, DeleteIsLast, DiskAt, UndoAt, Registered, RowFailed, Undoing,
                PostDemote, PostVolumes, Statuses, RowAt, RowIs
    <2> QED
      BY <2>1, <2>2, <2>3, <2>4, <2>5, <2>6, <2>7 DEF IInv
  <1>8. CASE PromoteDone
    BY <1>8
    DEF PromoteDone, Goto, Continue, Raise, db, undo, ctx, disk,
              IInv, TypeOK, EngineTypeOK, Labels, RowAt, RowIs, RowFailed, DiskAt, UndoAt, Registered,
              Restored, SingleWriter, DeleteIsLast, PostVolumes, PostDemote, Undoing, States,
              Statuses, Roles, Handlers, Images, Prefixes
  <1>9. CASE DiskMoved
    <2> USE <1>9 DEF DiskMoved, Transition, Entered, Goto, Continue, Raise, db, undo, ctx, disk
    <2>1. TypeOK'
      <3>1. Transition("DISK", 50, "cutover") /\ "DISK" \in States /\ 50 \in 0..100
        BY DEF States
      <3> QED
        BY <3>1, TransitionTypes DEF IInv, TypeOK, Labels
    <2>2. RowAt'
      <3>1. CASE Raise
        BY <3>1 DEF RowAt
      <3>2. CASE Entered("DISK", 50) /\ Goto("cutover")
        BY <3>2 DEF IInv, RowAt, RowIs
      <3> QED
        BY <3>1, <3>2
    <2>3. RowFailed'
      BY DEF IInv, TypeOK, EngineTypeOK, RowAt, RowIs, RowFailed, Undoing, UndoAt
    <2>4. DiskAt'
      BY DEF IInv, TypeOK, EngineTypeOK, DiskAt, PostDemote, PostVolumes, Images, UndoAt
    <2>5. UndoAt'
      BY DEF IInv, TypeOK, EngineTypeOK, UndoAt, Registered, Restored, Undoing, PostDemote, PostVolumes,
                Images, RowFailed
    <2>6. SingleWriter'
      BY DEF IInv, TypeOK, EngineTypeOK, SingleWriter, DiskAt, RowFailed, RowAt, RowIs, Undoing,
                PostDemote
    <2>7. DeleteIsLast'
      BY DEF IInv, TypeOK, EngineTypeOK, DeleteIsLast, DiskAt, UndoAt, Registered, RowFailed, Undoing,
                PostDemote, PostVolumes, Statuses, RowAt, RowIs
    <2> QED
      BY <2>1, <2>2, <2>3, <2>4, <2>5, <2>6, <2>7 DEF IInv
  <1> QED
    BY <1>1, <1>2, <1>3, <1>4, <1>5, <1>6, <1>7, <1>8, <1>9 DEF Disk

LEMMA CutoverInv == IInv /\ Cutover => IInv'
  <1> SUFFICES ASSUME IInv, Cutover PROVE IInv'
    OBVIOUS
  <1> USE CountsAssumption
  <1>1. CASE EnterCutover
    <2> USE <1>1 DEF EnterCutover, Transition, Entered, Goto, Continue, Raise, db, undo, ctx, disk
    <2>1. TypeOK'
      <3>1. Transition("CUTOVER", 70, "volume") /\ "CUTOVER" \in States /\ 70 \in 0..100
        BY DEF States
      <3> QED
        BY <3>1, TransitionTypes DEF IInv, TypeOK, Labels
    <2>2. RowAt'
      <3>1. CASE Raise
        BY <3>1 DEF RowAt
      <3>2. CASE Entered("CUTOVER", 70) /\ Goto("volume")
        BY <3>2 DEF IInv, RowAt, RowIs
      <3> QED
        BY <3>1, <3>2
    <2>3. RowFailed'
      BY DEF IInv, TypeOK, EngineTypeOK, RowAt, RowIs, RowFailed, Undoing, UndoAt
    <2>4. DiskAt'
      BY DEF IInv, TypeOK, EngineTypeOK, DiskAt, PostDemote, PostVolumes, Images, UndoAt
    <2>5. UndoAt'
      BY DEF IInv, TypeOK, EngineTypeOK, UndoAt, Registered, Restored, Undoing, PostDemote, PostVolumes,
                Images, RowFailed
    <2>6. SingleWriter'
      BY DEF IInv, TypeOK, EngineTypeOK, SingleWriter, DiskAt, RowFailed, RowAt, RowIs, Undoing,
                PostDemote
    <2>7. DeleteIsLast'
      BY DEF IInv, TypeOK, EngineTypeOK, DeleteIsLast, DiskAt, UndoAt, Registered, RowFailed, Undoing,
                PostDemote, PostVolumes, Statuses, RowAt, RowIs
    <2> QED
      BY <2>1, <2>2, <2>3, <2>4, <2>5, <2>6, <2>7 DEF IInv
  <1>2. CASE CreateVolume
    <2> USE <1>2 DEF CreateVolume, Goto, Continue, Raise, db, undo, ctx, disk
    <2>1. TypeOK'
      <3>1. volumes' \subseteq Images
        BY DEF IInv, TypeOK, EngineTypeOK
      <3> QED
        BY <3>1 DEF IInv, TypeOK, EngineTypeOK, Labels
    <2>2. RowAt'
      BY DEF IInv, TypeOK, RowAt, RowIs, Labels, UndoAt, Undoing
    <2>3. RowFailed'
      BY DEF IInv, TypeOK, EngineTypeOK, RowAt, RowIs, RowFailed, Undoing, UndoAt
    <2>4. DiskAt'
      BY DEF IInv, TypeOK, EngineTypeOK, DiskAt, PostDemote, PostVolumes, Images, UndoAt
    <2>5. UndoAt'
      BY DEF IInv, TypeOK, EngineTypeOK, UndoAt, Registered, Restored, Undoing, PostDemote, PostVolumes,
                Images, RowFailed
    <2>6. SingleWriter'
      BY DEF IInv, TypeOK, EngineTypeOK, SingleWriter, DiskAt, RowFailed, RowAt, RowIs, Undoing,
                PostDemote
    <2>7. DeleteIsLast'
      <3>1. UNCHANGED <<row, rollbacks, wiring, vm, src>> /\ i \in Images
        OBVIOUS
      <3>2. volumes = Images => volumes' = Images
        BY DEF IInv, TypeOK, EngineTypeOK
      <3> QED
        BY <3>1, <3>2 DEF IInv, DeleteIsLast
    <2> QED
      BY <2>1, <2>2, <2>3, <2>4, <2>5, <2>6, <2>7 DEF IInv
  <1>3. CASE CreateVolumesDone
    <2> USE <1>3 DEF CreateVolumesDone, Goto, Continue, Raise, db, undo, ctx, disk
    <2>1. TypeOK'
      BY DEF IInv, TypeOK, EngineTypeOK, Labels, Roles, UndoAt, Images
    <2>2. RowAt'
      BY DEF IInv, TypeOK, RowAt, RowIs, Labels, UndoAt, Undoing
    <2>3. RowFailed'
      BY DEF IInv, TypeOK, EngineTypeOK, RowAt, RowIs, RowFailed, Undoing, UndoAt
    <2>4. DiskAt'
      <3>1. \A m \in Images : m < i
        BY DEF IInv, TypeOK, EngineTypeOK, Images
      <3>2. volumes = Images
        BY <3>1 DEF IInv, TypeOK, EngineTypeOK, DiskAt
      <3> QED
        BY <3>2 DEF IInv, DiskAt, PostDemote, PostVolumes
    <2>5. UndoAt'
      BY DEF IInv, TypeOK, EngineTypeOK, UndoAt, Registered, Restored, Undoing, PostDemote, PostVolumes,
                Images, RowFailed
    <2>6. SingleWriter'
      BY DEF IInv, TypeOK, EngineTypeOK, SingleWriter, DiskAt, RowFailed, RowAt, RowIs, Undoing,
                PostDemote
    <2>7. DeleteIsLast'
      BY DEF IInv, TypeOK, EngineTypeOK, DeleteIsLast, DiskAt, UndoAt, Registered, RowFailed, Undoing,
                PostDemote, PostVolumes, Statuses, RowAt, RowIs
    <2> QED
      BY <2>1, <2>2, <2>3, <2>4, <2>5, <2>6, <2>7 DEF IInv
  <1> QED
    BY <1>1, <1>2, <1>3 DEF Cutover

LEMMA BgpInv == IInv /\ Bgp => IInv'
  <1> SUFFICES ASSUME IInv, Bgp PROVE IInv'
    OBVIOUS
  <1> USE CountsAssumption
  <1>1. CASE EnterBgp
    <2> USE <1>1 DEF EnterBgp, Transition, Entered, Goto, Continue, Raise, db, undo, ctx, disk
    <2>1. TypeOK'
      <3>1. Transition("BGP", 85, "announce") /\ "BGP" \in States /\ 85 \in 0..100
        BY DEF States
      <3> QED
        BY <3>1, TransitionTypes DEF IInv, TypeOK, Labels
    <2>2. RowAt'
      <3>1. CASE Raise
        BY <3>1 DEF RowAt
      <3>2. CASE Entered("BGP", 85) /\ Goto("announce")
        BY <3>2 DEF IInv, RowAt, RowIs
      <3> QED
        BY <3>1, <3>2
    <2>3. RowFailed'
      BY DEF IInv, TypeOK, EngineTypeOK, RowAt, RowIs, RowFailed, Undoing, UndoAt
    <2>4. DiskAt'
      BY DEF IInv, TypeOK, EngineTypeOK, DiskAt, PostDemote, PostVolumes, Images, UndoAt
    <2>5. UndoAt'
      BY DEF IInv, TypeOK, EngineTypeOK, UndoAt, Registered, Restored, Undoing, PostDemote, PostVolumes,
                Images, RowFailed
    <2>6. SingleWriter'
      BY DEF IInv, TypeOK, EngineTypeOK, SingleWriter, DiskAt, RowFailed, RowAt, RowIs, Undoing,
                PostDemote
    <2>7. DeleteIsLast'
      BY DEF IInv, TypeOK, EngineTypeOK, DeleteIsLast, DiskAt, UndoAt, Registered, RowFailed, Undoing,
                PostDemote, PostVolumes, Statuses, RowAt, RowIs
    <2> QED
      BY <2>1, <2>2, <2>3, <2>4, <2>5, <2>6, <2>7 DEF IInv
  <1>2. CASE AnnouncePrefix
    <2> USE <1>2 DEF AnnouncePrefix, Goto, Continue, Raise, db, undo, ctx, disk
    <2>1. TypeOK'
      <3>1. routes' \in [{"source", "dest"} -> SUBSET Prefixes]
        BY DEF IInv, TypeOK, EngineTypeOK
      <3> QED
        BY <3>1 DEF IInv, TypeOK, EngineTypeOK, Labels
    <2>2. RowAt'
      BY DEF IInv, TypeOK, RowAt, RowIs, Labels, UndoAt, Undoing
    <2>3. RowFailed'
      BY DEF IInv, TypeOK, EngineTypeOK, RowAt, RowIs, RowFailed, Undoing, UndoAt
    <2>4. DiskAt'
      BY DEF IInv, TypeOK, EngineTypeOK, DiskAt, PostDemote, PostVolumes, Images, UndoAt
    <2>5. UndoAt'
      BY DEF IInv, TypeOK, EngineTypeOK, UndoAt, Registered, Restored, Undoing, PostDemote, PostVolumes,
                Images, RowFailed
    <2>6. SingleWriter'
      BY DEF IInv, TypeOK, EngineTypeOK, SingleWriter, DiskAt, RowFailed, RowAt, RowIs, Undoing,
                PostDemote
    <2>7. DeleteIsLast'
      BY DEF IInv, TypeOK, EngineTypeOK, DeleteIsLast, DiskAt, UndoAt, Registered, RowFailed, Undoing,
                PostDemote, PostVolumes, Statuses, RowAt, RowIs
    <2> QED
      BY <2>1, <2>2, <2>3, <2>4, <2>5, <2>6, <2>7 DEF IInv
  <1>3. CASE AnnounceDone
    BY <1>3
    DEF AnnounceDone, Goto, Continue, Raise, db, undo, ctx, disk,
              IInv, TypeOK, EngineTypeOK, Labels, RowAt, RowIs, RowFailed, DiskAt, UndoAt, Registered,
              Restored, SingleWriter, DeleteIsLast, PostVolumes, PostDemote, Undoing, States,
              Statuses, Roles, Handlers, Images, Prefixes
  <1>4. CASE WithdrawPrefix
    <2> USE <1>4 DEF WithdrawPrefix, Goto, Continue, Raise, db, undo, ctx, disk
    <2>1. TypeOK'
      <3>1. routes' \in [{"source", "dest"} -> SUBSET Prefixes]
        BY DEF IInv, TypeOK, EngineTypeOK
      <3> QED
        BY <3>1 DEF IInv, TypeOK, EngineTypeOK, Labels
    <2>2. RowAt'
      BY DEF IInv, TypeOK, RowAt, RowIs, Labels, UndoAt, Undoing
    <2>3. RowFailed'
      BY DEF IInv, TypeOK, EngineTypeOK, RowAt, RowIs, RowFailed, Undoing, UndoAt
    <2>4. DiskAt'
      BY DEF IInv, TypeOK, EngineTypeOK, DiskAt, PostDemote, PostVolumes, Images, UndoAt
    <2>5. UndoAt'
      BY DEF IInv, TypeOK, EngineTypeOK, UndoAt, Registered, Restored, Undoing, PostDemote, PostVolumes,
                Images, RowFailed
    <2>6. SingleWriter'
      BY DEF IInv, TypeOK, EngineTypeOK, SingleWriter, DiskAt, RowFailed, RowAt, RowIs, Undoing,
                PostDemote
    <2>7. DeleteIsLast'
      BY DEF IInv, TypeOK, EngineTypeOK, DeleteIsLast, DiskAt, UndoAt, Registered, RowFailed, Undoing,
                PostDemote, PostVolumes, Statuses, RowAt, RowIs
    <2> QED
      BY <2>1, <2>2, <2>3, <2>4, <2>5, <2>6, <2>7 DEF IInv
  <1>5. CASE HandoffDone
    <2> USE <1>5 DEF HandoffDone, Register, Goto, Continue, Raise, db, undo, ctx, disk
    <2>1. TypeOK'
      <3>1. /\ rollbacks \in Seq({"rollback_disk", "rollback_bgp"})
            /\ {"rollback_disk", "rollback_bgp"} \subseteq Handlers
            /\ rolled = 0
            /\ Registered
        BY DEF IInv, UndoAt, Undoing, PostDemote, PostVolumes, Handlers
      <3>2. rollbacks' = rollbacks \/ Register("rollback_bgp")
        OBVIOUS
      <3> HIDE DEF Register, HandoffDone
      <3>3. rollbacks' \in Seq(Handlers) /\ rolled \in 0..Len(rollbacks')
        BY <3>1, <3>2, RegisterFacts DEF IInv, TypeOK, EngineTypeOK
      <3>4. /\ pc' \in Labels /\ i' = 1
            /\ UNCHANGED <<row, events, rolled, unrestored, seen, wiring, vm, src, dst, volumes, routes>>
        BY DEF HandoffDone, Labels
      <3> QED
        BY <3>3, <3>4 DEF IInv, TypeOK, EngineTypeOK
    <2>2. RowAt'
      BY DEF IInv, TypeOK, RowAt, RowIs, Labels, UndoAt, Undoing
    <2>3. RowFailed'
      BY DEF IInv, TypeOK, EngineTypeOK, RowAt, RowIs, RowFailed, Undoing, UndoAt
    <2>4. DiskAt'
      BY DEF IInv, TypeOK, EngineTypeOK, DiskAt, PostDemote, PostVolumes, Images, UndoAt
    <2>5. UndoAt'
      <3>1. /\ rollbacks \in Seq({"rollback_disk", "rollback_bgp"})
            /\ {"rollback_disk", "rollback_bgp"} \subseteq Handlers
            /\ rolled = 0
            /\ Registered
        BY DEF IInv, UndoAt, Undoing, PostDemote, PostVolumes, Handlers
      <3>2. rollbacks' = rollbacks \/ Register("rollback_bgp")
        OBVIOUS
      <3> HIDE DEF Register, HandoffDone
      <3>3. /\ rollbacks' \in Seq({"rollback_disk", "rollback_bgp"})
            /\ Registered'
            /\ \A n \in DOMAIN rollbacks' : ~(n > Len(rollbacks') - rolled)
        <4>1. CASE Register("rollback_bgp")
          BY <3>1, <4>1, RegisterFacts DEF Registered
        <4>2. CASE rollbacks' = rollbacks
          <5>1. Len(rollbacks) \in Nat /\ DOMAIN rollbacks = 1..Len(rollbacks)
            BY <3>1, LenProperties
          <5> QED
            BY <3>1, <4>2, <5>1 DEF Registered
        <4> QED
          BY <3>2, <4>1, <4>2
      <3>4. pc' = "cleanup" /\ rolled' = rolled
        BY DEF HandoffDone
      <3> QED
        BY <3>1, <3>3, <3>4 DEF UndoAt, Undoing, PostDemote, PostVolumes
    <2>6. SingleWriter'
      BY DEF IInv, TypeOK, EngineTypeOK, SingleWriter, DiskAt, RowFailed, RowAt, RowIs, Undoing,
                PostDemote
    <2>7. DeleteIsLast'
      <3>1. pc' = "cleanup" /\ UNCHANGED <<row, wiring, vm, src, volumes>>
        OBVIOUS
      <3>2. Registered'
        BY <2>5, <3>1 DEF UndoAt, PostDemote, PostVolumes
      <3> QED
        BY <3>1, <3>2 DEF IInv, DeleteIsLast, Registered
    <2> QED
      BY <2>1, <2>2, <2>3, <2>4, <2>5, <2>6, <2>7 DEF IInv
  <1> QED
    BY <1>1, <1>2, <1>3, <1>4, <1>5 DEF Bgp

LEMMA CleanupInv == IInv /\ Cleanup => IInv'
  <1> SUFFICES ASSUME IInv, Cleanup PROVE IInv'
    OBVIOUS
  <1> USE CountsAssumption
  <1>1. CASE EnterCleanup
    <2> USE <1>1 DEF EnterCleanup, Transition, Entered, Goto, Continue, Raise, db, undo, ctx, disk
    <2>1. TypeOK'
      <3>1. Transition("CLEANUP", 95, "delete_vm") /\ "CLEANUP" \in States /\ 95 \in 0..100
        BY DEF States
      <3> QED
        BY <3>1, TransitionTypes DEF IInv, TypeOK, Labels
    <2>2. RowAt'
      <3>1. CASE Raise
        BY <3>1 DEF RowAt
      <3>2. CASE Entered("CLEANUP", 95) /\ Goto("delete_vm")
        BY <3>2 DEF IInv, RowAt, RowIs
      <3> QED
        BY <3>1, <3>2
    <2>3. RowFailed'
      BY DEF IInv, TypeOK, EngineTypeOK, RowAt, RowIs, RowFailed, Undoing, UndoAt
    <2>4. DiskAt'
      BY DEF IInv, TypeOK, EngineTypeOK, DiskAt, PostDemote, PostVolumes, Images, UndoAt
    <2>5. UndoAt'
      BY DEF IInv, TypeOK, EngineTypeOK, UndoAt, Registered, Restored, Undoing, PostDemote, PostVolumes,
                Images, RowFailed
    <2>6. SingleWriter'
      BY DEF IInv, TypeOK, EngineTypeOK, SingleWriter, DiskAt, RowFailed, RowAt, RowIs, Undoing,
                PostDemote
    <2>7. DeleteIsLast'
      BY DEF IInv, TypeOK, EngineTypeOK, DeleteIsLast, DiskAt, UndoAt, Registered, RowFailed, Undoing,
                PostDemote, PostVolumes, Statuses, RowAt, RowIs
    <2> QED
      BY <2>1, <2>2, <2>3, <2>4, <2>5, <2>6, <2>7 DEF IInv
  <1>2. CASE DeleteVM
    BY <1>2
    DEF DeleteVM, Goto, Continue, Raise, db, undo, ctx, disk,
              IInv, TypeOK, EngineTypeOK, Labels, RowAt, RowIs, RowFailed, DiskAt, UndoAt, Registered,
              Restored, SingleWriter, DeleteIsLast, PostVolumes, PostDemote, Undoing, States,
              Statuses, Roles, Handlers, Images, Prefixes
  <1>3. CASE Finish
    <2> USE <1>3 DEF Finish, Transition, Entered, Goto, Continue, Raise, db, undo, ctx, disk
    <2>1. TypeOK'
      <3>1. Transition("DONE", 100, "returned") /\ "DONE" \in States /\ 100 \in 0..100
        BY DEF States
      <3> QED
        BY <3>1, TransitionTypes DEF IInv, TypeOK, Labels
    <2>2. RowAt'
      <3>1. CASE Raise
        BY <3>1 DEF RowAt
      <3>2. CASE Entered("DONE", 100) /\ Goto("returned")
        BY <3>2 DEF IInv, RowAt, RowIs
      <3> QED
        BY <3>1, <3>2
    <2>3. RowFailed'
      BY DEF IInv, TypeOK, EngineTypeOK, RowAt, RowIs, RowFailed, Undoing, UndoAt
    <2>4. DiskAt'
      BY DEF IInv, TypeOK, EngineTypeOK, DiskAt, PostDemote, PostVolumes, Images, UndoAt
    <2>5. UndoAt'
      BY DEF IInv, TypeOK, EngineTypeOK, UndoAt, Registered, Restored, Undoing, PostDemote, PostVolumes,
                Images, RowFailed
    <2>6. SingleWriter'
      BY DEF IInv, TypeOK, EngineTypeOK, SingleWriter, DiskAt, RowFailed, RowAt, RowIs, Undoing,
                PostDemote
    <2>7. DeleteIsLast'
      BY DEF IInv, TypeOK, EngineTypeOK, DeleteIsLast, DiskAt, UndoAt, Registered, RowFailed, Undoing,
                PostDemote, PostVolumes, Statuses, RowAt, RowIs
    <2> QED
      BY <2>1, <2>2, <2>3, <2>4, <2>5, <2>6, <2>7 DEF IInv
  <1> QED
    BY <1>1, <1>2, <1>3 DEF Cleanup

LEMMA RollbackInv == IInv /\ Rollback => IInv'
  <1> SUFFICES ASSUME IInv, Rollback PROVE IInv'
    OBVIOUS
  <1> USE CountsAssumption
  <1>1. CASE Fail
    <2> USE <1>1 DEF Fail, Goto, Continue, Raise, db, undo, ctx, disk
    <2>1. TypeOK'
      <3>1. row' \in [state : States, progress : 0..100, finished_at : {"null", "set"}]
        BY DEF IInv, TypeOK, EngineTypeOK, States
      <3> QED
        BY <3>1 DEF IInv, TypeOK, EngineTypeOK, Labels
    <2>2. RowAt'
      BY DEF IInv, TypeOK, RowAt, RowIs, Labels, UndoAt, Undoing
    <2>3. RowFailed'
      BY DEF IInv, TypeOK, EngineTypeOK, RowAt, RowIs, RowFailed, Undoing, UndoAt
    <2>4. DiskAt'
      BY DEF IInv, TypeOK, EngineTypeOK, DiskAt, PostDemote, PostVolumes, Images, UndoAt
    <2>5. UndoAt'
      BY DEF IInv, TypeOK, EngineTypeOK, UndoAt, Registered, Restored, Undoing, PostDemote, PostVolumes,
                Images, RowFailed
    <2>6. SingleWriter'
      BY DEF IInv, TypeOK, EngineTypeOK, SingleWriter, DiskAt, RowFailed, RowAt, RowIs, Undoing,
                PostDemote
    <2>7. DeleteIsLast'
      BY DEF IInv, TypeOK, EngineTypeOK, DeleteIsLast, DiskAt, UndoAt, Registered, RowFailed, Undoing,
                PostDemote, PostVolumes, Statuses, RowAt, RowIs
    <2> QED
      BY <2>1, <2>2, <2>3, <2>4, <2>5, <2>6, <2>7 DEF IInv
  <1>2. CASE NextHandler
    <2> USE <1>2 DEF NextHandler, Goto, Continue, Raise, db, undo, ctx, disk
    <2>1. TypeOK'
      BY DEF IInv, TypeOK, EngineTypeOK, Labels, Roles, UndoAt, Images
    <2>2. RowAt'
      <3>1. rollbacks[Len(rollbacks) - rolled] \in {"rollback_disk", "rollback_bgp"}
        BY DEF IInv, TypeOK, EngineTypeOK, UndoAt
      <3> QED
        BY <3>1 DEF IInv, RowAt
    <2>3. RowFailed'
      BY DEF IInv, TypeOK, EngineTypeOK, RowAt, RowIs, RowFailed, Undoing, UndoAt
    <2>4. DiskAt'
      <3>1. rollbacks[Len(rollbacks) - rolled] \in {"rollback_disk", "rollback_bgp"}
        BY DEF IInv, TypeOK, EngineTypeOK, UndoAt
      <3> QED
        BY <3>1 DEF IInv, DiskAt, PostDemote, PostVolumes
    <2>5. UndoAt'
      BY DEF IInv, TypeOK, EngineTypeOK, UndoAt, Registered, Restored, Undoing, PostDemote, PostVolumes,
                Images, RowFailed
    <2>6. SingleWriter'
      BY DEF IInv, TypeOK, EngineTypeOK, SingleWriter, DiskAt, RowFailed, RowAt, RowIs, Undoing,
                PostDemote
    <2>7. DeleteIsLast'
      BY DEF IInv, TypeOK, EngineTypeOK, DeleteIsLast, DiskAt, UndoAt, Registered, RowFailed, Undoing,
                PostDemote, PostVolumes, Statuses, RowAt, RowIs
    <2> QED
      BY <2>1, <2>2, <2>3, <2>4, <2>5, <2>6, <2>7 DEF IInv
  <1>3. CASE RePromoteImage
    <2> USE <1>3 DEF RePromoteImage, Goto, Continue, Raise, db, undo, ctx, disk
    <2>1. TypeOK'
      <3>1. src' \in [Images -> Roles] /\ unrestored' \subseteq Images
        BY DEF IInv, TypeOK, EngineTypeOK, Roles
      <3> QED
        BY <3>1 DEF IInv, TypeOK, EngineTypeOK, Labels
    <2>2. RowAt'
      BY DEF IInv, TypeOK, RowAt, RowIs, Labels, UndoAt, Undoing
    <2>3. RowFailed'
      BY DEF IInv, TypeOK, EngineTypeOK, RowAt, RowIs, RowFailed, Undoing, UndoAt
    <2>4. DiskAt'
      BY DEF IInv, TypeOK, EngineTypeOK, DiskAt, PostDemote, PostVolumes, Images, UndoAt
    <2>5. UndoAt'
      BY DEF IInv, TypeOK, EngineTypeOK, UndoAt, Registered, Restored, Undoing, PostDemote, PostVolumes,
                Images, RowFailed
    <2>6. SingleWriter'
      BY DEF IInv, TypeOK, EngineTypeOK, SingleWriter, DiskAt, RowFailed, RowAt, RowIs, Undoing,
                PostDemote
    <2>7. DeleteIsLast'
      BY DEF IInv, TypeOK, EngineTypeOK, DeleteIsLast, DiskAt, UndoAt, Registered, RowFailed, Undoing,
                PostDemote, PostVolumes, Statuses, RowAt, RowIs
    <2> QED
      BY <2>1, <2>2, <2>3, <2>4, <2>5, <2>6, <2>7 DEF IInv
  <1>4. CASE RePromoteDone
    BY <1>4
    DEF RePromoteDone, HandlerEnds, Goto, Continue, Raise, db, undo, ctx, disk,
              IInv, TypeOK, EngineTypeOK, Labels, RowAt, RowIs, RowFailed, DiskAt, UndoAt, Registered,
              Restored, SingleWriter, DeleteIsLast, PostVolumes, PostDemote, Undoing, States,
              Statuses, Roles, Handlers, Images, Prefixes
  <1>5. CASE RollbackWithdraw
    <2> USE <1>5 DEF RollbackWithdraw, HandlerEnds, Goto, Continue, Raise, db, undo, ctx, disk
    <2>1. TypeOK'
      <3>1. routes' \in [{"source", "dest"} -> SUBSET Prefixes]
        BY DEF IInv, TypeOK, EngineTypeOK
      <3>2. rolled' \in 0..Len(rollbacks) /\ unrestored' = unrestored /\ rollbacks' = rollbacks
        BY DEF IInv, TypeOK, EngineTypeOK, UndoAt, Undoing
      <3> QED
        BY <3>1, <3>2 DEF IInv, TypeOK, EngineTypeOK, Labels
    <2>2. RowAt'
      BY DEF IInv, TypeOK, RowAt, RowIs, Labels, UndoAt, Undoing
    <2>3. RowFailed'
      BY DEF IInv, TypeOK, EngineTypeOK, RowAt, RowIs, RowFailed, Undoing, UndoAt
    <2>4. DiskAt'
      BY DEF IInv, TypeOK, EngineTypeOK, DiskAt, PostDemote, PostVolumes, Images, UndoAt
    <2>5. UndoAt'
      BY DEF IInv, TypeOK, EngineTypeOK, UndoAt, Registered, Restored, Undoing, PostDemote, PostVolumes,
                Images, RowFailed
    <2>6. SingleWriter'
      BY DEF IInv, TypeOK, EngineTypeOK, SingleWriter, DiskAt, RowFailed, RowAt, RowIs, Undoing,
                PostDemote
    <2>7. DeleteIsLast'
      BY DEF IInv, TypeOK, EngineTypeOK, DeleteIsLast, DiskAt, UndoAt, Registered, RowFailed, Undoing,
                PostDemote, PostVolumes, Statuses, RowAt, RowIs
    <2> QED
      BY <2>1, <2>2, <2>3, <2>4, <2>5, <2>6, <2>7 DEF IInv
  <1>6. CASE RollbackAnnounce
    <2> USE <1>6 DEF RollbackAnnounce, Goto, Continue, Raise, db, undo, ctx, disk
    <2>1. TypeOK'
      <3>1. routes \in [{"source", "dest"} -> SUBSET Prefixes] /\ i \in Prefixes
        BY DEF IInv, TypeOK, EngineTypeOK, UndoAt
      <3> QED
        BY <3>1 DEF IInv, TypeOK, EngineTypeOK, Labels
    <2>2. RowAt'
      BY DEF IInv, TypeOK, RowAt, RowIs, Labels, UndoAt, Undoing
    <2>3. RowFailed'
      BY DEF IInv, TypeOK, EngineTypeOK, RowAt, RowIs, RowFailed, Undoing, UndoAt
    <2>4. DiskAt'
      BY DEF IInv, TypeOK, EngineTypeOK, DiskAt, PostDemote, PostVolumes, Images, UndoAt
    <2>5. UndoAt'
      BY DEF IInv, TypeOK, EngineTypeOK, UndoAt, Registered, Restored, Undoing, PostDemote, PostVolumes,
                Images, RowFailed
    <2>6. SingleWriter'
      BY DEF IInv, TypeOK, EngineTypeOK, SingleWriter, DiskAt, RowFailed, RowAt, RowIs, Undoing,
                PostDemote
    <2>7. DeleteIsLast'
      BY DEF IInv, TypeOK, EngineTypeOK, DeleteIsLast, DiskAt, UndoAt, Registered, RowFailed, Undoing,
                PostDemote, PostVolumes, Statuses, RowAt, RowIs
    <2> QED
      BY <2>1, <2>2, <2>3, <2>4, <2>5, <2>6, <2>7 DEF IInv
  <1>7. CASE RollbackBgpDone
    <2> USE <1>7 DEF RollbackBgpDone, HandlerEnds, Goto, Continue, Raise, db, undo, ctx, disk
    <2>1. TypeOK'
      <3>1. rolled < Len(rollbacks) /\ rolled' = rolled + 1
        BY DEF IInv, UndoAt, Undoing
      <3>2. rolled' \in 0..Len(rollbacks)
        BY <3>1 DEF IInv, TypeOK, EngineTypeOK
      <3> QED
        BY <3>2 DEF IInv, TypeOK, EngineTypeOK, Labels
    <2>2. RowAt'
      BY DEF IInv, TypeOK, RowAt, RowIs, Labels, UndoAt, Undoing
    <2>3. RowFailed'
      BY DEF IInv, TypeOK, EngineTypeOK, RowAt, RowIs, RowFailed, Undoing, UndoAt
    <2>4. DiskAt'
      BY DEF IInv, TypeOK, EngineTypeOK, DiskAt, PostDemote, PostVolumes, Images, UndoAt
    <2>5. UndoAt'
      <3>1. /\ rolled < Len(rollbacks) /\ rolled' = rolled + 1 /\ pc' = "rollback"
            /\ rollbacks[Len(rollbacks) - rolled] = "rollback_bgp"
            /\ UNCHANGED <<row, rollbacks, src, unrestored>>
            /\ rollbacks \in Seq({"rollback_disk", "rollback_bgp"})
            /\ \A n \in DOMAIN rollbacks :
                   n > Len(rollbacks) - rolled /\ rollbacks[n] = "rollback_disk"
                       => \A m \in Images : Restored(m)
        BY DEF IInv, UndoAt, Undoing
      <3>2. rolled \in Nat /\ Len(rollbacks) \in Nat /\ DOMAIN rollbacks = 1..Len(rollbacks)
        BY <3>1, LenProperties DEF IInv, TypeOK, EngineTypeOK
      <3>3. \A n \in DOMAIN rollbacks :
               n > Len(rollbacks) - rolled' /\ rollbacks[n] = "rollback_disk"
                   => \A m \in Images : Restored(m)'
        <4> SUFFICES ASSUME NEW n \in DOMAIN rollbacks, n > Len(rollbacks) - rolled',
                            rollbacks[n] = "rollback_disk"
                     PROVE  \A m \in Images : Restored(m)'
          OBVIOUS
        <4>1. n # Len(rollbacks) - rolled
          BY <3>1
        <4>2. n > Len(rollbacks) - rolled
          BY <3>1, <3>2, <4>1
        <4>3. \A m \in Images : Restored(m)
          BY <3>1, <4>2
        <4> QED
          BY <3>1, <4>3 DEF Restored
      <3> QED
        BY <3>1, <3>3 DEF UndoAt, Undoing, PostDemote, PostVolumes
    <2>6. SingleWriter'
      BY DEF IInv, TypeOK, EngineTypeOK, SingleWriter, DiskAt, RowFailed, RowAt, RowIs, Undoing,
                PostDemote
    <2>7. DeleteIsLast'
      BY DEF IInv, TypeOK, EngineTypeOK, DeleteIsLast, DiskAt, UndoAt, Registered, RowFailed, Undoing,
                PostDemote, PostVolumes, Statuses, RowAt, RowIs
    <2> QED
      BY <2>1, <2>2, <2>3, <2>4, <2>5, <2>6, <2>7 DEF IInv
  <1>8. CASE RollbacksDone
    BY <1>8
    DEF RollbacksDone, Goto, Continue, Raise, db, undo, ctx, disk,
              IInv, TypeOK, EngineTypeOK, Labels, RowAt, RowIs, RowFailed, DiskAt, UndoAt, Registered,
              Restored, SingleWriter, DeleteIsLast, PostVolumes, PostDemote, Undoing, States,
              Statuses, Roles, Handlers, Images, Prefixes
  <1> QED
    BY <1>1, <1>2, <1>3, <1>4, <1>5, <1>6, <1>7, <1>8 DEF Rollback

LEMMA OwnerInv == IInv /\ OwnerActs => IInv'
  <1> SUFFICES ASSUME IInv, OwnerActs PROVE IInv'
    OBVIOUS
  <1> QED
    BY DEF OwnerActs, db, undo, ctx, disk, Statuses, IInv, TypeOK, EngineTypeOK, RowAt, RowIs,
           RowFailed, DiskAt, UndoAt, Registered, Restored, SingleWriter, DeleteIsLast

LEMMA StutterInv == IInv /\ UNCHANGED engineVars => IInv'
  BY DEF engineVars, IInv, TypeOK, EngineTypeOK, RowAt, RowIs, RowFailed, DiskAt, UndoAt,
         Registered, Restored, SingleWriter, DeleteIsLast

LEMMA InitInv == Init => IInv
  <1> SUFFICES ASSUME Init PROVE IInv
    OBVIOUS
  <1> USE CountsAssumption, WiringsAssumption DEF Init, EngineInit
  <1>1. TypeOK
    BY DEF TypeOK, EngineTypeOK, Labels, States, Statuses, Roles, Images, Prefixes
  <1>2. RowAt /\ RowFailed
    BY DEF RowAt, RowIs, RowFailed, Undoing
  <1>3. DiskAt
    BY DEF DiskAt, PostDemote, PostVolumes, Images
  <1>4. UndoAt
    BY DEF UndoAt, PostDemote, PostVolumes, Undoing
  <1>5. SingleWriter /\ DeleteIsLast
    BY DEF SingleWriter, DeleteIsLast, Images
  <1> QED
    BY <1>1, <1>2, <1>3, <1>4, <1>5 DEF IInv

LEMMA StepInv == IInv /\ [Next]_engineVars => IInv'
  BY PreflightInv, DiskInv, CutoverInv, BgpInv, CleanupInv, RollbackInv, OwnerInv, StutterInv
  DEF Next, Run, Returned

LEMMA Invariance == Spec => []IInv
  BY InitInv, StepInv, PTL DEF Spec

----------------------------------------------------------------------------
(* The invariants the runs check.                                          *)

\* Type correctness of the engine: the loop of _run_rollbacks stays inside the
\* list of registered handlers.
THEOREM TypeCorrect == Spec => []TypeOK
  BY Invariance, PTL DEF IInv

\* _step_disk demotes every image before it promotes one, so no image has two
\* writers unless a rollback's forced promote made them.
THEOREM SingleWriterHolds == Spec => []SingleWriter
  BY Invariance, PTL DEF IInv

\* _step_cleanup deletes the source VM when nothing of it is needed any more.
THEOREM DeleteIsLastHolds == Spec => []DeleteIsLast
  BY Invariance, PTL DEF IInv

\* _run_rollbacks runs every registered handler, so a registered disk rollback
\* has gone through all images by the time run() returns.
THEOREM DisksRolledBackHolds == Spec => []DisksRolledBack
  <1>1. IInv => DisksRolledBack
    <2> SUFFICES ASSUME IInv, pc = "returned", row.state = "FAILED",
                        NEW n \in DOMAIN rollbacks, rollbacks[n] = "rollback_disk",
                        NEW m \in Images \ unrestored
                 PROVE  src[m] = "primary"
      BY DEF DisksRolledBack
    <2>1. rolled = Len(rollbacks) /\ rollbacks \in Seq({"rollback_disk", "rollback_bgp"})
      BY DEF IInv, UndoAt
    <2>2. n > Len(rollbacks) - rolled
      BY <2>1, LenProperties
    <2>3. Restored(m)
      BY <2>2 DEF IInv, UndoAt
    <2> QED
      BY <2>3 DEF Restored
  <1> QED
    BY <1>1, Invariance, PTL

----------------------------------------------------------------------------
(* Action properties and refinement.                                       *)

\* A failed engine only goes backwards: the way forward never resumes at an
\* await before which the row is FAILED.
THEOREM NothingAfterFailedHolds == Spec => NothingAfterFailed
  <1> DEFINE A == row.state = "FAILED" =>
                    /\ volumes' = volumes
                    /\ dst' = dst
                    /\ \A m \in Images : src[m] = "primary" => src'[m] = "primary"
                    /\ vm' = "DELETED" => vm = "DELETED"
  <1>1. IInv /\ [Next]_engineVars => [A]_engineVars
    <2> SUFFICES ASSUME IInv, Next, row.state = "FAILED"
                 PROVE  A
      OBVIOUS
    <2>0. pc \in Undoing \cup {"returned", "raised"}
      BY DEF IInv, RowFailed
    <2>1. CASE RePromoteImage
      <3>1. src' = src \/ src' = [src EXCEPT ![i] = "primary"]
        BY <2>1 DEF RePromoteImage
      <3>2. \A m \in Images : src[m] = "primary" => src'[m] = "primary"
        BY <3>1 DEF IInv, TypeOK, EngineTypeOK
      <3> QED
        BY <2>1, <3>2 DEF RePromoteImage
    <2>2. CASE Rollback /\ ~RePromoteImage
      BY <2>0, <2>2 DEF Undoing, Rollback, Fail, NextHandler, RePromoteDone, RollbackWithdraw,
                        RollbackAnnounce, RollbackBgpDone, RollbacksDone, ctx, disk
    <2>3. CASE OwnerActs
      BY <2>3 DEF OwnerActs, disk
    <2>4. CASE Returned
      BY <2>4 DEF Returned, engineVars
    <2>5. ~Preflight /\ ~Disk /\ ~Cutover /\ ~Bgp /\ ~Cleanup
      BY <2>0 DEF Undoing, Preflight, Disk, Cutover, Bgp, Cleanup, EnterPreflight, GetVM,
                  CheckImage, CheckDone, EnterDisk, StopVM, SyncImage, SyncDone, DemoteImage,
                  DemoteDone, PromoteImage, PromoteDone, DiskMoved, EnterCutover, CreateVolume,
                  CreateVolumesDone, EnterBgp, AnnouncePrefix, AnnounceDone, WithdrawPrefix,
                  HandoffDone, EnterCleanup, DeleteVM, Finish
    <2> QED
      BY <2>1, <2>2, <2>3, <2>4, <2>5 DEF Next, Run
  <1>2. Spec => [][A]_engineVars
    BY <1>1, Invariance, PTL DEF Spec
  <1> QED
    BY <1>2 DEF NothingAfterFailed


\* The steps that change the row, from what it says at each await.
RowMoves ==
    \/ RowIs("PENDING", 0) /\ Entered("PREFLIGHT", 5)
    \/ RowIs("PREFLIGHT", 5) /\ Entered("DISK", 20)
    \/ RowIs("DISK", 20) /\ Entered("DISK", 50)
    \/ RowIs("DISK", 50) /\ Entered("CUTOVER", 70)
    \/ RowIs("CUTOVER", 70) /\ Entered("BGP", 85)
    \/ RowIs("BGP", 85) /\ Entered("CLEANUP", 95)
    \/ RowIs("CLEANUP", 95) /\ Entered("DONE", 100)
    \/ /\ row.state # "FAILED"
       /\ row' = [row EXCEPT !.state = "FAILED", !.finished_at = "set"]

LEMMA RowSteps == IInv /\ [Next]_engineVars => RowMoves \/ UNCHANGED row
  <1> SUFFICES ASSUME IInv, Next PROVE RowMoves \/ UNCHANGED row
    BY DEF engineVars
  <1>1. CASE EnterPreflight \/ EnterDisk \/ DiskMoved \/ EnterCutover \/ EnterBgp
             \/ EnterCleanup \/ Finish
    BY <1>1 DEF EnterPreflight, EnterDisk, DiskMoved, EnterCutover, EnterBgp, EnterCleanup,
                Finish, Transition, db, IInv, RowAt, RowMoves
  <1>2. CASE Fail
    BY <1>2 DEF Fail, IInv, RowFailed, Undoing, RowMoves
  <1>3. CASE OwnerActs \/ Returned
    BY <1>3 DEF OwnerActs, Returned, engineVars, db
  <1>4. CASE GetVM \/ CheckImage \/ CheckDone \/ StopVM \/ SyncImage \/ SyncDone \/ DemoteImage
             \/ DemoteDone \/ PromoteImage \/ PromoteDone
    BY <1>4 DEF GetVM, CheckImage, CheckDone, StopVM, SyncImage, SyncDone, DemoteImage,
                DemoteDone, PromoteImage, PromoteDone, db
  <1>5. CASE CreateVolume \/ CreateVolumesDone \/ AnnouncePrefix \/ AnnounceDone
             \/ WithdrawPrefix \/ HandoffDone \/ DeleteVM
    BY <1>5 DEF CreateVolume, CreateVolumesDone, AnnouncePrefix, AnnounceDone, WithdrawPrefix,
                HandoffDone, DeleteVM, db
  <1>6. CASE NextHandler \/ RePromoteImage \/ RePromoteDone \/ RollbackWithdraw
             \/ RollbackAnnounce \/ RollbackBgpDone \/ RollbacksDone
    BY <1>6 DEF NextHandler, RePromoteImage, RePromoteDone, RollbackWithdraw, RollbackAnnounce,
                RollbackBgpDone, RollbacksDone, db
  <1> QED
    BY <1>1, <1>2, <1>3, <1>4, <1>5, <1>6
    DEF Next, Run, Preflight, Disk, Cutover, Bgp, Cleanup, Rollback

\* The engine passes every _transition a progress above the one before, and
\* _fail keeps it.
THEOREM ProgressMonotoneHolds == Spec => ProgressMonotone
  <1>1. IInv /\ [Next]_engineVars => [row'.progress >= row.progress]_engineVars
    <2> SUFFICES ASSUME IInv, [Next]_engineVars PROVE row'.progress >= row.progress
      OBVIOUS
    <2>1. row.progress \in 0..100 /\ row \in [state : States, progress : 0..100, finished_at : {"null", "set"}]
      BY DEF IInv, TypeOK, EngineTypeOK
    <2>2. CASE UNCHANGED row
      BY <2>1, <2>2
    <2>3. CASE row' = [row EXCEPT !.state = "FAILED", !.finished_at = "set"]
      BY <2>1, <2>3
    <2>4. CASE RowIs("PENDING", 0) /\ Entered("PREFLIGHT", 5)
      BY <2>4 DEF RowIs, Entered
    <2>5. CASE RowIs("PREFLIGHT", 5) /\ Entered("DISK", 20)
      BY <2>5 DEF RowIs, Entered
    <2>6. CASE RowIs("DISK", 20) /\ Entered("DISK", 50)
      BY <2>6 DEF RowIs, Entered
    <2>7. CASE RowIs("DISK", 50) /\ Entered("CUTOVER", 70)
      BY <2>7 DEF RowIs, Entered
    <2>8. CASE RowIs("CUTOVER", 70) /\ Entered("BGP", 85)
      BY <2>8 DEF RowIs, Entered
    <2>9. CASE RowIs("BGP", 85) /\ Entered("CLEANUP", 95)
      BY <2>9 DEF RowIs, Entered
    <2>10. CASE RowIs("CLEANUP", 95) /\ Entered("DONE", 100)
      BY <2>10 DEF RowIs, Entered
    <2> QED
      BY <2>2, <2>3, <2>4, <2>5, <2>6, <2>7, <2>8, <2>9, <2>10, RowSteps DEF RowMoves
  <1> QED
    BY <1>1, Invariance, PTL DEF Spec, ProgressMonotone

\* The Migration row of a cold migration is an instance of the abstract
\* lifecycle: _transition advances it and _fail ends it.
THEOREM ColdImplementsLifecycle == Spec => ImplementsLifecycle
  <1> DEFINE finished == row.finished_at = "set"
             ph == <<"PENDING", "PREFLIGHT", "DISK", "CUTOVER", "BGP", "CLEANUP", "DONE">>
  <1>1. Init => Lifecycle!Init
    BY DEF Init, EngineInit, Lifecycle!Init
  <1>2. IInv /\ [Next]_engineVars => [Lifecycle!Next]_(<<row.state, row.finished_at = "set">>)
    <2> SUFFICES ASSUME IInv, [Next]_engineVars
                 PROVE  Lifecycle!Next \/ UNCHANGED <<row.state, row.finished_at = "set">>
      OBVIOUS
    <2>1. row \in [state : States, progress : 0..100, finished_at : {"null", "set"}]
      BY DEF IInv, TypeOK, EngineTypeOK
    <2>2. CASE UNCHANGED row
      BY <2>2
    <2>3. CASE row.state # "FAILED" /\ row' = [row EXCEPT !.state = "FAILED", !.finished_at = "set"]
      BY <2>1, <2>3 DEF Lifecycle!Next, Lifecycle!Fail
    <2>4. CASE RowIs("DISK", 20) /\ Entered("DISK", 50)
      BY <2>4 DEF RowIs, Entered
    <2>5. ASSUME NEW n \in 2..7, row.state = ph[n - 1], row'.state = ph[n],
                 (row'.finished_at = "set") = (n = 7)
          PROVE  Lifecycle!Next
      BY <2>5 DEF Lifecycle!Next, Lifecycle!Advance
    <2>6. CASE RowIs("PENDING", 0) /\ Entered("PREFLIGHT", 5)
      BY <2>5, <2>6 DEF RowIs, Entered
    <2>7. CASE RowIs("PREFLIGHT", 5) /\ Entered("DISK", 20)
      BY <2>5, <2>7 DEF RowIs, Entered
    <2>8. CASE RowIs("DISK", 50) /\ Entered("CUTOVER", 70)
      BY <2>5, <2>8 DEF RowIs, Entered
    <2>9. CASE RowIs("CUTOVER", 70) /\ Entered("BGP", 85)
      BY <2>5, <2>9 DEF RowIs, Entered
    <2>10. CASE RowIs("BGP", 85) /\ Entered("CLEANUP", 95)
      BY <2>5, <2>10 DEF RowIs, Entered
    <2>11. CASE RowIs("CLEANUP", 95) /\ Entered("DONE", 100)
      BY <2>5, <2>11 DEF RowIs, Entered
    <2> QED
      BY <2>2, <2>3, <2>4, <2>6, <2>7, <2>8, <2>9, <2>10, <2>11, RowSteps DEF RowMoves
  <1> QED
    BY <1>1, <1>2, Invariance, PTL DEF Spec, ImplementsLifecycle, Lifecycle!Spec

\* What each step of the run shows to MigrationService.
LEMMA RunSteps == IInv /\ [Next]_engineVars => RunMoves \/ UNCHANGED <<RunRow, RunAt>>
  <1> SUFFICES ASSUME IInv, Next PROVE RunMoves \/ UNCHANGED <<RunRow, RunAt>>
    BY DEF engineVars, RunRow, RunAt
  <1> USE DEF RunMoves, RunAt, Handlers
  <1>1. CASE EnterPreflight
    BY <1>1 DEF EnterPreflight, Transition, Entered, Goto, Raise, db, IInv, RowAt, RowIs, RunRow, Shown
  <1>2. CASE EnterDisk \/ DiskMoved \/ EnterCutover \/ EnterBgp \/ EnterCleanup
    <2>1. /\ row'.finished_at = row.finished_at
          /\ {row.state, row'.state} \cap {"PENDING", "DONE", "FAILED"} = {}
      BY <1>2 DEF EnterDisk, DiskMoved, EnterCutover, EnterBgp, EnterCleanup, Transition, Entered,
                  db, IInv, RowAt, RowIs
    <2>2. UNCHANGED RunRow
      BY <2>1 DEF RunRow
    <2> QED
      BY <1>2, <2>2 DEF EnterDisk, DiskMoved, EnterCutover, EnterBgp, EnterCleanup, Transition, Goto, Raise
  <1>3. CASE Finish
    <2>1. ASSUME Entered("DONE", 100) PROVE Shown("DONE", TRUE)
      <3>1. row'.state = "DONE" /\ (row'.finished_at = "set") = TRUE
        BY <2>1 DEF Entered
      <3> QED
        BY <3>1 DEF RunRow, Shown
    <2> QED
      BY <1>3, <2>1 DEF Finish, Transition, Goto, Raise, db, RunRow
  <1>4. CASE Fail
    <2>1. ASSUME row' = [row EXCEPT !.state = "FAILED", !.finished_at = "set"]
          PROVE  Shown("FAILED", TRUE)
      BY <2>1 DEF IInv, TypeOK, EngineTypeOK, RunRow, Shown
    <2> QED
      BY <1>4, <2>1 DEF Fail, Goto, RunRow
  <1>5. CASE OwnerActs \/ Returned
    BY <1>5 DEF OwnerActs, Returned, engineVars, db, RunRow
  <1>6. CASE GetVM \/ CheckImage \/ CheckDone \/ StopVM \/ SyncImage \/ SyncDone \/ DemoteImage
             \/ DemoteDone \/ PromoteImage \/ PromoteDone
    BY <1>6 DEF GetVM, CheckImage, CheckDone, StopVM, SyncImage, SyncDone, DemoteImage,
                DemoteDone, PromoteImage, PromoteDone, Goto, Continue, Raise, db, RunRow
  <1>7. CASE CreateVolume \/ CreateVolumesDone \/ AnnouncePrefix \/ AnnounceDone
             \/ WithdrawPrefix \/ HandoffDone \/ DeleteVM
    BY <1>7 DEF CreateVolume, CreateVolumesDone, AnnouncePrefix, AnnounceDone, WithdrawPrefix,
                HandoffDone, DeleteVM, Goto, Continue, Raise, db, RunRow
  <1>8. CASE NextHandler
    <2>1. rollbacks[Len(rollbacks) - rolled] \in Handlers
      BY <1>8 DEF NextHandler, IInv, TypeOK, EngineTypeOK
    <2> QED
      BY <1>8, <2>1 DEF NextHandler, Goto, db, RunRow
  <1>9. CASE RePromoteImage \/ RePromoteDone \/ RollbackWithdraw \/ RollbackAnnounce
             \/ RollbackBgpDone \/ RollbacksDone
    BY <1>9 DEF RePromoteImage, RePromoteDone, RollbackWithdraw, RollbackAnnounce,
                RollbackBgpDone, RollbacksDone, HandlerEnds, Goto, Continue, db, RunRow
  <1> QED
    BY <1>1, <1>2, <1>3, <1>4, <1>5, <1>6, <1>7, <1>8, <1>9
    DEF Next, Run, Preflight, Disk, Cutover, Bgp, Cleanup, Rollback

\* A cold migration is the run that MigrationService starts, retries and aborts.
THEOREM ColdIsServiceRun == Spec => IsServiceRun
  <1> DEFINE A == Service!AgentRuns("m")
  <1>1. Init => RunAt = "begin" /\ RunRow = [state |-> "PENDING", finished |-> FALSE]
    BY RunInit DEF Init
  <1>2. IInv /\ [Next]_engineVars => [A]_<<RunRow, RunAt>>
    BY RunSteps, ServiceStep
  <1>3. Spec => [][A]_<<RunRow, RunAt>>
    BY <1>2, Invariance, PTL DEF Spec
  <1> QED
    BY <1>1, <1>3, PTL DEF Spec, IsServiceRun
============================================================================
