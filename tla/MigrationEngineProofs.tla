----------------------- MODULE MigrationEngineProofs -----------------------
(***************************************************************************)
(* Lemmas about the steps both engines share, for the proofs about each.   *)
(***************************************************************************)
EXTENDS MigrationEngine, SequenceTheorems, TLAPS

RowType == [state : States, progress : 0..100, finished_at : {"null", "set"}]

LEMMA EnteredTypes ==
    ASSUME EngineTypeOK, NEW s \in States, NEW p \in 0..100, Entered(s, p)
    PROVE  row' \in RowType /\ events' \in Seq(States)
  <1>1. row \in RowType /\ events \in Seq(States)
    BY DEF EngineTypeOK, RowType
  <1>2. (IF s = "DONE" THEN "set" ELSE row.finished_at) \in {"null", "set"}
    BY <1>1 DEF RowType
  <1>3. row' \in RowType
    BY <1>2 DEF Entered, RowType
  <1>4. events' \in Seq(States)
    BY <1>1, AppendProperties DEF Entered
  <1> QED
    BY <1>3, <1>4

\* A transition keeps the types, whichever way its commit ends.
LEMMA TransitionTypes ==
    ASSUME EngineTypeOK, NEW s \in States, NEW p \in 0..100, NEW l, Transition(s, p, l)
    PROVE  EngineTypeOK' /\ pc' \in {l, "fail"}
  <1>1. row' \in RowType /\ events' \in Seq(States)
    <2>1. CASE Entered(s, p)
      BY <2>1, EnteredTypes
    <2>2. CASE UNCHANGED db
      BY <2>2 DEF db, EngineTypeOK, RowType
    <2> QED
      BY <2>1, <2>2 DEF Transition
  <1>2. /\ UNCHANGED <<rollbacks, rolled, unrestored, seen, wiring, vm, src, dst, volumes, routes>>
        /\ pc' \in {l, "fail"} /\ i' = 1
    BY DEF Transition, Goto, Raise, undo, ctx, disk
  <1> QED
    BY <1>1, <1>2 DEF EngineTypeOK, RowType

\* Registering a handler before any has run: those there stay, none has run.
LEMMA RegisterFacts ==
    ASSUME NEW H, H \subseteq Handlers, rollbacks \in Seq(H), rolled = 0, NEW h \in H, Register(h)
    PROVE  /\ rollbacks' \in Seq(H)
           /\ rollbacks' \in Seq(Handlers)
           /\ rolled \in 0..Len(rollbacks')
           /\ \A g : (\E n \in DOMAIN rollbacks : rollbacks[n] = g)
                        => \E n \in DOMAIN rollbacks' : rollbacks'[n] = g
           /\ \E n \in DOMAIN rollbacks' : rollbacks'[n] = h
           /\ \A n \in DOMAIN rollbacks' : ~(n > Len(rollbacks') - rolled)
  <1>1. rollbacks' = Append(rollbacks, h)
    BY DEF Register
  <1>2. /\ Append(rollbacks, h) \in Seq(H)
        /\ Len(Append(rollbacks, h)) = Len(rollbacks) + 1
        /\ \A n \in 1..Len(rollbacks) : Append(rollbacks, h)[n] = rollbacks[n]
        /\ Append(rollbacks, h)[Len(rollbacks) + 1] = h
    BY AppendProperties
  <1>3. Len(rollbacks) \in Nat /\ DOMAIN rollbacks = 1..Len(rollbacks)
    BY LenProperties
  <1>4. rollbacks' \in Seq(H) /\ DOMAIN rollbacks' = 1..Len(rollbacks') /\ Len(rollbacks') \in Nat
    BY <1>1, <1>2, LenProperties
  <1>5. rollbacks' \in Seq(Handlers)
    BY <1>4, SeqMonotonic
  <1>6. rolled \in 0..Len(rollbacks')
    BY <1>4
  <1>7. \A n \in DOMAIN rollbacks : n \in DOMAIN rollbacks' /\ rollbacks'[n] = rollbacks[n]
    BY <1>1, <1>2, <1>3, <1>4
  <1>8. Len(rollbacks') \in DOMAIN rollbacks' /\ rollbacks'[Len(rollbacks')] = h
    BY <1>1, <1>2, <1>3, <1>4
  <1>9. \A n \in DOMAIN rollbacks' : ~(n > Len(rollbacks') - rolled)
    BY <1>4
  <1> QED
    BY <1>4, <1>5, <1>6, <1>7, <1>8, <1>9

----------------------------------------------------------------------------
(* The run as MigrationService sees it.                                    *)

Shown(state, finished) == RunRow' = [state |-> state, finished |-> finished]

\* Every way a run moves on that its row, or its end, shows.
RunMoves ==
    \/ /\ RunAt = "begin" /\ RunAt' \in {"running", "failing"}
       /\ Shown("RUNNING", RunRow.finished)
    \/ RunAt = "running" /\ RunAt' \in {"returned", "failing"} /\ Shown("DONE", TRUE)
    \/ RunAt \in {"begin", "running"} /\ RunAt' = "failing" /\ UNCHANGED RunRow
    \/ RunAt = "failing" /\ RunAt' \in {"undoing", "raised"} /\ Shown("FAILED", TRUE)
    \/ RunAt = "failing" /\ RunAt' = "raised" /\ UNCHANGED RunRow
    \/ RunAt = "undoing" /\ RunAt' = "returned" /\ UNCHANGED RunRow

\* A run starts where the REST handler left its row.
LEMMA RunInit ==
    EngineInit /\ pc = "preflight" =>
        RunAt = "begin" /\ RunRow = [state |-> "PENDING", finished |-> FALSE]
  <1> SUFFICES ASSUME EngineInit, pc = "preflight"
               PROVE  RunAt = "begin" /\ RunRow = [state |-> "PENDING", finished |-> FALSE]
    OBVIOUS
  <1>1. row.state = "PENDING" /\ (row.finished_at = "set") = FALSE
    BY DEF EngineInit
  <1> QED
    BY <1>1 DEF RunAt, Handlers, RunRow

\* They are the steps of AgentRuns.
LEMMA ServiceStep == RunMoves => Service!AgentRuns("m")
  <1> SUFFICES ASSUME RunMoves PROVE Service!AgentRuns("m")
    OBVIOUS
  <1> DEFINE rows == [m \in {"m"} |-> RunRow]
  <1>1. RunRow.finished \in BOOLEAN /\ RunRow.state # "none"
    BY DEF RunRow
  <1>2. rows["m"] # [state |-> "none", finished |-> FALSE]
    BY <1>1
  <1>3. ASSUME NEW state, Shown(state, RunRow.finished \/ state \in {"DONE", "FAILED"})
        PROVE  Service!Write("m", state)
    <2>1. rows' = [rows EXCEPT !["m"] = [state |-> state,
                        finished |-> rows["m"].finished \/ state \in {"DONE", "FAILED"}]]
      BY <1>3 DEF Shown
    <2> QED
      BY <1>2, <2>1 DEF Service!Write
  <1>4. ASSUME UNCHANGED RunRow PROVE UNCHANGED rows
    BY <1>4
  <1>5. Service!Step("m", RunAt, RunAt')
    <2>1. CASE RunAt = "begin" /\ RunAt' \in {"running", "failing"} /\ Shown("RUNNING", RunRow.finished)
      <3>1. Service!Write("m", "RUNNING")
        BY <1>1, <1>3, <2>1 DEF Shown
      <3> QED
        BY <2>1, <3>1 DEF Service!Step, Service!Advance, Service!Entered, Service!After
    <2>2. CASE RunAt = "running" /\ RunAt' \in {"returned", "failing"} /\ Shown("DONE", TRUE)
      <3>1. Service!Write("m", "DONE")
        BY <1>1, <1>3, <2>2 DEF Shown
      <3> QED
        BY <2>2, <3>1 DEF Service!Step, Service!Advance, Service!Entered, Service!After
    <2>3. CASE RunAt \in {"begin", "running"} /\ RunAt' = "failing" /\ UNCHANGED RunRow
      BY <1>4, <2>3 DEF Service!Step, Service!Advance, Service!After
    <2>4. CASE RunAt = "failing" /\ RunAt' \in {"undoing", "raised"} /\ Shown("FAILED", TRUE)
      <3>1. Service!Write("m", "FAILED")
        BY <1>1, <1>3, <2>4 DEF Shown
      <3> QED
        BY <2>4, <3>1 DEF Service!Step, Service!Fail
    <2>5. CASE RunAt = "failing" /\ RunAt' = "raised" /\ UNCHANGED RunRow
      BY <1>4, <2>5 DEF Service!Step, Service!Fail
    <2>6. CASE RunAt = "undoing" /\ RunAt' = "returned" /\ UNCHANGED RunRow
      BY <1>4, <2>6 DEF Service!Step, Service!Undo
    <2> QED
      BY <2>1, <2>2, <2>3, <2>4, <2>5, <2>6 DEF RunMoves
  <1>6. /\ RunAt \in {"begin", "running", "failing", "undoing"}
        /\ RunAt' \in {"begin", "running", "failing", "undoing", "returned", "raised"}
    BY DEF RunMoves
  <1>7. IF RunAt' \in Service!Live
        THEN UNCHANGED [m \in {"m"} |-> {RunAt} \cap {"returned", "raised"}]
        ELSE Service!End("m", RunAt')
    BY <1>6 DEF Service!Live, Service!End
  <1>8. [m \in {"m"} |-> RunAt]' = [[m \in {"m"} |-> RunAt] EXCEPT !["m"] = RunAt']
    OBVIOUS
  <1> QED
    BY <1>5, <1>6, <1>7, <1>8 DEF Service!AgentRuns, Service!Live, Service!broker
============================================================================
