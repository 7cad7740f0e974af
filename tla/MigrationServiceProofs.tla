----------------------- MODULE MigrationServiceProofs -----------------------
(***************************************************************************)
(* Theorems about MigrationService, for any migrations, workers, retries,  *)
(* calls and faults: type correctness; that an accepted task is not lost;  *)
(* that no run comes from nowhere; and that the row shows how its runs     *)
(* ended.                                                                  *)
(***************************************************************************)
EXTENDS MigrationService, FiniteSetTheorems, TLAPS

Holds(w, x) == job[w] # None /\ job[w].msg = x

\* The broker keeps a message while a worker holds it, and finitely many at all.
Entries ==
    /\ IsFiniteSet(queue) /\ IsFiniteSet(unacked)
    /\ \A x \in unacked : \E w \in Worker : Holds(w, x)

\* A migration nobody sent has no message and no job, and its row, if it has one,
\* is the agent's; one without a row has nothing in the agent either.
Unsent(m) ==
    sends[m] = 0 =>
        /\ \A x \in queue \cup unacked : x.m # m
        /\ \A w \in Worker : job[w] # None => job[w].msg.m # m
        /\ agent[m] = "none" => ended[m] = {}
RowFirst(m) == row[m] = None => agent[m] = "none"

\* A task is alive in a message that the broker has and no worker has handed on: the
\* job of a task that was retried is only waiting for its acknowledgement, which
\* takes the message from any other run of it.
HandedOn(x) == \E w \in Worker : Holds(w, x) /\ job[w].at = "retried"
Alive(m) == sends[m] > 0 =>
                \/ \E x \in queue \cup unacked : x.m = m /\ ~HandedOn(x)
                \/ ended[m] \cap {"returned", "exhausted", "killed"} # {}

\* Whatever may still run the task of m, as sets that can be counted: its messages,
\* its jobs that may run or be retried, and its suspended coroutines (Strays).
Mail(m) == {x \in queue : x.m = m}
Busy(m) == {w \in Worker : job[w] # None /\ job[w].msg.m = m /\ job[w].at \in Live \cup {"raised"}}

Counted(m) ==
    /\ IsFiniteSet(Mail(m))
    /\ Cardinality(Mail(m)) + Cardinality(Busy(m)) + Cardinality(Strays(m))
         <= sends[m] + faults

\* A coroutine is left behind by a cut only.
StraysCut(m) == \A w \in Worker : \A c \in stray[w] : c.m = m => "cut" \in ended[m]

\* If the row of m is not at an end, and no run has ended otherwise than by returning,
\* then a run that has yet to write its end, or to raise, is there or will be.
Pledged(m) ==
    \/ agent[m] \in {"begin", "running", "failing"}
    \/ Queued(m)
    \/ \E w \in Worker : /\ job[w] # None /\ job[w].msg.m = m
                         /\ job[w].at \notin {"undoing", "returned", "retried"}
Owed(m) ==
    row[m] # None /\ row[m].state \notin Terminal /\ ended[m] \subseteq {"returned"}
        => Pledged(m) \/ (sends[m] = 0 /\ agent[m] = "none")

MInv(m) == Unsent(m) /\ RowFirst(m) /\ Alive(m) /\ StraysCut(m) /\ Owed(m)

IInv == /\ TypeOK /\ Entries
        /\ \A m \in Migration : MInv(m)
        /\ \A m \in Migration : Counted(m)

----------------------------------------------------------------------------
(* What the steps that actions share do.                                   *)

\* A run moves on from a place where it is alive.  It keeps the other rows; it has
\* shown an end, or written nothing, when it no longer owes one.
LEMMA RunStep ==
    ASSUME TypeOK, NEW m \in Migration, NEW from, NEW to \in Live \cup {"returned", "raised"},
           Step(m, from, to)
    PROVE  /\ from \in Live
           /\ row' \in [Migration -> Rows \cup {None}]
           /\ \A q \in Migration : q # m => row'[q] = row[q]
           /\ row[m] = None <=> row'[m] = None
           /\ row'[m] # None /\ row'[m].state \notin Terminal =>
                 \/ to \in {"running", "failing", "raised"}
                 \/ from = "undoing" /\ to = "returned" /\ row' = row
<1>1. ASSUME NEW state \in {"RUNNING", "DONE", "FAILED"}, Write(m, state)
      PROVE  /\ row' \in [Migration -> Rows \cup {None}]
             /\ \A q \in Migration : q # m => row'[q] = row[q]
             /\ row[m] # None /\ row'[m] # None
             /\ row'[m].state = state
  <2> DEFINE new == [state |-> state,
                     finished |-> row[m].finished \/ state \in {"DONE", "FAILED"}]
  <2>1. row[m] # None /\ row' = [row EXCEPT ![m] = new]
    BY <1>1 DEF Write
  <2>2. new \in Rows /\ new.state = state
    BY DEF Rows, States, Terminal
  <2> HIDE DEF new
  <2>3. new # None
    BY <2>2, NoneAssumption
  <2> QED
    BY <2>1, <2>2, <2>3 DEF TypeOK
<1>2. CASE Advance(m, from, to)
  <2>1. from \in {"begin", "running"}
    BY <1>2 DEF Advance, After
  <2>2. CASE Write(m, Entered[from]) /\ to \in {After[from], "failing"}
    <3>1. CASE from = "begin"
      BY <2>2, <3>1, <1>1 DEF Entered, After, Live
    <3>2. CASE from = "running"
      BY <2>2, <3>2, <1>1 DEF Entered, After, Live, Terminal
    <3> QED
      BY <2>1, <3>1, <3>2
  <2>3. CASE Write(m, "RUNNING") /\ from = "running" /\ to = "running"
    BY <2>3, <1>1 DEF Live
  <2>4. CASE to = "failing" /\ UNCHANGED row
    BY <2>1, <2>4 DEF TypeOK, Live
  <2> QED
    BY <1>2, <2>2, <2>3, <2>4 DEF Advance
<1>3. CASE Fail(m, from, to)
  <2>1. from = "failing"
    BY <1>3 DEF Fail
  <2>2. CASE Write(m, "FAILED") /\ to \in {"undoing", "raised"}
    BY <2>1, <2>2, <1>1 DEF Live, Terminal
  <2>3. CASE /\ UNCHANGED row
             /\ to = "raised" \/ (to = "undoing" /\ row[m] = None)
    BY <2>1, <2>3 DEF TypeOK, Live
  <2> QED
    BY <1>3, <2>2, <2>3 DEF Fail
<1>4. CASE Undo(from, to)
  BY <1>4 DEF Undo, TypeOK, Live
<1> QED
  BY <1>2, <1>3, <1>4 DEF Step

\* There is a number left for a new message.
LEMMA FreshNumber ==
    ASSUME TypeOK, Entries
    PROVE  Fresh \in Nat /\ \A x \in Known : x.n # Fresh
<1> DEFINE busy == {v \in Worker : job[v] # None}
           held == {job[w].msg : w \in busy}
           f    == [w \in busy |-> job[w].msg]
<1>1. IsFiniteSet(busy)
  BY FS_Subset, ServiceBounds
<1>2. f \in Surjection(busy, held)
  BY DEF Surjection
<1>3. IsFiniteSet(held)
  BY <1>1, <1>2, FS_Surjection
<1>4. Known = queue \cup unacked \cup held
  BY DEF Known
<1> HIDE DEF held
<1>5. IsFiniteSet(Known)
  BY <1>3, <1>4, FS_Union DEF Entries
<1> DEFINE C == Cardinality(Known)
<1>6. C \in Nat
  BY <1>5, FS_CardinalityType
<1>7. IsFiniteSet(0..C) /\ Cardinality(0..C) = C + 1
  BY <1>6, FS_Interval
<1>8. ASSUME \A n \in 0..C : \E x \in Known : x.n = n PROVE FALSE
  <2> DEFINE g == [n \in 0..C |-> CHOOSE x \in Known : x.n = n]
  <2>1. \A n \in 0..C : g[n] \in Known /\ g[n].n = n
    BY <1>8
  <2>2. g \in [0..C -> Known]
    BY <2>1
  <2> HIDE DEF g
  <2>3. C < Cardinality(0..C)
    BY <1>6, <1>7
  <2>4. PICK a \in 0..C, b \in 0..C : a # b /\ g[a] = g[b]
    BY <1>5, <1>7, <2>2, <2>3, FS_PigeonHole
  <2> QED
    BY <2>1, <2>4
<1>9. Fresh \in 0..C /\ \A x \in Known : x.n # Fresh
  BY <1>8 DEF Fresh
<1> QED
  BY <1>6, <1>9

\* One more message, which nobody holds.
LEMMA PublishStep ==
    ASSUME TypeOK, Entries, NEW m \in Migration, NEW t \in Tries, Publish(m, t)
    PROVE  \E y \in Messages :
              /\ y.m = m /\ queue' = queue \cup {y}
              /\ \A w \in Worker : ~Holds(w, y)
<1> DEFINE y == [m |-> m, tries |-> t, n |-> Fresh]
<1>1. Fresh \in Nat /\ \A x \in Known : x.n # Fresh
  BY FreshNumber
<1>2. y \in Messages
  BY <1>1 DEF Messages
<1>3. \A w \in Worker : ~Holds(w, y)
  BY <1>1 DEF Holds, Known
<1> QED
  BY <1>2, <1>3 DEF Publish

\* A job that is given up.
LEMMA ForgetStep ==
    ASSUME TypeOK, NEW w \in Worker, job[w] # None, Forget(w)
    PROVE  /\ job'[w] = None /\ \A v \in Worker : v # w => job'[v] = job[v]
           /\ job' \in [Worker -> Jobs \cup {None}]
           /\ unacked' = unacked \ {job[w].msg} /\ unacked' \subseteq Messages
BY DEF Forget, TypeOK

----------------------------------------------------------------------------
(* Types.                                                                  *)

LEMMA EndType ==
    ASSUME TypeOK, NEW m \in Migration, NEW how \in Ends, End(m, how)
    PROVE  /\ ended' \in [Migration -> SUBSET Ends]
           /\ ended'[m] = ended[m] \cup {how}
           /\ \A q \in Migration : q # m => ended'[q] = ended[q]
BY DEF TypeOK, End

\* A job can be read and changed by its fields.
LEMMA JobType ==
    ASSUME TypeOK, NEW w \in Worker, job[w] # None
    PROVE  /\ job[w] \in Jobs /\ job[w].msg \in Messages
           /\ job[w].msg.m \in Migration /\ job[w].msg.tries \in Tries
           /\ \A at \in Live \cup {"returned", "raised", "retried", "exhausted"} :
                 /\ [job[w] EXCEPT !.at = at] \in Jobs
                 /\ [job EXCEPT ![w].at = at] = [job EXCEPT ![w] = [job[w] EXCEPT !.at = at]]
BY DEF TypeOK, Jobs, Messages

\* A job that moves on keeps its message.
LEMMA MoveStep ==
    ASSUME TypeOK, NEW w \in Worker, job[w] # None,
           NEW at \in Live \cup {"returned", "raised", "retried", "exhausted"},
           job' = [job EXCEPT ![w].at = at]
    PROVE  /\ job' \in [Worker -> Jobs \cup {None}]
           /\ job'[w] # None /\ job'[w].msg = job[w].msg /\ job'[w].at = at
           /\ \A v \in Worker : v # w => job'[v] = job[v]
<1>1. /\ [job[w] EXCEPT !.at = at] \in Jobs
      /\ job' = [job EXCEPT ![w] = [job[w] EXCEPT !.at = at]]
  BY JobType
<1>2. job'[w] = [job[w] EXCEPT !.at = at]
  BY <1>1 DEF TypeOK
<1>3. job[w] \in Jobs
  BY JobType
<1>4. job'[w].msg = job[w].msg /\ job'[w].at = at
  BY <1>2, <1>3 DEF Jobs
<1> QED
  BY <1>1, <1>2, <1>4, NoneAssumption DEF TypeOK

LEMMA TypeStep == TypeOK /\ Entries /\ [Next]_vars => TypeOK'
<1> SUFFICES ASSUME TypeOK, Entries, [Next]_vars PROVE TypeOK'
  OBVIOUS
<1> USE DEF TypeOK
<1>0. ASSUME NEW m \in Migration, Insert(m) PROVE row' \in [Migration -> Rows \cup {None}]
  BY <1>0 DEF Insert, Rows, States
<1>1. ASSUME NEW m \in Migration, Migrate(m) \/ SchedulerInserts(m) PROVE TypeOK'
  <2>1. agent' \in [Migration -> Live \cup {"none", "returned", "raised", "lost"}]
    BY <1>1 DEF Migrate, SchedulerInserts, Live
  <2> QED
    BY <1>0, <1>1, <2>1 DEF Migrate, SchedulerInserts, broker
<1>2. ASSUME NEW m \in Migration, AgentRuns(m) PROVE TypeOK'
  <2>1. PICK to \in Live \cup {"returned", "raised"} :
            /\ Step(m, agent[m], to)
            /\ agent' = [agent EXCEPT ![m] = to]
            /\ IF to \in Live THEN UNCHANGED ended ELSE End(m, to)
            /\ UNCHANGED <<abort, broker, sends, faults>>
    BY <1>2 DEF AgentRuns
  <2>2. row' \in [Migration -> Rows \cup {None}]
    BY <2>1, RunStep
  <2>3. ended' \in [Migration -> SUBSET Ends]
    BY <2>1, EndType DEF Ends
  <2> QED
    BY <2>1, <2>2, <2>3 DEF broker
<1>3. ASSUME NEW m \in Migration, AbortChecks(m) PROVE TypeOK'
  BY <1>3 DEF AbortChecks, broker
<1>4. ASSUME NEW m \in Migration, AbortWrites(m) PROVE TypeOK'
  <2>1. row' \in [Migration -> Rows \cup {None}]
    BY <1>4 DEF AbortWrites, Write, Rows, States, Terminal
  <2> QED
    BY <1>4, <2>1 DEF AbortWrites, broker
<1>5. ASSUME NEW m \in Migration, ExecuteMigration(m) PROVE TypeOK'
  <2>1. 0 \in Tries /\ sends' \in [Migration -> 0..MaxSends]
    BY <1>5, ServiceBounds DEF ExecuteMigration, Tries
  <2>2. queue' \subseteq Messages
    BY <1>5, <2>1, PublishStep DEF ExecuteMigration
  <2> QED
    BY <1>5, <2>1, <2>2 DEF ExecuteMigration
<1>6. CASE AgentCrashes
  <2>1. /\ agent' \in [Migration -> Live \cup {"none", "returned", "raised", "lost"}]
        /\ ended' \in [Migration -> SUBSET Ends]
    BY <1>6 DEF AgentCrashes, Ends
  <2> QED
    BY <1>6, <2>1 DEF AgentCrashes, broker
<1>7. ASSUME NEW w \in Worker, Take(w) PROVE TypeOK'
  <2>1. PICK x \in queue :
            /\ queue' = queue \ {x} /\ unacked' = unacked \cup {x}
            /\ job' = [job EXCEPT ![w] = [msg |-> x, at |-> "begin"]]
    BY <1>7 DEF Take
  <2>2. [msg |-> x, at |-> "begin"] \in Jobs
    BY DEF Jobs, Live
  <2> QED
    BY <1>7, <2>1, <2>2 DEF Take
<1>8. ASSUME NEW w \in Worker, WorkerRuns(w) PROVE TypeOK'
  <2>1. PICK to \in Live \cup {"returned", "raised"} :
            Step(job[w].msg.m, job[w].at, to) /\ job' = [job EXCEPT ![w].at = to]
    BY <1>8 DEF WorkerRuns
  <2>2. job[w] # None
    BY <1>8 DEF WorkerRuns, Waiting
  <2>3. row' \in [Migration -> Rows \cup {None}]
    BY <2>1, <2>2, JobType, RunStep
  <2>4. job' \in [Worker -> Jobs \cup {None}]
    BY <2>1, <2>2, MoveStep
  <2> QED
    BY <1>8, <2>3, <2>4 DEF WorkerRuns
<1>9. ASSUME NEW w \in Worker, StrayRuns(w) PROVE TypeOK'
  <2>1. PICK c \in stray[w], to \in Live \cup {"returned", "raised"} :
            /\ Step(c.m, c.at, to)
            /\ stray' = [stray EXCEPT ![w] = (@ \ {c}) \cup
                            (IF to \in Live THEN {[c EXCEPT !.at = to]} ELSE {})]
    BY <1>9 DEF StrayRuns
  <2>2. c \in [m : Migration, at : Live]
    OBVIOUS
  <2>3. row' \in [Migration -> Rows \cup {None}]
    BY <2>1, <2>2, RunStep
  <2>4. to \in Live => [c EXCEPT !.at = to] \in [m : Migration, at : Live]
    BY <2>2
  <2>5. stray' \in [Worker -> SUBSET [m : Migration, at : Live]]
    BY <2>1, <2>4
  <2> QED
    BY <1>9, <2>3, <2>5 DEF StrayRuns
<1>10. ASSUME NEW w \in Worker, SoftLimit(w) PROVE TypeOK'
  <2>1. job[w] # None /\ job[w].at \in Live
    BY <1>10 DEF SoftLimit, Waiting
  <2>2. [m |-> job[w].msg.m, at |-> job[w].at] \in [m : Migration, at : Live]
    BY <2>1, JobType
  <2>3. stray' \in [Worker -> SUBSET [m : Migration, at : Live]]
    BY <1>10, <2>2 DEF SoftLimit
  <2>4. job' \in [Worker -> Jobs \cup {None}]
    BY <1>10, <2>1, MoveStep DEF SoftLimit
  <2>5. ended' \in [Migration -> SUBSET Ends]
    BY <1>10, <2>1, JobType, EndType DEF SoftLimit, Ends
  <2>6. faults' \in 0..MaxFaults
    BY <1>10, ServiceBounds DEF SoftLimit
  <2> QED
    BY <1>10, <2>3, <2>4, <2>5, <2>6 DEF SoftLimit
<1>11. ASSUME NEW w \in Worker, Retry(w) PROVE TypeOK'
  <2>1. job[w] # None
    BY <1>11 DEF Retry
  <2>2. job' \in [Worker -> Jobs \cup {None}]
    <3>1. PICK at \in {"retried", "exhausted"} : job' = [job EXCEPT ![w].at = at]
      BY <1>11 DEF Retry
    <3> QED
      BY <2>1, <3>1, MoveStep
  <2>3. queue' \subseteq Messages
    <3>1. CASE job[w].msg.tries < MaxRetries /\ Publish(job[w].msg.m, job[w].msg.tries + 1)
      <4>1. job[w].msg.tries + 1 \in Tries
        BY <2>1, <3>1, JobType, ServiceBounds DEF Tries
      <4> QED
        BY <2>1, <3>1, <4>1, JobType, PublishStep
    <3> QED
      BY <1>11, <3>1 DEF Retry
  <2> QED
    BY <1>11, <2>2, <2>3 DEF Retry
<1>12. ASSUME NEW w \in Worker, Ack(w) PROVE TypeOK'
  <2>1. job' \in [Worker -> Jobs \cup {None}] /\ unacked' \subseteq Messages
    BY <1>12, ForgetStep DEF Ack
  <2>2. ended' \in [Migration -> SUBSET Ends]
    BY <1>12, JobType, EndType DEF Ack, Ends
  <2> QED
    BY <1>12, <2>1, <2>2 DEF Ack
<1>13. ASSUME NEW w \in Worker, HardLimit(w) \/ WorkerLost(w) PROVE TypeOK'
  <2>1. job[w] # None /\ Forget(w) /\ stray' = [stray EXCEPT ![w] = {}]
    BY <1>13 DEF HardLimit, WorkerLost
  <2>2. /\ job' \in [Worker -> Jobs \cup {None}] /\ unacked' \subseteq Messages
        /\ stray' \in [Worker -> SUBSET [m : Migration, at : Live]]
    BY <2>1, ForgetStep
  <2>3. ended' \in [Migration -> SUBSET Ends]
    BY <1>13, <2>1, JobType, EndType DEF HardLimit, WorkerLost, Ends
  <2>4. queue' \subseteq Messages
    BY <1>13, <2>1, JobType DEF HardLimit, WorkerLost
  <2>5. faults' \in 0..MaxFaults
    BY <1>13, ServiceBounds DEF HardLimit, WorkerLost
  <2> QED
    BY <1>13, <2>2, <2>3, <2>4, <2>5 DEF HardLimit, WorkerLost
<1>14. CASE Redeliver
  BY <1>14, ServiceBounds DEF Redeliver
<1>15. CASE UNCHANGED vars
  BY <1>15 DEF vars
<1> QED
  BY <1>1, <1>2, <1>3, <1>4, <1>5, <1>6, <1>7, <1>8, <1>9, <1>10, <1>11, <1>12, <1>13,
     <1>14, <1>15 DEF Next

----------------------------------------------------------------------------
(* What the broker keeps.                                                  *)

\* Every step leaves finitely many messages, and those delivered at a worker.
LEMMA EntriesStep == TypeOK /\ Entries /\ [Next]_vars => Entries'
<1> SUFFICES ASSUME TypeOK, Entries, [Next]_vars PROVE Entries'
  OBVIOUS
<1>1. ASSUME NEW y, queue' \subseteq queue \cup {y}, unacked' \subseteq unacked \cup {y}
      PROVE  IsFiniteSet(queue') /\ IsFiniteSet(unacked')
  <2>1. IsFiniteSet(queue \cup {y}) /\ IsFiniteSet(unacked \cup {y})
    BY FS_AddElement DEF Entries
  <2> QED
    BY <1>1, <2>1, FS_Subset
<1>2. ASSUME UNCHANGED <<queue, unacked, job>> PROVE Entries'
  BY <1>2 DEF Entries, Holds
<1>3. ASSUME NEW m \in Migration,
             \/ Migrate(m) \/ SchedulerInserts(m) \/ AgentRuns(m) \/ AbortChecks(m)
             \/ AbortWrites(m)
      PROVE  Entries'
  BY <1>2, <1>3 DEF Migrate, SchedulerInserts, AgentRuns, AbortChecks, AbortWrites, broker
<1>4. ASSUME NEW m \in Migration, ExecuteMigration(m) PROVE Entries'
  <2>1. 0 \in Tries /\ Publish(m, 0) /\ UNCHANGED <<unacked, job>>
    BY <1>4, ServiceBounds DEF ExecuteMigration, Tries
  <2>2. PICK y : queue' = queue \cup {y}
    BY <2>1, PublishStep
  <2> QED
    BY <1>1, <2>1, <2>2 DEF Entries, Holds
<1>5. CASE AgentCrashes
  BY <1>2, <1>5 DEF AgentCrashes, broker
<1>6. ASSUME NEW w \in Worker, Take(w) PROVE Entries'
  <2>1. PICK x \in queue :
            /\ queue' = queue \ {x} /\ unacked' = unacked \cup {x}
            /\ job' = [job EXCEPT ![w] = [msg |-> x, at |-> "begin"]]
    BY <1>6 DEF Take
  <2>2. job'[w] = [msg |-> x, at |-> "begin"]
    BY <2>1 DEF TypeOK
  <2>3. [msg |-> x, at |-> "begin"] \in Jobs
    BY DEF TypeOK, Jobs, Live
  <2>4. Holds(w, x)' /\ \A v \in Worker : v # w => job'[v] = job[v]
    BY <2>1, <2>2, <2>3, NoneAssumption DEF Holds, TypeOK
  <2>5. \A z \in unacked : \E v \in Worker : v # w /\ Holds(v, z)
    BY <1>6 DEF Entries, Holds, Take
  <2>6. \A z \in unacked' : \E v \in Worker : Holds(v, z)'
    BY <2>1, <2>4, <2>5 DEF Holds
  <2>7. IsFiniteSet(queue') /\ IsFiniteSet(unacked')
    BY <1>1, <2>1
  <2> QED
    BY <2>6, <2>7 DEF Entries
<1>7. ASSUME NEW w \in Worker, WorkerRuns(w) \/ SoftLimit(w) PROVE Entries'
  <2>1. job[w] # None /\ UNCHANGED <<queue, unacked>>
    BY <1>7 DEF WorkerRuns, SoftLimit, Waiting
  <2>2. PICK to \in Live \cup {"returned", "raised"} : job' = [job EXCEPT ![w].at = to]
    BY <1>7 DEF WorkerRuns, SoftLimit
  <2>3. /\ job'[w] # None /\ job'[w].msg = job[w].msg
        /\ \A v \in Worker : v # w => job'[v] = job[v]
    BY <2>1, <2>2, MoveStep
  <2> QED
    BY <2>1, <2>3 DEF Entries, Holds
<1>8. ASSUME NEW w \in Worker, StrayRuns(w) PROVE Entries'
  BY <1>2, <1>8 DEF StrayRuns
<1>9. ASSUME NEW w \in Worker, Retry(w) PROVE Entries'
  <2>1. job[w] # None /\ UNCHANGED unacked
    BY <1>9 DEF Retry
  <2>2. PICK at \in {"retried", "exhausted"} : job' = [job EXCEPT ![w].at = at]
    BY <1>9 DEF Retry
  <2>3. \A z \in unacked' : \E v \in Worker : Holds(v, z)'
    BY <2>1, <2>2, MoveStep DEF Entries, Holds
  <2>4. \E y : queue' \subseteq queue \cup {y}
    <3>1. CASE job[w].msg.tries < MaxRetries /\ Publish(job[w].msg.m, job[w].msg.tries + 1)
      <4>1. job[w].msg.m \in Migration /\ job[w].msg.tries + 1 \in Tries
        BY <2>1, <3>1, JobType, ServiceBounds DEF Tries
      <4> QED
        BY <3>1, <4>1, PublishStep
    <3> QED
      BY <1>9, <3>1 DEF Retry
  <2> QED
    BY <1>1, <2>1, <2>3, <2>4 DEF Entries
<1>10. ASSUME NEW w \in Worker, Ack(w) \/ HardLimit(w) \/ WorkerLost(w) PROVE Entries'
  <2>1. /\ job[w] # None /\ Forget(w)
        /\ queue' \subseteq queue \cup {job[w].msg}
    BY <1>10 DEF Ack, HardLimit, WorkerLost
  <2>2. \A z \in unacked' : \E v \in Worker : Holds(v, z)'
    BY <2>1, ForgetStep DEF Entries, Holds
  <2>3. unacked' \subseteq unacked
    BY <2>1, ForgetStep
  <2> QED
    BY <1>1, <2>1, <2>2, <2>3 DEF Entries
<1>11. CASE Redeliver
  <2>1. PICK x \in unacked : unacked' = unacked \ {x} /\ queue' = queue \cup {x}
    BY <1>11 DEF Redeliver
  <2>2. UNCHANGED job
    BY <1>11 DEF Redeliver
  <2> QED
    BY <1>1, <2>1, <2>2 DEF Entries, Holds
<1>12. CASE UNCHANGED vars
  BY <1>2, <1>12 DEF vars
<1> QED
  BY <1>3, <1>4, <1>5, <1>6, <1>7, <1>8, <1>9, <1>10, <1>11, <1>12 DEF Next

----------------------------------------------------------------------------
(* The fate of one migration q under the steps of the system.              *)

\* A task stays alive when its messages stay with the broker and nobody hands one on.
LEMMA AliveStep ==
    ASSUME NEW q \in Migration, Alive(q), sends'[q] > 0 => sends[q] > 0,
           ended[q] \subseteq ended'[q],
           \A x \in queue \cup unacked : x.m = q => x \in (queue \cup unacked)' \/ HandedOn(x),
           \A w \in Worker : job'[w] # None /\ job'[w].at = "retried" => job'[w] = job[w]
    PROVE  Alive(q)'
<1>1. \A x : HandedOn(x)' => HandedOn(x)
  BY DEF HandedOn, Holds
<1> QED
  BY <1>1 DEF Alive

\* A step that is not about q leaves q as it is.
LEMMA KeptInv ==
    ASSUME NEW q \in Migration, MInv(q),
           row'[q] = row[q], agent'[q] = agent[q], sends'[q] = sends[q],
           ended'[q] = ended[q],
           \A x : x.m = q => (x \in queue' <=> x \in queue) /\ (x \in unacked' <=> x \in unacked),
           \A w \in Worker : \/ job'[w] = job[w]
                             \/ /\ job[w] # None => job[w].msg.m # q
                                /\ job'[w] # None => job'[w].msg.m # q,
           \A w \in Worker : \A c \in stray'[w] :
                c.m = q => \E d \in stray[w] : d.m = q
    PROVE  MInv(q)'
<1>1. Unsent(q)'
  BY DEF MInv, Unsent
<1>2. RowFirst(q)'
  BY DEF MInv, RowFirst
<1>3. Queued(q)' = Queued(q)
  BY DEF Queued
<1>4. Alive(q)'
  <2>1. \A x : x.m = q => (HandedOn(x)' <=> HandedOn(x))
    BY DEF HandedOn, Holds
  <2>2. \A x : x.m = q => (x \in (queue \cup unacked)' <=> x \in queue \cup unacked)
    OBVIOUS
  <2> QED
    BY <2>1, <2>2 DEF MInv, Alive
<1>5. StraysCut(q)'
  BY DEF MInv, StraysCut
<1>6. Pledged(q) => Pledged(q)'
  BY <1>3 DEF Pledged
<1>7. Owed(q)'
  BY <1>6 DEF MInv, Owed
<1> QED
  BY <1>1, <1>2, <1>4, <1>5, <1>7 DEF MInv

\* The agent and the REST API.
LEMMA AgentInv ==
    ASSUME TypeOK, NEW q \in Migration, MInv(q), NEW m \in Migration,
           \/ Migrate(m) \/ SchedulerInserts(m) \/ AgentRuns(m) \/ AbortChecks(m)
           \/ AbortWrites(m)
    PROVE  MInv(q)'
<1> USE DEF MInv
<1>k. UNCHANGED <<queue, unacked, job, stray, sends>>
  BY DEF Migrate, SchedulerInserts, AgentRuns, AbortChecks, AbortWrites, broker
<1>1. CASE Migrate(m) \/ SchedulerInserts(m)
  <2>1. /\ row[m] = None /\ sends[m] = 0 /\ ended' = ended
        /\ row' = [row EXCEPT ![m] = [state |-> "PENDING", finished |-> FALSE]]
        /\ agent' = agent \/ agent' = [agent EXCEPT ![m] = "begin"]
    BY <1>1 DEF Migrate, SchedulerInserts, Insert
  <2>2. CASE q # m
    BY <1>k, <2>1, <2>2, KeptInv DEF TypeOK
  <2>3. CASE q = m
    <3>1. row'[q] # None
      <4>1. [state |-> "PENDING", finished |-> FALSE] \in Rows
        BY DEF Rows, States
      <4> QED
        BY <2>1, <2>3, <4>1, NoneAssumption DEF TypeOK
    <3>2. Unsent(q)' /\ RowFirst(q)'
      BY <1>k, <2>1, <2>3, <3>1 DEF Unsent, RowFirst, TypeOK
    <3>3. Alive(q)' /\ StraysCut(q)'
      BY <1>k, <2>1, AliveStep DEF StraysCut
    <3>4. agent[q] = "none" /\ sends'[q] = 0
      BY <1>k, <2>1, <2>3 DEF RowFirst
    <3>5. agent'[q] \in {"none", "begin"}
      BY <2>1, <2>3, <3>4 DEF TypeOK
    <3>6. Owed(q)'
      BY <3>4, <3>5 DEF Owed, Pledged
    <3> QED
      BY <3>2, <3>3, <3>6
  <2> QED
    BY <2>2, <2>3
<1>2. CASE AgentRuns(m)
  <2>1. PICK to \in Live \cup {"returned", "raised"} :
            /\ Step(m, agent[m], to)
            /\ agent' = [agent EXCEPT ![m] = to]
            /\ IF to \in Live THEN UNCHANGED ended ELSE End(m, to)
    BY <1>2 DEF AgentRuns
  <2>2. /\ agent[m] \in Live
        /\ \A p \in Migration : p # m => row'[p] = row[p]
        /\ row[m] = None <=> row'[m] = None
        /\ row'[m] # None /\ row'[m].state \notin Terminal =>
              \/ to \in {"running", "failing", "raised"}
              \/ agent[m] = "undoing" /\ to = "returned" /\ row' = row
    BY <2>1, RunStep
  <2>3. /\ \A p \in Migration : p # m => ended'[p] = ended[p]
        /\ ended'[m] = IF to \in Live THEN ended[m] ELSE ended[m] \cup {to}
    BY <2>1, EndType DEF Ends
  <2>4. CASE q # m
    BY <1>k, <2>1, <2>2, <2>3, <2>4, KeptInv DEF TypeOK
  <2>5. CASE q = m
    <3>1. agent'[q] = to /\ to # "none" /\ agent[q] # "none"
      BY <2>1, <2>2, <2>5 DEF TypeOK, Live
    <3>2. Unsent(q)' /\ RowFirst(q)'
      BY <1>k, <2>2, <2>5, <3>1 DEF Unsent, RowFirst
    <3>3. Queued(q)' = Queued(q)
      BY <1>k DEF Queued
    <3>4. ended[q] \subseteq ended'[q]
      BY <2>3, <2>5
    <3>5. Alive(q)' /\ StraysCut(q)'
      BY <1>k, <3>4, AliveStep DEF StraysCut
    <3>6. Owed(q)'
      <4>1. SUFFICES ASSUME row'[q] # None, row'[q].state \notin Terminal,
                            ended'[q] \subseteq {"returned"}
                     PROVE  Pledged(q)'
        BY DEF Owed
      <4>2. CASE to \in {"running", "failing"}
        BY <3>1, <4>2 DEF Pledged
      <4>3. CASE to = "raised"
        BY <2>3, <2>5, <4>1, <4>3 DEF Live
      <4>4. CASE agent[m] = "undoing" /\ row' = row
        <5>1. Pledged(q)
          BY <2>5, <3>1, <3>4, <4>1, <4>4 DEF Owed
        <5> QED
          BY <1>k, <2>5, <3>3, <4>4, <5>1 DEF Pledged
      <4> QED
        BY <2>2, <2>5, <4>1, <4>2, <4>3, <4>4
    <3> QED
      BY <3>2, <3>5, <3>6
  <2> QED
    BY <2>4, <2>5
<1>3. CASE AbortChecks(m)
  BY <1>3, <1>k, KeptInv DEF AbortChecks
<1>4. CASE AbortWrites(m)
  <2>1. UNCHANGED <<agent, ended>> /\ Write(m, "ABORTED")
    BY <1>4 DEF AbortWrites
  <2>2. CASE q # m
    BY <1>k, <2>1, <2>2, KeptInv DEF Write, TypeOK
  <2>3. CASE q = m
    <3>1. row[q] # None /\ row'[q].state = "ABORTED"
      BY <2>1, <2>3 DEF Write, TypeOK
    <3>2. Unsent(q)' /\ Alive(q)' /\ StraysCut(q)'
      BY <1>k, <2>1, AliveStep DEF Unsent, StraysCut
    <3>3. row'[q] # None
      BY <2>1, <2>3, NoneAssumption DEF Write, TypeOK, Rows, States, Terminal
    <3>4. RowFirst(q)' /\ Owed(q)'
      BY <3>1, <3>3 DEF RowFirst, Owed, Terminal
    <3> QED
      BY <3>2, <3>4
  <2> QED
    BY <2>2, <2>3
<1> QED
  BY <1>1, <1>2, <1>3, <1>4

\* A crash of the agent, and a call that sends a task.
LEMMA CrashInv ==
    ASSUME TypeOK, NEW q \in Migration, MInv(q), AgentCrashes
    PROVE  MInv(q)'
<1> USE DEF MInv
<1>1. UNCHANGED <<row, queue, unacked, job, stray, sends>>
  BY DEF AgentCrashes, broker
<1>2. CASE agent[q] \notin Live
  <2>1. agent'[q] = agent[q] /\ ended'[q] = ended[q]
    BY <1>2 DEF AgentCrashes
  <2> QED
    BY <1>1, <2>1, KeptInv
<1>3. CASE agent[q] \in Live
  <2>1. agent'[q] = "lost" /\ ended'[q] = ended[q] \cup {"lost"}
    BY <1>3 DEF AgentCrashes
  <2>2. agent[q] # "none"
    BY <1>3 DEF Live
  <2>3. Unsent(q)' /\ RowFirst(q)' /\ StraysCut(q)' /\ Owed(q)'
    BY <1>1, <2>1, <2>2 DEF Unsent, RowFirst, StraysCut, Owed
  <2>4. Alive(q)'
    BY <1>1, <2>1, AliveStep
  <2> QED
    BY <2>3, <2>4
<1> QED
  BY <1>2, <1>3

LEMMA SendInv ==
    ASSUME TypeOK, Entries, NEW q \in Migration, MInv(q), NEW m \in Migration, ExecuteMigration(m)
    PROVE  MInv(q)'
<1> USE DEF MInv
<1>1. /\ sends' = [sends EXCEPT ![m] = @ + 1] /\ Publish(m, 0)
      /\ UNCHANGED <<row, agent, unacked, job, stray, ended>>
  BY DEF ExecuteMigration
<1>2. 0 \in Tries
  BY ServiceBounds DEF Tries
<1>3. PICK y \in Messages :
          /\ y.m = m /\ queue' = queue \cup {y}
          /\ \A w \in Worker : ~Holds(w, y)
  BY <1>1, <1>2, PublishStep
<1>4. CASE q # m
  BY <1>1, <1>3, <1>4, KeptInv DEF TypeOK
<1>5. CASE q = m
  <2>1. Queued(q)'
    BY <1>3, <1>5 DEF Queued
  <2>2. sends'[q] # 0
    BY <1>1, <1>5 DEF TypeOK
  <2>3. Alive(q)'
    <3>1. ~HandedOn(y)'
      BY <1>1, <1>3 DEF HandedOn, Holds
    <3> QED
      BY <1>3, <1>5, <3>1 DEF Alive
  <2> QED
    BY <1>1, <2>1, <2>2, <2>3 DEF Unsent, RowFirst, StraysCut, Owed, Pledged
<1> QED
  BY <1>4, <1>5

\* The broker: a message is taken, or delivered again.
LEMMA TakeInv ==
    ASSUME TypeOK, NEW q \in Migration, MInv(q), NEW w \in Worker, Take(w)
    PROVE  MInv(q)'
<1> USE DEF MInv
<1>1. PICK x \in queue :
          /\ queue' = queue \ {x} /\ unacked' = unacked \cup {x}
          /\ job' = [job EXCEPT ![w] = [msg |-> x, at |-> "begin"]]
  BY DEF Take
<1>2. job[w] = None /\ UNCHANGED <<row, agent, stray, sends, ended>>
  BY DEF Take
<1>3. job'[w] # None /\ job'[w].msg = x /\ job'[w].at = "begin"
  <2>1. [msg |-> x, at |-> "begin"] \in Jobs
    BY DEF TypeOK, Jobs, Live
  <2> QED
    BY <1>1, <2>1, NoneAssumption DEF TypeOK
<1>4. \A v \in Worker : v # w => job'[v] = job[v]
  BY <1>1 DEF TypeOK
<1>5. CASE q # x.m
  BY <1>1, <1>2, <1>3, <1>4, <1>5, KeptInv
<1>6. CASE q = x.m
  <2>1. Pledged(q)'
    BY <1>3, <1>6 DEF Pledged
  <2>2. sends[q] # 0
    BY <1>6 DEF Unsent
  <2>3. \A v \in Worker : job'[v] # None /\ job'[v].at = "retried" => job'[v] = job[v]
    BY <1>3, <1>4
  <2>4. Alive(q)'
    BY <1>1, <1>2, <2>3, AliveStep
  <2> QED
    BY <1>2, <2>1, <2>2, <2>4 DEF Unsent, RowFirst, StraysCut, Owed
<1> QED
  BY <1>5, <1>6

LEMMA RedeliverInv ==
    ASSUME TypeOK, NEW q \in Migration, MInv(q), Redeliver
    PROVE  MInv(q)'
<1> USE DEF MInv
<1>1. PICK x \in unacked : unacked' = unacked \ {x} /\ queue' = queue \cup {x}
  BY DEF Redeliver
<1>2. UNCHANGED <<row, agent, job, stray, sends, ended>>
  BY DEF Redeliver
<1>3. CASE q # x.m
  BY <1>1, <1>2, <1>3, KeptInv
<1>4. CASE q = x.m
  <2>1. Pledged(q)'
    BY <1>1, <1>4 DEF Pledged, Queued
  <2>2. sends[q] # 0
    BY <1>4 DEF Unsent
  <2>3. Alive(q)'
    BY <1>1, <1>2, AliveStep
  <2> QED
    BY <1>2, <2>1, <2>2, <2>3 DEF Unsent, RowFirst, StraysCut, Owed
<1> QED
  BY <1>3, <1>4

\* The workers: a job runs; a coroutine left behind runs.
LEMMA WorkerInv ==
    ASSUME TypeOK, NEW q \in Migration, MInv(q), NEW w \in Worker, WorkerRuns(w)
    PROVE  MInv(q)'
<1> USE DEF MInv
<1>1. PICK to \in Live \cup {"returned", "raised"} :
          Step(job[w].msg.m, job[w].at, to) /\ job' = [job EXCEPT ![w].at = to]
  BY DEF WorkerRuns
<1>2. /\ job[w] # None /\ job[w].at \in Live
      /\ UNCHANGED <<agent, queue, unacked, stray, sends, ended>>
  BY DEF WorkerRuns, Waiting
<1>3. /\ job[w].msg.m \in Migration /\ job'[w] # None
      /\ job'[w].msg = job[w].msg /\ job'[w].at = to
      /\ \A v \in Worker : v # w => job'[v] = job[v]
  BY <1>1, <1>2, JobType, MoveStep
<1>5. /\ \A p \in Migration : p # job[w].msg.m => row'[p] = row[p]
      /\ row[job[w].msg.m] = None <=> row'[job[w].msg.m] = None
      /\ row'[job[w].msg.m] # None /\ row'[job[w].msg.m].state \notin Terminal =>
            \/ to \in {"running", "failing", "raised"}
            \/ job[w].at = "undoing" /\ to = "returned" /\ row' = row
  BY <1>1, <1>3, RunStep
<1>6. CASE q # job[w].msg.m
  BY <1>2, <1>3, <1>5, <1>6, KeptInv
<1>7. CASE q = job[w].msg.m
  <2>1. Unsent(q)' /\ RowFirst(q)' /\ StraysCut(q)'
    BY <1>2, <1>5, <1>7 DEF Unsent, RowFirst, StraysCut
  <2>2. to # "retried"
    BY DEF Live
  <2>3. Alive(q)'
    BY <1>2, <1>3, <2>2, AliveStep
  <2>4. Owed(q)'
    <3>1. SUFFICES ASSUME row'[q] # None, row'[q].state \notin Terminal,
                          ended'[q] \subseteq {"returned"}
                   PROVE  Pledged(q)'
      BY DEF Owed
    <3>2. CASE to \in {"running", "failing", "raised"}
      BY <1>3, <1>7, <3>2 DEF Pledged
    <3>3. CASE job[w].at = "undoing" /\ row' = row
      <4>1. Pledged(q)
        BY <1>2, <1>7, <3>1, <3>3 DEF Owed, Unsent
      <4> QED
        BY <1>2, <1>3, <3>3, <4>1 DEF Pledged, Queued
    <3> QED
      BY <1>5, <1>7, <3>1, <3>2, <3>3
  <2> QED
    BY <2>1, <2>3, <2>4
<1> QED
  BY <1>6, <1>7

LEMMA StrayInv ==
    ASSUME TypeOK, NEW q \in Migration, MInv(q), NEW w \in Worker, StrayRuns(w)
    PROVE  MInv(q)'
<1> USE DEF MInv
<1>1. PICK c \in stray[w], to \in Live \cup {"returned", "raised"} :
          /\ Step(c.m, c.at, to)
          /\ stray' = [stray EXCEPT ![w] = (@ \ {c}) \cup
                          (IF to \in Live THEN {[c EXCEPT !.at = to]} ELSE {})]
  BY DEF StrayRuns
<1>2. UNCHANGED <<agent, queue, unacked, job, sends, ended>>
  BY DEF StrayRuns
<1>3. c \in [m : Migration, at : Live]
  BY DEF TypeOK
<1>4. /\ \A p \in Migration : p # c.m => row'[p] = row[p]
      /\ row[c.m] = None <=> row'[c.m] = None
  BY <1>1, <1>3, RunStep
<1>5. \A v \in Worker : \A d \in stray'[v] : \E e \in stray[v] : e.m = d.m
  <2>1. stray'[w] \subseteq stray[w] \cup {[c EXCEPT !.at = to]}
    BY <1>1 DEF TypeOK
  <2>2. [c EXCEPT !.at = to].m = c.m
    BY <1>3
  <2>3. \A v \in Worker : v # w => stray'[v] = stray[v]
    BY <1>1 DEF TypeOK
  <2> QED
    BY <2>1, <2>2, <2>3
<1>6. CASE q # c.m
  BY <1>2, <1>4, <1>5, <1>6, KeptInv
<1>7. CASE q = c.m
  <2>1. "cut" \in ended[q]
    BY <1>7 DEF StraysCut
  <2>2. Unsent(q)' /\ RowFirst(q)'
    BY <1>2, <1>4, <1>7 DEF Unsent, RowFirst
  <2>3. Alive(q)'
    BY <1>2, AliveStep
  <2>4. StraysCut(q)' /\ Owed(q)'
    BY <1>2, <2>1 DEF StraysCut, Owed
  <2> QED
    BY <2>2, <2>3, <2>4
<1> QED
  BY <1>6, <1>7

\* A task is cut, retried, acknowledged or killed, or its worker is lost.
LEMMA CutInv ==
    ASSUME TypeOK, NEW q \in Migration, MInv(q), NEW w \in Worker, SoftLimit(w)
    PROVE  MInv(q)'
<1> USE DEF MInv
<1>1. /\ job[w] # None /\ job' = [job EXCEPT ![w].at = "raised"]
      /\ stray' = [stray EXCEPT ![w] = @ \cup {[m |-> job[w].msg.m, at |-> job[w].at]}]
      /\ End(job[w].msg.m, "cut")
      /\ UNCHANGED <<row, agent, queue, unacked, sends>>
  BY DEF SoftLimit, Waiting
<1>2. /\ job[w].msg.m \in Migration /\ job'[w] # None
      /\ job'[w].msg = job[w].msg /\ job'[w].at = "raised"
      /\ \A v \in Worker : v # w => job'[v] = job[v]
  BY <1>1, JobType, MoveStep
<1>3. \A v \in Worker : v # w => stray'[v] = stray[v]
  BY <1>1 DEF TypeOK
<1>4. /\ ended'[job[w].msg.m] = ended[job[w].msg.m] \cup {"cut"}
      /\ \A p \in Migration : p # job[w].msg.m => ended'[p] = ended[p]
  BY <1>1, <1>2, EndType DEF Ends
<1>5. stray'[w] = stray[w] \cup {[m |-> job[w].msg.m, at |-> job[w].at]}
  BY <1>1 DEF TypeOK
<1>6. CASE q # job[w].msg.m
  <2>1. \A v \in Worker : \A c \in stray'[v] : c.m = q => \E d \in stray[v] : d.m = q
    BY <1>3, <1>5, <1>6
  <2> QED
    BY <1>1, <1>2, <1>4, <1>6, <2>1, KeptInv
<1>7. CASE q = job[w].msg.m
  <2>1. "cut" \in ended'[q] /\ ended[q] \subseteq ended'[q]
    BY <1>4, <1>7
  <2>2. sends[q] # 0
    BY <1>1, <1>7 DEF Unsent
  <2>3. Alive(q)'
    BY <1>1, <1>2, <2>1, AliveStep
  <2> QED
    BY <1>1, <2>1, <2>2, <2>3 DEF Unsent, RowFirst, StraysCut, Owed
<1> QED
  BY <1>6, <1>7

LEMMA RetryInv ==
    ASSUME TypeOK, Entries, NEW q \in Migration, MInv(q), NEW w \in Worker, Retry(w)
    PROVE  MInv(q)'
<1> USE DEF MInv
<1>1. /\ job[w] # None /\ job[w].at = "raised"
      /\ UNCHANGED <<row, agent, unacked, stray, sends, ended>>
  BY DEF Retry
<1>2. PICK at \in {"retried", "exhausted"} :
          /\ job' = [job EXCEPT ![w].at = at]
          /\ at = "retried" => /\ job[w].msg.tries < MaxRetries
                               /\ Publish(job[w].msg.m, job[w].msg.tries + 1)
          /\ at = "exhausted" => UNCHANGED queue
  BY DEF Retry
<1>3. /\ job[w].msg.m \in Migration /\ job[w].msg.tries \in Tries
      /\ job'[w] # None /\ job'[w].msg = job[w].msg /\ job'[w].at = at
      /\ \A v \in Worker : v # w => job'[v] = job[v]
  BY <1>1, <1>2, JobType, MoveStep
<1>4. CASE at = "exhausted"
  <2>1. UNCHANGED queue
    BY <1>2, <1>4
  <2>2. CASE q # job[w].msg.m
    BY <1>1, <1>3, <2>1, <2>2, KeptInv
  <2>3. CASE q = job[w].msg.m
    <3>1. sends[q] # 0
      BY <1>1, <2>3 DEF Unsent
    <3>2. Pledged(q)'
      BY <1>3, <1>4, <2>3 DEF Pledged
    <3>3. Alive(q)'
      BY <1>1, <1>3, <1>4, <2>1, AliveStep
    <3> QED
      BY <1>1, <3>1, <3>2, <3>3 DEF Unsent, RowFirst, StraysCut, Owed
  <2> QED
    BY <2>2, <2>3
<1>5. CASE at = "retried"
  <2>1. job[w].msg.tries + 1 \in Tries
    BY <1>2, <1>3, <1>5, ServiceBounds DEF Tries
  <2>2. PICK y \in Messages :
            /\ y.m = job[w].msg.m /\ queue' = queue \cup {y}
            /\ \A v \in Worker : ~Holds(v, y)
    BY <1>2, <1>3, <1>5, <2>1, PublishStep
  <2>3. CASE q # job[w].msg.m
    BY <1>1, <1>3, <2>2, <2>3, KeptInv
  <2>4. CASE q = job[w].msg.m
    <3>1. sends[q] # 0
      BY <1>1, <2>4 DEF Unsent
    <3>2. Pledged(q)'
      BY <2>2, <2>4 DEF Pledged, Queued
    <3>3. Alive(q)'
      <4>1. ~HandedOn(y)'
        BY <1>1, <1>3, <2>2 DEF HandedOn, Holds
      <4> QED
        BY <2>2, <2>4, <4>1 DEF Alive
    <3> QED
      BY <1>1, <3>1, <3>2, <3>3 DEF Unsent, RowFirst, StraysCut, Owed
  <2> QED
    BY <2>3, <2>4
<1> QED
  BY <1>4, <1>5

LEMMA AckInv ==
    ASSUME TypeOK, NEW q \in Migration, MInv(q), NEW w \in Worker, Ack(w)
    PROVE  MInv(q)'
<1> USE DEF MInv
<1>1. /\ job[w] # None /\ job[w].at \in {"returned", "retried", "exhausted"}
      /\ Forget(w)
      /\ IF job[w].at = "retried" THEN UNCHANGED ended ELSE End(job[w].msg.m, job[w].at)
      /\ UNCHANGED <<row, agent, queue, stray, sends>>
  BY DEF Ack
<1>2. /\ job[w].msg.m \in Migration /\ job'[w] = None
      /\ \A v \in Worker : v # w => job'[v] = job[v]
      /\ unacked' = unacked \ {job[w].msg}
  BY <1>1, JobType, ForgetStep
<1>4. /\ \A p \in Migration : p # job[w].msg.m => ended'[p] = ended[p]
      /\ ended'[job[w].msg.m] = IF job[w].at = "retried" THEN ended[job[w].msg.m]
                                ELSE ended[job[w].msg.m] \cup {job[w].at}
  BY <1>1, <1>2, EndType DEF Ends
<1>5. CASE q # job[w].msg.m
  BY <1>1, <1>2, <1>4, <1>5, KeptInv
<1>6. CASE q = job[w].msg.m
  <2>1. sends[q] # 0
    BY <1>1, <1>6 DEF Unsent
  <2>2. Queued(q)' = Queued(q)
    BY <1>1 DEF Queued
  <2>4. ended[q] \subseteq ended'[q]
    BY <1>4, <1>6
  <2>3. Alive(q)'
    <3>1. CASE job[w].at = "retried"
      <4>1. HandedOn(job[w].msg)
        BY <1>1, <3>1 DEF HandedOn, Holds
      <4> QED
        BY <1>1, <1>2, <2>4, <4>1, AliveStep
    <3>2. CASE job[w].at # "retried"
      BY <1>1, <1>4, <1>6, <3>2 DEF Alive
    <3> QED
      BY <3>1, <3>2
  <2>5. Unsent(q)' /\ RowFirst(q)' /\ StraysCut(q)'
    BY <1>1, <2>1, <2>4 DEF Unsent, RowFirst, StraysCut
  <2>6. Owed(q)'
    <3>1. SUFFICES ASSUME row'[q] # None, row'[q].state \notin Terminal,
                          ended'[q] \subseteq {"returned"}
                   PROVE  Pledged(q)'
      BY DEF Owed
    <3>2. job[w].at \in {"returned", "retried"}
      BY <1>1, <1>4, <1>6, <3>1
    <3>3. Pledged(q)
      BY <1>1, <2>1, <2>4, <3>1 DEF Owed
    <3> QED
      BY <1>1, <1>2, <2>2, <3>2, <3>3 DEF Pledged
  <2> QED
    BY <2>3, <2>5, <2>6
<1> QED
  BY <1>5, <1>6

LEMMA KilledInv ==
    ASSUME TypeOK, NEW q \in Migration, MInv(q), NEW w \in Worker, HardLimit(w)
    PROVE  MInv(q)'
<1> USE DEF MInv
<1>1. /\ job[w] # None /\ Forget(w)
      /\ stray' = [stray EXCEPT ![w] = {}]
      /\ End(job[w].msg.m, "killed")
      /\ UNCHANGED <<row, agent, queue, sends>>
  BY DEF HardLimit
<1>2. /\ job[w].msg.m \in Migration /\ job'[w] = None
      /\ \A v \in Worker : v # w => job'[v] = job[v]
      /\ unacked' = unacked \ {job[w].msg}
  BY <1>1, JobType, ForgetStep
<1>3. stray'[w] = {} /\ \A v \in Worker : v # w => stray'[v] = stray[v]
  BY <1>1 DEF TypeOK
<1>4. /\ \A p \in Migration : p # job[w].msg.m => ended'[p] = ended[p]
      /\ ended'[job[w].msg.m] = ended[job[w].msg.m] \cup {"killed"}
  BY <1>1, <1>2, EndType DEF Ends
<1>5. CASE q # job[w].msg.m
  BY <1>1, <1>2, <1>3, <1>4, <1>5, KeptInv
<1>6. CASE q = job[w].msg.m
  <2>1. sends[q] # 0 /\ "killed" \in ended'[q] /\ ended[q] \subseteq ended'[q]
    BY <1>1, <1>4, <1>6 DEF Unsent
  <2>2. StraysCut(q)'
    BY <1>3, <2>1 DEF StraysCut
  <2> QED
    BY <1>1, <2>1, <2>2 DEF Unsent, RowFirst, Alive, Owed
<1> QED
  BY <1>5, <1>6

LEMMA LostInv ==
    ASSUME TypeOK, NEW q \in Migration, MInv(q), NEW w \in Worker, WorkerLost(w)
    PROVE  MInv(q)'
<1> USE DEF MInv
<1>1. /\ job[w] # None /\ Forget(w)
      /\ stray' = [stray EXCEPT ![w] = {}]
      /\ UNCHANGED <<row, agent, sends>>
      /\ IF job[w].msg \in queue \cup unacked
         THEN queue' = queue \cup {job[w].msg} /\ UNCHANGED ended
         ELSE End(job[w].msg.m, "dropped") /\ UNCHANGED queue
  BY DEF WorkerLost
<1>2. /\ job[w].msg.m \in Migration /\ job'[w] = None
      /\ \A v \in Worker : v # w => job'[v] = job[v]
      /\ unacked' = unacked \ {job[w].msg}
  BY <1>1, JobType, ForgetStep
<1>3. stray'[w] = {} /\ \A v \in Worker : v # w => stray'[v] = stray[v]
  BY <1>1 DEF TypeOK
<1>4. /\ \A p \in Migration : p # job[w].msg.m => ended'[p] = ended[p]
      /\ ended[job[w].msg.m] \subseteq ended'[job[w].msg.m]
  BY <1>1, <1>2, EndType DEF Ends
<1>5. CASE q # job[w].msg.m
  BY <1>1, <1>2, <1>3, <1>4, <1>5, KeptInv
<1>6. CASE q = job[w].msg.m
  <2>1. sends[q] # 0
    BY <1>1, <1>6 DEF Unsent
  <2>2. StraysCut(q)'
    BY <1>3, <1>4, <1>6 DEF StraysCut
  <2>3. queue \cup unacked \subseteq (queue \cup unacked)'
    BY <1>1, <1>2
  <2>4. Alive(q)'
    BY <1>1, <1>2, <1>4, <1>6, <2>3, AliveStep
  <2>5. Owed(q)'
    <3>1. CASE job[w].msg \in queue \cup unacked
      BY <1>1, <1>6, <3>1 DEF Owed, Pledged, Queued
    <3>2. CASE job[w].msg \notin queue \cup unacked
      <4>1. "dropped" \in ended'[q]
        BY <1>1, <1>2, <1>6, <3>2, EndType DEF Ends
      <4> QED
        BY <4>1 DEF Owed
    <3> QED
      BY <3>1, <3>2
  <2> QED
    BY <1>1, <2>1, <2>2, <2>4, <2>5 DEF Unsent, RowFirst
<1> QED
  BY <1>5, <1>6

----------------------------------------------------------------------------
(* Counting what may run.                                                  *)

\* A set that grows by one element at most, and one that lost an element.
LEMMA AtMostOneMore ==
    ASSUME NEW S, NEW T, NEW x, IsFiniteSet(S), T \subseteq S \cup {x}
    PROVE  IsFiniteSet(T) /\ Cardinality(T) \in Nat /\ Cardinality(S) \in Nat
           /\ Cardinality(T) <= Cardinality(S) + 1
<1>1. /\ IsFiniteSet(S \cup {x})
      /\ Cardinality(S \cup {x}) = IF x \in S THEN Cardinality(S) ELSE Cardinality(S) + 1
  BY FS_AddElement
<1>2. IsFiniteSet(T) /\ Cardinality(T) <= Cardinality(S \cup {x})
  BY <1>1, FS_Subset
<1>3. Cardinality(S) \in Nat /\ Cardinality(T) \in Nat
  BY <1>2, FS_CardinalityType
<1> QED
  BY <1>1, <1>2, <1>3

LEMMA OneLess ==
    ASSUME NEW S, NEW T, NEW x \in S, IsFiniteSet(S), T \subseteq S \ {x}
    PROVE  IsFiniteSet(T) /\ Cardinality(T) \in Nat /\ Cardinality(S) \in Nat
           /\ Cardinality(T) + 1 <= Cardinality(S)
<1>1. IsFiniteSet(S \ {x}) /\ Cardinality(S \ {x}) = Cardinality(S) - 1
  BY FS_RemoveElement
<1>2. IsFiniteSet(T) /\ Cardinality(T) <= Cardinality(S \ {x})
  BY <1>1, FS_Subset
<1>3. Cardinality(S) \in Nat /\ Cardinality(T) \in Nat
  BY <1>2, FS_CardinalityType
<1> QED
  BY <1>1, <1>2, <1>3

LEMMA NoMore ==
    ASSUME NEW S, NEW T, IsFiniteSet(S), T \subseteq S
    PROVE  IsFiniteSet(T) /\ Cardinality(T) \in Nat /\ Cardinality(S) \in Nat
           /\ Cardinality(T) <= Cardinality(S)
<1>1. IsFiniteSet(T) /\ Cardinality(T) <= Cardinality(S)
  BY FS_Subset
<1> QED
  BY <1>1, FS_CardinalityType

\* There are finitely many workers, and places where a coroutine can be left.
LEMMA WorkersFinite ==
    ASSUME NEW q
    PROVE  /\ IsFiniteSet(Busy(q)) /\ IsFiniteSet(Strays(q))
           /\ IsFiniteSet(Busy(q)') /\ IsFiniteSet(Strays(q)')
<1>1. IsFiniteSet({"begin"} \cup {"running"} \cup {"failing"} \cup {"undoing"})
  BY FS_Singleton, FS_Union
<1>2. Live = {"begin"} \cup {"running"} \cup {"failing"} \cup {"undoing"}
  BY DEF Live
<1>3. IsFiniteSet(Worker \X Live)
  BY <1>1, <1>2, FS_Product, ServiceBounds
<1>4. /\ Busy(q) \subseteq Worker /\ Strays(q) \subseteq Worker \X Live
      /\ Busy(q)' \subseteq Worker /\ Strays(q)' \subseteq Worker \X Live
  BY DEF Busy, Strays
<1> QED
  BY <1>3, <1>4, FS_Subset, ServiceBounds

\* The count of q goes up by one only where what it is bounded by does.
LEMMA CountKept ==
    ASSUME TypeOK, NEW q \in Migration, Counted(q),
           Mail(q)' \subseteq Mail(q),
           Busy(q)' \subseteq Busy(q), Strays(q)' \subseteq Strays(q),
           sends'[q] = sends[q], faults' = faults
    PROVE  Counted(q)'
<1>1. /\ IsFiniteSet(Mail(q)') /\ Cardinality(Mail(q)') \in Nat
      /\ Cardinality(Mail(q)) \in Nat
      /\ Cardinality(Mail(q)') <= Cardinality(Mail(q))
  BY NoMore DEF Counted
<1>2. /\ Cardinality(Busy(q)') \in Nat /\ Cardinality(Busy(q)) \in Nat
      /\ Cardinality(Busy(q)') <= Cardinality(Busy(q))
  BY WorkersFinite, NoMore
<1>3. /\ Cardinality(Strays(q)') \in Nat /\ Cardinality(Strays(q)) \in Nat
      /\ Cardinality(Strays(q)') <= Cardinality(Strays(q))
  BY WorkersFinite, NoMore
<1> QED
  BY <1>1, <1>2, <1>3 DEF Counted, TypeOK

\* One more message, and one more call or fault to account for it.
LEMMA CountPublished ==
    ASSUME TypeOK, NEW q \in Migration, Counted(q), NEW x,
           Mail(q)' \subseteq Mail(q) \cup {x},
           Busy(q)' \subseteq Busy(q), Strays(q)' \subseteq Strays(q),
           sends'[q] \in Nat, faults' \in Nat,
           sends'[q] + faults' = sends[q] + faults + 1
    PROVE  Counted(q)'
<1>1. /\ IsFiniteSet(Mail(q)') /\ Cardinality(Mail(q)') \in Nat
      /\ Cardinality(Mail(q)) \in Nat
      /\ Cardinality(Mail(q)') <= Cardinality(Mail(q)) + 1
  BY AtMostOneMore DEF Counted
<1>2. /\ Cardinality(Busy(q)') \in Nat /\ Cardinality(Busy(q)) \in Nat
      /\ Cardinality(Busy(q)') <= Cardinality(Busy(q))
  BY WorkersFinite, NoMore
<1>3. /\ Cardinality(Strays(q)') \in Nat /\ Cardinality(Strays(q)) \in Nat
      /\ Cardinality(Strays(q)') <= Cardinality(Strays(q))
  BY WorkersFinite, NoMore
<1> QED
  BY <1>1, <1>2, <1>3 DEF Counted, TypeOK

\* A step that changes neither messages, jobs nor coroutines of q changes no count.
LEMMA CountUntouched ==
    ASSUME TypeOK, NEW q \in Migration, Counted(q),
           UNCHANGED <<queue, job, stray, sends, faults>>
    PROVE  Counted(q)'
BY CountKept DEF Mail, Busy, Strays

\* A message becomes a job.
LEMMA TakeCount ==
    ASSUME TypeOK, NEW q \in Migration, Counted(q), NEW w \in Worker, Take(w)
    PROVE  Counted(q)'
<1>1. PICK x \in queue :
          /\ queue' = queue \ {x} /\ unacked' = unacked \cup {x}
          /\ job' = [job EXCEPT ![w] = [msg |-> x, at |-> "begin"]]
  BY DEF Take
<1>2. UNCHANGED <<stray, sends, faults>>
  BY DEF Take
<1>3. Strays(q)' = Strays(q)
  BY <1>2 DEF Strays
<1>4. \A v \in Worker : v # w => job'[v] = job[v]
  BY <1>1 DEF TypeOK
<1>5. job'[w].msg = x
  BY <1>1 DEF TypeOK
<1>6. CASE q # x.m
  <2>1. Mail(q)' \subseteq Mail(q)
    BY <1>1 DEF Mail
  <2>2. Busy(q)' \subseteq Busy(q)
    BY <1>4, <1>5, <1>6 DEF Busy
  <2> QED
    BY <1>2, <1>3, <2>1, <2>2, CountKept
<1>7. CASE q = x.m
  <2>1. x \in Mail(q) /\ Mail(q)' \subseteq Mail(q) \ {x}
    BY <1>1, <1>7 DEF Mail
  <2>2. Busy(q)' \subseteq Busy(q) \cup {w}
    BY <1>4 DEF Busy
  <2>3. /\ IsFiniteSet(Mail(q)') /\ Cardinality(Mail(q)') \in Nat
        /\ Cardinality(Mail(q)) \in Nat
        /\ Cardinality(Mail(q)') + 1 <= Cardinality(Mail(q))
    BY <2>1, OneLess DEF Counted
  <2>4. /\ Cardinality(Busy(q)') \in Nat /\ Cardinality(Busy(q)) \in Nat
        /\ Cardinality(Busy(q)') <= Cardinality(Busy(q)) + 1
    BY <2>2, WorkersFinite, AtMostOneMore
  <2>5. Cardinality(Strays(q)) \in Nat
    BY WorkersFinite, FS_CardinalityType
  <2> QED
    BY <1>2, <1>3, <2>3, <2>4, <2>5 DEF Counted, TypeOK
<1> QED
  BY <1>6, <1>7

\* A coroutine left behind moves on, or ends.
LEMMA StrayCount ==
    ASSUME TypeOK, NEW q \in Migration, Counted(q), NEW w \in Worker, StrayRuns(w)
    PROVE  Counted(q)'
<1>1. PICK c \in stray[w], to \in Live \cup {"returned", "raised"} :
          stray' = [stray EXCEPT ![w] = (@ \ {c}) \cup
                          (IF to \in Live THEN {[c EXCEPT !.at = to]} ELSE {})]
  BY DEF StrayRuns
<1>2. UNCHANGED <<queue, job, sends, faults>>
  BY DEF StrayRuns
<1>3. Mail(q)' = Mail(q) /\ Busy(q)' = Busy(q)
  BY <1>2 DEF Mail, Busy
<1>4. /\ c \in [m : Migration, at : Live]
      /\ \A v \in Worker : v # w => stray'[v] = stray[v]
      /\ stray'[w] \subseteq (stray[w] \ {c}) \cup {[m |-> c.m, at |-> to]}
  BY <1>1 DEF TypeOK
<1>5. CASE q # c.m
  <2>1. Strays(q)' \subseteq Strays(q)
    BY <1>4, <1>5 DEF Strays
  <2> QED
    BY <1>2, <1>3, <2>1, CountKept
<1>6. CASE q = c.m
  <2> DEFINE x == <<w, c.at>>
             y == <<w, to>>
  <2>1. c = [m |-> q, at |-> c.at]
    BY <1>4, <1>6
  <2>2. x \in Strays(q)
    BY <1>4, <2>1 DEF Strays
  <2>3. Strays(q)' \subseteq (Strays(q) \ {x}) \cup {y}
    <3>1. ASSUME NEW z \in Strays(q)', z # y PROVE z \in Strays(q) \ {x}
      <4>1. z \in Worker \X Live /\ [m |-> q, at |-> z[2]] \in stray'[z[1]]
        BY <3>1 DEF Strays
      <4>2. CASE z[1] = w
        <5>1. z[2] # to
          BY <3>1, <4>1, <4>2
        <5>2. [m |-> q, at |-> z[2]] # [m |-> c.m, at |-> to]
          BY <5>1
        <5>3. [m |-> q, at |-> z[2]] \in stray[w] \ {c}
          BY <1>4, <4>1, <4>2, <5>2
        <5>4. z[2] # c.at
          BY <2>1, <5>3
        <5> QED
          BY <4>1, <4>2, <5>3, <5>4 DEF Strays
      <4>3. CASE z[1] # w
        BY <1>4, <4>1, <4>3 DEF Strays
      <4> QED
        BY <4>2, <4>3
    <3> QED
      BY <3>1
  <2> HIDE DEF x, y
  <2>4. /\ IsFiniteSet(Strays(q) \ {x}) /\ Cardinality(Strays(q) \ {x}) \in Nat
        /\ Cardinality(Strays(q)) \in Nat
        /\ Cardinality(Strays(q) \ {x}) + 1 <= Cardinality(Strays(q))
    BY <2>2, WorkersFinite, OneLess
  <2>5. /\ Cardinality(Strays(q)') \in Nat
        /\ Cardinality(Strays(q)') <= Cardinality(Strays(q) \ {x}) + 1
    BY <2>3, <2>4, AtMostOneMore
  <2>6. Cardinality(Busy(q)) \in Nat /\ Cardinality(Mail(q)) \in Nat
    BY WorkersFinite, FS_CardinalityType DEF Counted
  <2> QED
    BY <1>2, <1>3, <2>4, <2>5, <2>6 DEF Counted, TypeOK
<1> QED
  BY <1>5, <1>6

\* A cut leaves a coroutine behind, and is counted.
LEMMA CutCount ==
    ASSUME TypeOK, NEW q \in Migration, Counted(q), NEW w \in Worker, SoftLimit(w)
    PROVE  Counted(q)'
<1>1. /\ job[w] # None /\ job[w].at \in Live
      /\ job' = [job EXCEPT ![w].at = "raised"]
      /\ stray' = [stray EXCEPT ![w] = @ \cup {[m |-> job[w].msg.m, at |-> job[w].at]}]
      /\ faults' = faults + 1
      /\ UNCHANGED <<queue, sends>>
  BY DEF SoftLimit, Waiting
<1> DEFINE x == <<w, job[w].at>>
<1>2. Mail(q)' = Mail(q)
  BY <1>1 DEF Mail
<1>3. Busy(q)' \subseteq Busy(q)
  <2>1. job'[w].msg = job[w].msg /\ \A v \in Worker : v # w => job'[v] = job[v]
    BY <1>1, MoveStep
  <2> QED
    BY <1>1, <2>1 DEF Busy
<1>4. Strays(q)' \subseteq Strays(q) \cup {x}
  <2>1. /\ stray'[w] = stray[w] \cup {[m |-> job[w].msg.m, at |-> job[w].at]}
        /\ \A v \in Worker : v # w => stray'[v] = stray[v]
    BY <1>1 DEF TypeOK
  <2>2. ASSUME NEW z \in Strays(q)', z \notin Strays(q) PROVE z = x
    <3>1. z \in Worker \X Live /\ [m |-> q, at |-> z[2]] \in stray'[z[1]]
      BY <2>2 DEF Strays
    <3>2. [m |-> q, at |-> z[2]] \notin stray[z[1]]
      BY <2>2, <3>1 DEF Strays
    <3>3. z[1] = w /\ [m |-> q, at |-> z[2]] = [m |-> job[w].msg.m, at |-> job[w].at]
      BY <2>1, <3>1, <3>2
    <3>4. z[2] = job[w].at
      BY <3>3
    <3> QED
      BY <3>1, <3>3, <3>4
  <2> QED
    BY <2>2
<1> HIDE DEF x
<1>5. /\ Cardinality(Strays(q)') \in Nat /\ Cardinality(Strays(q)) \in Nat
      /\ Cardinality(Strays(q)') <= Cardinality(Strays(q)) + 1
  BY <1>4, WorkersFinite, AtMostOneMore
<1>6. /\ Cardinality(Busy(q)') \in Nat /\ Cardinality(Busy(q)) \in Nat
      /\ Cardinality(Busy(q)') <= Cardinality(Busy(q))
  BY <1>3, WorkersFinite, NoMore
<1>7. Cardinality(Mail(q)) \in Nat
  BY FS_CardinalityType DEF Counted
<1> QED
  BY <1>1, <1>2, <1>5, <1>6, <1>7 DEF Counted, TypeOK

\* A retry turns a job that raised into a message, or ends it.
LEMMA RetryCount ==
    ASSUME TypeOK, Entries, NEW q \in Migration, Counted(q), NEW w \in Worker, Retry(w)
    PROVE  Counted(q)'
<1>1. /\ job[w] # None /\ job[w].at = "raised"
      /\ UNCHANGED <<stray, sends, faults>>
  BY DEF Retry
<1>2. PICK at \in {"retried", "exhausted"} :
          /\ job' = [job EXCEPT ![w].at = at]
          /\ at = "retried" => /\ job[w].msg.tries < MaxRetries
                               /\ Publish(job[w].msg.m, job[w].msg.tries + 1)
          /\ at = "exhausted" => UNCHANGED queue
  BY DEF Retry
<1>3. /\ job[w].msg.m \in Migration /\ job[w].msg.tries \in Tries
      /\ job'[w].msg = job[w].msg /\ job'[w].at = at
      /\ \A v \in Worker : v # w => job'[v] = job[v]
  BY <1>1, <1>2, JobType, MoveStep
<1>4. Strays(q)' = Strays(q)
  BY <1>1 DEF Strays
<1>5. Busy(q)' \subseteq Busy(q) \ {w}
  BY <1>3 DEF Busy, Live
<1>6. CASE at = "exhausted"
  <2>1. Mail(q)' = Mail(q)
    BY <1>2, <1>6 DEF Mail
  <2> QED
    BY <1>1, <1>4, <1>5, <2>1, CountKept
<1>7. CASE at = "retried"
  <2>1. job[w].msg.tries + 1 \in Tries
    BY <1>2, <1>3, <1>7, ServiceBounds DEF Tries
  <2>2. PICK y : y.m = job[w].msg.m /\ queue' = queue \cup {y}
    BY <1>2, <1>3, <1>7, <2>1, PublishStep
  <2>3. CASE q # job[w].msg.m
    <3>1. Mail(q)' = Mail(q)
      BY <2>2, <2>3 DEF Mail
    <3> QED
      BY <1>1, <1>4, <1>5, <3>1, CountKept
  <2>4. CASE q = job[w].msg.m
    <3>1. Mail(q)' \subseteq Mail(q) \cup {y}
      BY <2>2 DEF Mail
    <3>2. /\ IsFiniteSet(Mail(q)') /\ Cardinality(Mail(q)') \in Nat
          /\ Cardinality(Mail(q)) \in Nat
          /\ Cardinality(Mail(q)') <= Cardinality(Mail(q)) + 1
      BY <3>1, AtMostOneMore DEF Counted
    <3>3. w \in Busy(q)
      BY <1>1, <2>4 DEF Busy
    <3>4. /\ Cardinality(Busy(q)') \in Nat /\ Cardinality(Busy(q)) \in Nat
          /\ Cardinality(Busy(q)') + 1 <= Cardinality(Busy(q))
      BY <1>5, <3>3, WorkersFinite, OneLess
    <3>5. Cardinality(Strays(q)) \in Nat
      BY WorkersFinite, FS_CardinalityType
    <3> QED
      BY <1>1, <1>4, <3>2, <3>4, <3>5 DEF Counted, TypeOK
  <2> QED
    BY <2>3, <2>4
<1> QED
  BY <1>6, <1>7

\* Steps that publish nothing: a job goes on, or is given up for good.
LEMMA OtherCounts ==
    ASSUME TypeOK, NEW q \in Migration, Counted(q), NEW w \in Worker,
           WorkerRuns(w) \/ Ack(w) \/ HardLimit(w)
    PROVE  Counted(q)'
<1>1. UNCHANGED <<queue, sends, faults>>
  BY DEF WorkerRuns, Ack, HardLimit
<1>2. Mail(q)' = Mail(q)
  BY <1>1 DEF Mail
<1>3. CASE WorkerRuns(w)
  <2>1. PICK to \in Live \cup {"returned", "raised"} : job' = [job EXCEPT ![w].at = to]
    BY <1>3 DEF WorkerRuns
  <2>2. job[w] # None /\ job[w].at \in Live
    BY <1>3 DEF WorkerRuns, Waiting
  <2>3. job'[w].msg = job[w].msg /\ \A v \in Worker : v # w => job'[v] = job[v]
    BY <2>1, <2>2, MoveStep
  <2>4. Busy(q)' \subseteq Busy(q)
    BY <2>2, <2>3 DEF Busy
  <2>5. Strays(q)' = Strays(q)
    BY <1>3 DEF WorkerRuns, Strays
  <2> QED
    BY <1>1, <1>2, <2>4, <2>5, CountKept
<1>4. CASE Ack(w) \/ HardLimit(w)
  <2>1. job[w] # None /\ Forget(w)
    BY <1>4 DEF Ack, HardLimit
  <2>2. Busy(q)' \subseteq Busy(q)
    BY <2>1, ForgetStep DEF Busy
  <2>3. \A v \in Worker : stray'[v] \subseteq stray[v]
    BY <1>4 DEF Ack, HardLimit, TypeOK
  <2>4. Strays(q)' \subseteq Strays(q)
    BY <2>3 DEF Strays
  <2> QED
    BY <1>1, <1>2, <2>2, <2>4, CountKept
<1> QED
  BY <1>3, <1>4

\* A worker that is lost, and a message delivered again, are faults that may each
\* add a message.
LEMMA LostCount ==
    ASSUME TypeOK, NEW q \in Migration, Counted(q), NEW w \in Worker, WorkerLost(w)
    PROVE  Counted(q)'
<1>1. /\ job[w] # None /\ Forget(w)
      /\ stray' = [stray EXCEPT ![w] = {}]
      /\ faults' = faults + 1 /\ UNCHANGED sends
      /\ queue' \subseteq queue \cup {job[w].msg}
  BY DEF WorkerLost
<1>2. Busy(q)' \subseteq Busy(q)
  BY <1>1, ForgetStep DEF Busy
<1>3. Strays(q)' \subseteq Strays(q)
  BY <1>1 DEF Strays, TypeOK
<1>4. Mail(q)' \subseteq Mail(q) \cup {job[w].msg}
  BY <1>1 DEF Mail
<1>5. /\ sends'[q] \in Nat /\ faults' \in Nat
      /\ sends'[q] + faults' = sends[q] + faults + 1
  BY <1>1, ServiceBounds DEF TypeOK
<1> QED
  BY <1>2, <1>3, <1>4, <1>5, CountPublished

LEMMA RedeliverCount ==
    ASSUME TypeOK, NEW q \in Migration, Counted(q), Redeliver
    PROVE  Counted(q)'
<1>1. PICK x : queue' = queue \cup {x}
  BY DEF Redeliver
<1>2. faults' = faults + 1 /\ UNCHANGED <<job, stray, sends>>
  BY DEF Redeliver
<1>3. /\ Mail(q)' \subseteq Mail(q) \cup {x}
      /\ Busy(q)' = Busy(q) /\ Strays(q)' = Strays(q)
  BY <1>1, <1>2 DEF Mail, Busy, Strays
<1>4. /\ sends'[q] \in Nat /\ faults' \in Nat
      /\ sends'[q] + faults' = sends[q] + faults + 1
  BY <1>2, ServiceBounds DEF TypeOK
<1> QED
  BY <1>3, <1>4, CountPublished

\* The call that sends a task.
LEMMA SendCount ==
    ASSUME TypeOK, Entries, NEW q \in Migration, Counted(q), NEW m \in Migration, ExecuteMigration(m)
    PROVE  Counted(q)'
<1>1. /\ sends' = [sends EXCEPT ![m] = @ + 1] /\ Publish(m, 0)
      /\ UNCHANGED <<job, stray, faults>>
  BY DEF ExecuteMigration
<1>2. 0 \in Tries
  BY ServiceBounds DEF Tries
<1>3. Busy(q)' = Busy(q) /\ Strays(q)' = Strays(q)
  BY <1>1 DEF Busy, Strays
<1>4. PICK y : y.m = m /\ queue' = queue \cup {y}
  BY <1>1, <1>2, PublishStep
<1>5. CASE q # m
  <2>1. Mail(q)' = Mail(q)
    BY <1>4, <1>5 DEF Mail
  <2> QED
    BY <1>1, <1>3, <1>5, <2>1, CountKept DEF TypeOK
<1>6. CASE q = m
  <2>1. Mail(q)' \subseteq Mail(q) \cup {y}
    BY <1>4 DEF Mail
  <2>2. /\ sends'[q] \in Nat /\ faults' \in Nat
        /\ sends'[q] + faults' = sends[q] + faults + 1
    <3>1. sends[q] \in Nat /\ faults \in Nat
      BY ServiceBounds DEF TypeOK
    <3>2. sends'[q] = sends[q] + 1 /\ faults' = faults
      BY <1>1, <1>6 DEF TypeOK
    <3> QED
      BY <3>1, <3>2
  <2> QED
    BY <1>3, <2>1, <2>2, CountPublished
<1> QED
  BY <1>5, <1>6

----------------------------------------------------------------------------
(* The invariant.                                                          *)

LEMMA InitInv == Init => IInv
<1> SUFFICES ASSUME Init PROVE IInv
  OBVIOUS
<1>1. TypeOK
  <2>1. sends \in [Migration -> 0..MaxSends] /\ faults \in 0..MaxFaults
    BY ServiceBounds DEF Init
  <2> QED
    BY <2>1 DEF Init, TypeOK
<1>2. Entries
  BY FS_EmptySet DEF Init, Entries
<1>3. ASSUME NEW q \in Migration PROVE MInv(q) /\ Counted(q)
  <2>1. /\ row[q] = None /\ agent[q] = "none" /\ ended[q] = {} /\ sends[q] = 0
        /\ queue = {} /\ unacked = {}
        /\ \A w \in Worker : job[w] = None /\ stray[w] = {}
    BY DEF Init
  <2>2. MInv(q)
    BY <2>1 DEF MInv, Unsent, RowFirst, Alive, StraysCut, Owed
  <2>3. Mail(q) = {} /\ Busy(q) = {} /\ Strays(q) = {}
    BY <2>1 DEF Mail, Busy, Strays
  <2>4. Counted(q)
    BY <2>1, <2>3, FS_EmptySet DEF Counted, Init
  <2> QED
    BY <2>2, <2>4
<1> QED
  BY <1>1, <1>2, <1>3 DEF IInv

LEMMA StepInv == IInv /\ [Next]_vars => IInv'
<1> SUFFICES ASSUME IInv, [Next]_vars PROVE IInv'
  OBVIOUS
<1>1. TypeOK' /\ Entries'
  BY TypeStep, EntriesStep DEF IInv
<1>2. ASSUME NEW q \in Migration PROVE MInv(q)' /\ Counted(q)'
  <2>0. TypeOK /\ Entries /\ MInv(q) /\ Counted(q)
    BY DEF IInv
  <2>1. ASSUME NEW m \in Migration,
               \/ Migrate(m) \/ SchedulerInserts(m) \/ AgentRuns(m) \/ AbortChecks(m)
               \/ AbortWrites(m)
        PROVE  MInv(q)' /\ Counted(q)'
    <3>1. UNCHANGED <<queue, job, stray, sends, faults>>
      BY <2>1 DEF Migrate, SchedulerInserts, AgentRuns, AbortChecks, AbortWrites, broker
    <3> QED
      BY <2>0, <2>1, <3>1, AgentInv, CountUntouched
  <2>2. CASE AgentCrashes
    <3>1. UNCHANGED <<queue, job, stray, sends, faults>>
      BY <2>2 DEF AgentCrashes, broker
    <3> QED
      BY <2>0, <2>2, <3>1, CrashInv, CountUntouched
  <2>3. ASSUME NEW m \in Migration, ExecuteMigration(m) PROVE MInv(q)' /\ Counted(q)'
    BY <2>0, <2>3, SendInv, SendCount
  <2>4. ASSUME NEW w \in Worker, Take(w) PROVE MInv(q)' /\ Counted(q)'
    BY <2>0, <2>4, TakeInv, TakeCount
  <2>5. ASSUME NEW w \in Worker, WorkerRuns(w) PROVE MInv(q)' /\ Counted(q)'
    BY <2>0, <2>5, WorkerInv, OtherCounts
  <2>6. ASSUME NEW w \in Worker, StrayRuns(w) PROVE MInv(q)' /\ Counted(q)'
    BY <2>0, <2>6, StrayInv, StrayCount
  <2>7. ASSUME NEW w \in Worker, SoftLimit(w) PROVE MInv(q)' /\ Counted(q)'
    BY <2>0, <2>7, CutInv, CutCount
  <2>8. ASSUME NEW w \in Worker, Retry(w) PROVE MInv(q)' /\ Counted(q)'
    BY <2>0, <2>8, RetryInv, RetryCount
  <2>9. ASSUME NEW w \in Worker, Ack(w) PROVE MInv(q)' /\ Counted(q)'
    BY <2>0, <2>9, AckInv, OtherCounts
  <2>10. ASSUME NEW w \in Worker, HardLimit(w) PROVE MInv(q)' /\ Counted(q)'
    BY <2>0, <2>10, KilledInv, OtherCounts
  <2>11. ASSUME NEW w \in Worker, WorkerLost(w) PROVE MInv(q)' /\ Counted(q)'
    BY <2>0, <2>11, LostInv, LostCount
  <2>12. CASE Redeliver
    BY <2>0, <2>12, RedeliverInv, RedeliverCount
  <2>13. CASE UNCHANGED vars
    <3>1. MInv(q)'
      BY <2>0, <2>13, KeptInv DEF vars
    <3>2. UNCHANGED <<queue, job, stray, sends, faults>>
      BY <2>13 DEF vars
    <3> QED
      BY <2>0, <3>1, <3>2, CountUntouched
  <2> QED
    BY <2>1, <2>2, <2>3, <2>4, <2>5, <2>6, <2>7, <2>8, <2>9, <2>10, <2>11, <2>12, <2>13
       DEF Next
<1> QED
  BY <1>1, <1>2 DEF IInv

LEMMA Inductive == Spec => []IInv
  BY InitInv, StepInv, PTL DEF Spec

----------------------------------------------------------------------------
(* Theorems.                                                               *)

\* The variables keep the types of what they stand for, for any migrations,
\* workers and bounds.
THEOREM TypeCorrect == Spec => []TypeOK
<1>1. IInv => TypeOK
  BY DEF IInv
<1> QED
  BY <1>1, Inductive, PTL

\* A task that ExecuteMigration queued is in the broker or at a worker until a run
\* of it returned, its retries are used up or the hard limit killed it (acks_late,
\* reject_on_worker_lost, migration_tasks.py:26-27), whatever workers die, messages
\* are redelivered and acknowledged for each other, and tasks are cut.
THEOREM NotLostHolds == Spec => []NotLost
<1>1. IInv => NotLost
  <2>1. ASSUME Entries, NEW m \in Migration, Alive(m), sends[m] > 0
        PROVE  \/ Queued(m) \/ Held(m) # {}
               \/ ended[m] \cap {"returned", "exhausted", "killed"} # {}
    BY <2>1 DEF Alive, Entries, Holds, Queued, Held
  <2> QED
    BY <2>1 DEF IInv, MInv, NotLost
<1> QED
  BY <1>1, Inductive, PTL

\* Runs of a migration go on side by side in the workers no more often than it was
\* sent, a worker was lost, a message redelivered or a task cut (migration_tasks.py:33,
\* :50, config.py:109).
THEOREM NoSpontaneousRunsHolds == Spec => []NoSpontaneousRuns
<1>1. IInv => NoSpontaneousRuns
  <2> SUFFICES ASSUME IInv, NEW m \in Migration
               PROVE  Cardinality({w \in Held(m) : Waiting(w)}) + Cardinality(Strays(m))
                         <= sends[m] + faults
    BY DEF NoSpontaneousRuns
  <2>1. TypeOK /\ Counted(m)
    BY DEF IInv
  <2> DEFINE W == {w \in Held(m) : Waiting(w)}
  <2>2. W \subseteq Busy(m)
    BY DEF Held, Waiting, Busy
  <2> HIDE DEF W
  <2>3. /\ Cardinality(W) \in Nat /\ Cardinality(Busy(m)) \in Nat
        /\ Cardinality(W) <= Cardinality(Busy(m))
    BY <2>2, WorkersFinite, NoMore
  <2>4. Cardinality(Mail(m)) \in Nat /\ Cardinality(Strays(m)) \in Nat
    BY <2>1, WorkersFinite, FS_CardinalityType DEF Counted
  <2>5. Cardinality(W) + Cardinality(Strays(m)) <= sends[m] + faults
    BY <2>1, <2>3, <2>4, ServiceBounds DEF Counted, TypeOK
  <2> QED
    BY <2>5 DEF W
<1> QED
  BY <1>1, Inductive, PTL

\* When all runs of a migration have returned and none can start, its row is in a
\* terminal state, whichever of the writers wrote it last (_transition and _fail,
\* engine.py:91-134; abort_migration, migrations.py:83-97).
THEOREM EndShownHolds == Spec => []EndShown
<1>1. IInv => EndShown
  <2>1. ASSUME NEW m \in Migration, MInv(m), row[m] # None, ended[m] = {"returned"}, Quiet(m)
        PROVE  row[m].state \in Terminal
    <3>1. ~Pledged(m)
      BY <2>1 DEF Quiet, Pledged, Held, Live
    <3>2. ~(sends[m] = 0 /\ agent[m] = "none")
      BY <2>1 DEF MInv, Unsent
    <3> QED
      BY <2>1, <3>1, <3>2 DEF MInv, Owed
  <2> QED
    BY <2>1 DEF IInv, EndShown
<1> QED
  BY <1>1, Inductive, PTL
=============================================================================
