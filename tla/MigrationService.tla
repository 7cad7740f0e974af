-------------------------- MODULE MigrationService --------------------------
(***************************************************************************)
(* Who starts a migration engine, how often, and who else writes its row:  *)
(* cnf/api/v1/vms.py runs it as a background task of the agent,            *)
(* cnf/grpc/server.py queues it for cnf/tasks/migration_tasks.py, whose    *)
(* Celery workers acknowledge late and retry, the scheduler only inserts   *)
(* the row, and cnf/api/v1/migrations.py overwrites it to abort.           *)
(*                                                                         *)
(* The engine is reduced to what the row shows of it: RUNNING (the states  *)
(* PREFLIGHT to CLEANUP) and its end.  A run is at one of                  *)
(*   begin, running      before its first and its other transitions,       *)
(*   failing             before _fail,                                     *)
(*   undoing             in its rollback handlers,                         *)
(*   returned, raised    how run() ended.                                  *)
(* A worker has one event loop, which runs only while it waits for a task. *)
(***************************************************************************)
EXTENDS Naturals, FiniteSets

CONSTANTS
    Migration,   \* identifiers of migrations
    Worker,      \* Celery worker processes
    MaxRetries,  \* max_retries of the task
    MaxSends,    \* bound: ExecuteMigration calls
    Listening,   \* those that consume the queue the tasks are sent to
    MaxFaults,   \* bound: workers lost, tasks cut and messages redelivered
    None

ASSUME ServiceBounds ==
    /\ MaxRetries \in Nat /\ MaxSends \in Nat /\ MaxFaults \in Nat
    /\ IsFiniteSet(Migration) /\ IsFiniteSet(Worker) /\ Listening \subseteq Worker

VARIABLES
    row,      \* the Migration row, or None
    agent,    \* the background task of the migration in the agent
    abort,    \* migrations whose abort request has passed its check
    queue,    \* messages in the broker's queue
    unacked,  \* messages delivered, and kept by the broker to be delivered again
    job,      \* the task each worker has taken and not given up
    stray,    \* coroutines left suspended in the event loop of each worker
    sends,    \* ExecuteMigration calls for each migration
    ended,    \* how runs of each migration have ended so far
    faults    \* workers lost, tasks cut and messages redelivered

broker == <<queue, unacked, job, stray>>
vars == <<row, agent, abort, queue, unacked, job, stray, sends, ended, faults>>

Live     == {"begin", "running", "failing", "undoing"}
Terminal == {"DONE", "FAILED", "ABORTED"}
States   == {"PENDING", "RUNNING"} \cup Terminal
Tries    == 0..MaxRetries
Ends     == {"returned", "exhausted", "raised", "lost", "cut", "killed", "dropped"}
Messages == [m : Migration, tries : Tries, n : Nat]
Jobs     == [msg : Messages, at : Live \cup {"returned", "raised", "retried", "exhausted"}]
Rows     == [state : States, finished : BOOLEAN]

ASSUME NoneAssumption == None \notin Jobs \cup Rows

TypeOK ==
    /\ row \in [Migration -> Rows \cup {None}]
    /\ agent \in [Migration -> Live \cup {"none", "returned", "raised", "lost"}]
    /\ abort \subseteq Migration
    /\ queue \subseteq Messages /\ unacked \subseteq Messages
    /\ job \in [Worker -> Jobs \cup {None}]
    /\ stray \in [Worker -> SUBSET [m : Migration, at : Live]]
    /\ sends \in [Migration -> 0..MaxSends]
    /\ ended \in [Migration -> SUBSET Ends]
    /\ faults \in 0..MaxFaults

Init ==
    /\ row = [m \in Migration |-> None]
    /\ agent = [m \in Migration |-> "none"]
    /\ abort = {}
    /\ queue = {} /\ unacked = {}
    /\ job = [w \in Worker |-> None]
    /\ stray = [w \in Worker |-> {}]
    /\ sends = [m \in Migration |-> 0]
    /\ ended = [m \in Migration |-> {}]
    /\ faults = 0

----------------------------------------------------------------------------
(* One step of a run of migration m, from one place to another.            *)

\* A transaction on the row, if there is one: finished_at is set with an end.
Write(m, state) ==
    /\ row[m] # None
    /\ row' = [row EXCEPT ![m] = [state |-> state,
                                  finished |-> @.finished \/ state \in {"DONE", "FAILED"}]]

\* What _transition writes at each place, and where the run goes from there.
Entered == [begin |-> "RUNNING", running |-> "DONE"]
After   == [begin |-> "running", running |-> "returned"]

\* _transition: without a row its event violates a foreign key.  The commit, or
\* a step before it, may fail, and the answer of a commit may be lost.
Advance(m, from, to) ==
    /\ from \in DOMAIN After
    /\ \/ Write(m, Entered[from]) /\ to \in {After[from], "failing"}
       \/ Write(m, "RUNNING") /\ from = "running" /\ to = "running"
       \/ to = "failing" /\ UNCHANGED row

\* Variant: an error of _fail is swallowed.
FailSwallowed(m, from, to) ==
    /\ from = "failing"
    /\ \/ Write(m, "FAILED") /\ to = "undoing"
       \/ to = "undoing" /\ UNCHANGED row

\* _fail: run() goes on to the rollback handlers only if its commit succeeds.
Fail(m, from, to) ==
    /\ from = "failing"
    /\ \/ Write(m, "FAILED") /\ to \in {"undoing", "raised"}
       \/ to = "raised" /\ UNCHANGED row
       \/ to = "undoing" /\ row[m] = None /\ UNCHANGED row

Undo(from, to) == from = "undoing" /\ to = "returned" /\ UNCHANGED row

Step(m, from, to) == Advance(m, from, to) \/ Fail(m, from, to) \/ Undo(from, to)

End(m, how) == ended' = [ended EXCEPT ![m] = @ \cup {how}]

----------------------------------------------------------------------------
(* The REST API, in the agent.                                             *)

\* A row under a fresh identifier.
Insert(m) ==
    /\ row[m] = None /\ sends[m] = 0
    /\ row' = [row EXCEPT ![m] = [state |-> "PENDING", finished |-> FALSE]]

\* migrate_vm and live_migrate_vm: the row, then the background task.  If the
\* commit raises although it took effect, there is a row and no task.
Migrate(m) ==
    /\ Insert(m)
    /\ agent' = [agent EXCEPT ![m] = "begin"] \/ UNCHANGED agent
    /\ UNCHANGED <<abort, broker, sends, ended, faults>>

\* _run_migration.
AgentRuns(m) ==
    \E to \in Live \cup {"returned", "raised"} :
        /\ Step(m, agent[m], to)
        /\ agent' = [agent EXCEPT ![m] = to]
        /\ IF to \in Live THEN UNCHANGED ended ELSE End(m, to)
        /\ UNCHANGED <<abort, broker, sends, faults>>

\* abort_migration, first transaction: the state is checked.
AbortChecks(m) ==
    /\ row[m] # None /\ row[m].state \notin Terminal
    /\ abort' = abort \cup {m}
    /\ UNCHANGED <<row, agent, broker, sends, ended, faults>>

\* ... and the second: whatever the state is by now, it is overwritten.
AbortWrites(m) ==
    /\ m \in abort
    /\ Write(m, "ABORTED")
    /\ abort' = abort \ {m}
    /\ UNCHANGED <<agent, broker, sends, ended, faults>>

\* The agent dies, with its background tasks and requests, and is restarted.
AgentCrashes ==
    LET gone == {m \in Migration : agent[m] \in Live}
    IN  /\ gone # {}
        /\ agent' = [m \in Migration |-> IF m \in gone THEN "lost" ELSE agent[m]]
        /\ ended' = [m \in Migration |->
                        IF m \in gone THEN ended[m] \cup {"lost"} ELSE ended[m]]
        /\ abort' = {}
        /\ UNCHANGED <<row, broker, sends, faults>>

----------------------------------------------------------------------------
(* The scheduler and the control service.                                  *)

\* The scheduler's row; nothing hands it to a worker.
SchedulerInserts(m) ==
    /\ Insert(m)
    /\ UNCHANGED <<agent, abort, broker, sends, ended, faults>>

\* The messages that the broker or a worker knows of, and a number among 0..Known
\* that tells a new one from them.
Known == queue \cup unacked \cup {job[w].msg : w \in {v \in Worker : job[v] # None}}
Fresh == CHOOSE n \in 0..Cardinality(Known) : \A x \in Known : x.n # n

Publish(m, t) == queue' = queue \cup {[m |-> m, tries |-> t, n |-> Fresh]}

\* ExecuteMigration and ExecuteLiveMigration: one more message, whatever the
\* identifier; no row is looked up or written.
ExecuteMigration(m) ==
    /\ sends[m] < MaxSends
    /\ sends' = [sends EXCEPT ![m] = @ + 1]
    /\ Publish(m, 0)
    /\ UNCHANGED <<row, agent, abort, unacked, job, stray, ended, faults>>

----------------------------------------------------------------------------
(* The Celery worker w.                                                    *)

\* A message is delivered, to be acknowledged when the task is over: until then
\* the broker keeps it.
Take(w) ==
    /\ w \in Listening /\ job[w] = None
    /\ \E x \in queue :
        /\ queue' = queue \ {x}
        /\ unacked' = unacked \cup {x}
        /\ job' = [job EXCEPT ![w] = [msg |-> x, at |-> "begin"]]
    /\ UNCHANGED <<row, agent, abort, stray, sends, ended, faults>>

\* A message that was kept for the visibility timeout goes back to the queue,
\* whether its task is still running or not.
Redeliver ==
    /\ faults < MaxFaults
    /\ faults' = faults + 1
    /\ \E x \in unacked :
        /\ unacked' = unacked \ {x}
        /\ queue' = queue \cup {x}
    /\ UNCHANGED <<row, agent, abort, job, stray, sends, ended>>

\* Worker w is in run_until_complete: its event loop turns.
Waiting(w) == job[w] # None /\ job[w].at \in Live

WorkerRuns(w) ==
    /\ Waiting(w)
    /\ \E to \in Live \cup {"returned", "raised"} :
        /\ Step(job[w].msg.m, job[w].at, to)
        /\ job' = [job EXCEPT ![w].at = to]
    /\ UNCHANGED <<agent, abort, queue, unacked, stray, sends, ended, faults>>

\* A coroutine left behind by an earlier task goes on meanwhile.
StrayRuns(w) ==
    /\ Waiting(w)
    /\ \E c \in stray[w], to \in Live \cup {"returned", "raised"} :
        /\ Step(c.m, c.at, to)
        /\ stray' = [stray EXCEPT ![w] = (@ \ {c}) \cup
                        (IF to \in Live THEN {[c EXCEPT !.at = to]} ELSE {})]
    /\ UNCHANGED <<agent, abort, queue, unacked, job, sends, ended, faults>>

\* SoftTimeLimitExceeded is raised in the loop: run_until_complete ends, and the
\* coroutine stays where it is.
SoftLimit(w) ==
    /\ faults < MaxFaults
    /\ Waiting(w)
    /\ faults' = faults + 1
    /\ stray' = [stray EXCEPT ![w] = @ \cup {[m |-> job[w].msg.m, at |-> job[w].at]}]
    /\ job' = [job EXCEPT ![w].at = "raised"]
    /\ End(job[w].msg.m, "cut")
    /\ UNCHANGED <<row, agent, abort, queue, unacked, sends>>

\* Variants: the exception is only logged; the retries are not counted.
RetryLogged(w) ==
    /\ job[w] # None /\ job[w].at = "raised"
    /\ job' = [job EXCEPT ![w].at = "returned"]
    /\ UNCHANGED <<row, agent, abort, queue, unacked, stray, sends, ended, faults>>

RetryUncounted(w) ==
    /\ job[w] # None /\ job[w].at = "raised"
    /\ Publish(job[w].msg.m, job[w].msg.tries + 1)
    /\ job' = [job EXCEPT ![w].at = "retried"]
    /\ UNCHANGED <<row, agent, abort, unacked, stray, sends, ended, faults>>

\* self.retry: a new message, unless the retries are used up.
Retry(w) ==
    /\ job[w] # None /\ job[w].at = "raised"
    /\ \/ /\ job[w].msg.tries < MaxRetries
          /\ Publish(job[w].msg.m, job[w].msg.tries + 1)
          /\ job' = [job EXCEPT ![w].at = "retried"]
       \/ /\ job[w].msg.tries = MaxRetries
          /\ job' = [job EXCEPT ![w].at = "exhausted"]
          /\ UNCHANGED queue
    /\ UNCHANGED <<row, agent, abort, unacked, stray, sends, ended, faults>>

\* What the broker keeps is found by the message alone: after a redelivery, the
\* first run to be over has removed it for the other one too.
Forget(w) == unacked' = unacked \ {job[w].msg} /\ job' = [job EXCEPT ![w] = None]

\* Variant: a task that is retried goes back to the queue as well.
AckRejected(w) ==
    /\ job[w] # None /\ job[w].at \in {"returned", "retried", "exhausted"}
    /\ Forget(w)
    /\ \/ job[w].at = "retried" /\ queue' = queue \cup {job[w].msg} /\ UNCHANGED ended
       \/ job[w].at # "retried" /\ End(job[w].msg.m, job[w].at) /\ UNCHANGED queue
    /\ UNCHANGED <<row, agent, abort, stray, sends, faults>>

\* The task is over, in one way or the other, and is acknowledged.
Ack(w) ==
    /\ job[w] # None /\ job[w].at \in {"returned", "retried", "exhausted"}
    /\ Forget(w)
    /\ IF job[w].at = "retried" THEN UNCHANGED ended ELSE End(job[w].msg.m, job[w].at)
    /\ UNCHANGED <<row, agent, abort, queue, stray, sends, faults>>

\* The hard time limit kills the worker's process and its task is acknowledged:
\* late acknowledgement covers failures and timeouts.
HardLimit(w) ==
    /\ job[w] # None
    /\ Forget(w)
    /\ stray' = [stray EXCEPT ![w] = {}]
    /\ End(job[w].msg.m, "killed")
    /\ UNCHANGED <<row, agent, abort, queue, sends, faults>>

\* Variant: a task whose worker is lost is acknowledged.
WorkerLostAcked(w) ==
    /\ faults < MaxFaults
    /\ job[w] # None
    /\ faults' = faults + 1
    /\ Forget(w)
    /\ stray' = [stray EXCEPT ![w] = {}]
    /\ UNCHANGED <<row, agent, abort, queue, sends, ended>>

\* The worker's process dies otherwise: the message is rejected and queued again,
\* if the broker still has it; the coroutines of the process are gone.
WorkerLost(w) ==
    /\ faults < MaxFaults
    /\ job[w] # None
    /\ faults' = faults + 1
    /\ Forget(w)
    /\ stray' = [stray EXCEPT ![w] = {}]
    /\ IF job[w].msg \in queue \cup unacked
       THEN queue' = queue \cup {job[w].msg} /\ UNCHANGED ended
       ELSE End(job[w].msg.m, "dropped") /\ UNCHANGED queue
    /\ UNCHANGED <<row, agent, abort, sends>>

----------------------------------------------------------------------------

Next ==
    \/ \E m \in Migration :
        \/ SchedulerInserts(m) \/ ExecuteMigration(m)
        \/ Migrate(m) \/ AgentRuns(m) \/ AbortChecks(m) \/ AbortWrites(m)
    \/ AgentCrashes \/ Redeliver
    \/ \E w \in Worker :
        \/ Take(w) \/ WorkerRuns(w) \/ StrayRuns(w) \/ SoftLimit(w)
        \/ Retry(w) \/ Ack(w) \/ HardLimit(w) \/ WorkerLost(w)

\* Running agents and workers go on, through finitely many transitions, and a
\* message is delivered to a free worker that listens.  Crashes, time limits,
\* redeliveries, requests and suspended coroutines have no fairness.
Fairness ==
    /\ \A m \in Migration : WF_vars(AgentRuns(m) /\ agent'[m] # agent[m])
    /\ \A w \in Worker :
        /\ WF_vars(Take(w))
        /\ WF_vars((WorkerRuns(w) \/ Retry(w) \/ Ack(w)) /\ job'[w] # job[w])

Spec == Init /\ [][Next]_vars /\ Fairness

----------------------------------------------------------------------------
(* Properties.                                                             *)

Held(m)   == {w \in Worker : job[w] # None /\ job[w].msg.m = m}
Strays(m) == {x \in Worker \X Live : [m |-> m, at |-> x[2]] \in stray[x[1]]}
Queued(m) == \E x \in queue : x.m = m

Finished(m) == row[m] # None /\ row[m].finished

\* Nothing can start or resume a run of m any more.
Quiet(m) ==
    /\ agent[m] \notin Live
    /\ ~Queued(m) /\ Held(m) = {}
    /\ \A w \in Worker : \A c \in stray[w] : c.m # m

\* acks_late and reject_on_worker_lost (migration_tasks.py:26-27): a task that
\* was accepted is in the broker or at a worker until a run of it has returned, its
\* retries are used up or the hard time limit killed it (config.py:114), wherever
\* workers die, and although the first acknowledgement of a message that was
\* delivered twice takes the other run's as well.
NotLost ==
    \A m \in Migration :
        sends[m] > 0 => \/ Queued(m) \/ Held(m) # {}
                        \/ ended[m] \cap {"returned", "exhausted", "killed"} # {}

\* The workers run a migration side by side with itself no more often than its
\* task was sent, a worker was lost (between retry and acknowledgement, say), a
\* message outlived the visibility timeout of Redis (config.py:109) or the soft
\* limit left a coroutine behind (migration_tasks.py:33, :50): a retry, or an
\* acknowledgement that comes late, adds no run of its own.
NoSpontaneousRuns ==
    \A m \in Migration :
        Cardinality({w \in Held(m) : Waiting(w)})
            + Cardinality(Strays(m))
        <= sends[m] + faults

\* When all runs of a migration have returned, in the agent or in workers, after
\* whatever redeliveries and aborts, its row is left in a terminal state: no
\* run is hidden by what another one wrote.
EndShown ==
    \A m \in Migration :
        row[m] # None /\ ended[m] = {"returned"} /\ Quiet(m) => row[m].state \in Terminal

\* A task that is queued for a row finishes it, unless a time limit cut or killed
\* it, every retry raised, or its worker died when another run of the message had
\* acknowledged it; a background task does unless its agent dies or the commit of
\* _fail raised.
Concludes ==
    \A m \in Migration :
        /\ row[m] # None /\ Queued(m)
              ~> Finished(m) \/ ended[m] \cap {"cut", "exhausted", "killed", "dropped"} # {}
        /\ agent[m] = "begin"
              ~> Finished(m) \/ ended[m] \cap {"raised", "lost"} # {}

----------------------------------------------------------------------------
(* What the documentation says and the code does not do.                   *)

\* docs/Architecture.md:317-319: "DONE --> [*]", "FAILED --> [*]", "ABORTED --> [*]".
\* Whatever an engine, its agent and an abort write, a row stays at its end.
EndsAreFinal ==
    [][\A m \in Migration :
        row[m] # None /\ row[m].state \in Terminal => row'[m].state = row[m].state]_vars
=============================================================================
