------------------------------- MODULE Agent -------------------------------
(***************************************************************************)
(* cnf/agent/agent.py: the agent of one cluster from start() to stop(),    *)
(* with its scheduler.  The election is seen through the role it gives the *)
(* agent and the callback it then awaits: it wins and loses as             *)
(* RoleCallbacks says, which RaftElection implements.                      *)
(***************************************************************************)
EXTENDS Scheduler

CONSTANT Self  \* the agent's own cluster

ASSUME AgentAssumption ==
    /\ Self \in Cluster
    /\ None \notin {"MASTER", "WORKER"}

VARIABLES
    pc,       \* how far start() or stop() has come
    role,     \* role of the election
    callback, \* the callback the election loop is waiting for
    dbRole,   \* role in the agent's Cluster row, or None before the first start
    since     \* what has kept the three views of the role apart, if anything,
              \* since a callback last returned

agentVars == <<pc, role, callback, dbRole, since>>
vars == <<schedulerVars, agentVars>>

TypeOK ==
    /\ SchedulerTypeOK
    /\ pc \in {"down", "registered", "electing", "up", "stopping"}
    /\ role \in {"MASTER", "WORKER"}
    /\ callback \in {"none", "become", "lose"}
    /\ dbRole \in {"MASTER", "WORKER", None}
    /\ since \subseteq {"early", "failed", "restarted"}

Init ==
    /\ SchedulerInit
    /\ pc = "down"
    /\ role = "WORKER"
    /\ callback = "none"
    /\ dbRole = None
    /\ since = {}

----------------------------------------------------------------------------
(* start() and stop().                                                     *)

\* init_db and _upsert_self_cluster: a row that exists keeps its role.
Register ==
    /\ pc = "down"
    /\ pc' = "registered"
    /\ dbRole' = IF dbRole = None THEN "WORKER" ELSE dbRole
    /\ UNCHANGED <<schedulerVars, role, callback, since>>

StartElection ==
    /\ pc = "registered"
    /\ pc' = "electing"
    /\ UNCHANGED <<schedulerVars, role, callback, dbRole, since>>

\* The servers are up: the scheduler is created, knowing of no master.
StartScheduler ==
    /\ pc = "electing"
    /\ pc' = "up"
    /\ scheduler' = "off"
    /\ UNCHANGED <<round, metric, queued, role, callback, dbRole, since>>

\* What the transaction of a callback commits to the Cluster row.
Shown == IF callback = "become" THEN "MASTER" ELSE "WORKER"

\* A callback is cut short, before or after its commit.
Cut == dbRole' \in {dbRole, IF callback = "none" THEN dbRole ELSE Shown}

\* stop() cancels the election; the scheduler is left running.
Stop ==
    /\ pc = "up"
    /\ pc' = "stopping"
    /\ callback' = "none"
    /\ Cut
    /\ since' = IF callback = "none" THEN since ELSE since \cup {"failed"}
    /\ UNCHANGED <<schedulerVars, role>>

\* The process ends, after stop() or in a crash.
Exit ==
    /\ pc # "down"
    /\ pc' = "down"
    /\ role' = "WORKER"
    /\ callback' = "none"
    /\ scheduler' = "none"
    /\ Sleep
    /\ Cut
    /\ since' = IF dbRole' = "MASTER" THEN {"restarted"} ELSE {}
    /\ UNCHANGED <<metric, queued>>

----------------------------------------------------------------------------
(* The election and its callbacks.                                         *)

Electing == pc \in {"electing", "up"}

Election == INSTANCE RoleCallbacks WITH running <- Electing

Win ==
    /\ UNCHANGED <<schedulerVars, pc, dbRole, since>>
    /\ Election!Win

Lose ==
    /\ UNCHANGED <<schedulerVars, pc, dbRole, since>>
    /\ Election!Lose

\* Variants: losing leaves the scheduler alone; it leaves the row alone.
CallbackOnlyBecomes ==
    /\ callback # "none"
    /\ callback' = "none"
    /\ dbRole' = Shown
    /\ scheduler' = IF scheduler # "none" /\ callback = "become" THEN "on" ELSE scheduler
    /\ since' = IF scheduler = "none" THEN {"early"} ELSE {}
    /\ UNCHANGED <<round, metric, queued, pc, role>>

CallbackKeepsRow ==
    /\ callback # "none"
    /\ callback' = "none"
    /\ dbRole' = IF callback = "become" THEN "MASTER" ELSE dbRole
    /\ scheduler' = IF scheduler = "none" THEN "none"
                    ELSE IF callback = "become" THEN "on" ELSE "off"
    /\ since' = IF scheduler = "none" THEN {"early"} ELSE {}
    /\ UNCHANGED <<round, metric, queued, pc, role>>

\* _on_become_master and _on_lose_master: the row, then the scheduler, if it exists.
CallbackReturns ==
    /\ callback # "none"
    /\ callback' = "none"
    /\ dbRole' = Shown
    /\ scheduler' = IF scheduler = "none" THEN "none"
                    ELSE IF callback = "become" THEN "on" ELSE "off"
    /\ since' = IF scheduler = "none" THEN {"early"} ELSE {}
    /\ UNCHANGED <<round, metric, queued, pc, role>>

\* The transaction raises, committed or not: the scheduler is not told, and the
\* election loop goes on with the new role.
CallbackRaises ==
    /\ callback # "none"
    /\ callback' = "none"
    /\ Cut
    /\ since' = since \cup {"failed"}
    /\ UNCHANGED <<schedulerVars, pc, role>>

----------------------------------------------------------------------------

\* _metrics_loop here, and in the agents of the other clusters.
Collect(c) ==
    /\ c # Self \/ pc = "up"
    /\ StoreMetric(c)
    /\ UNCHANGED agentVars

Schedule == (Wake \/ RoundStep) /\ UNCHANGED agentVars

Next ==
    \/ Register \/ StartElection \/ StartScheduler \/ Stop \/ Exit
    \/ Win \/ Lose \/ CallbackReturns \/ CallbackRaises
    \/ \E c \in Cluster : Collect(c)
    \/ Schedule

\* The event loop resumes the scheduler and a callback; its transactions end, and
\* not every round of a running scheduler fails while it reads.  Nothing is
\* assumed of starts, stops, crashes, the election or metrics.
Fairness ==
    /\ WF_vars(Schedule)
    /\ WF_vars(CallbackReturns \/ CallbackRaises)

Spec == Init /\ [][Next]_vars /\ Fairness

----------------------------------------------------------------------------
(* Properties.                                                             *)

\* Between callbacks, the role of the election, the role in the Cluster row and
\* the scheduler's flag are the same, unless since then the agent won before the
\* scheduler existed, a callback failed or the agent was restarted with its row
\* still saying MASTER (agent.py:138-154).
ViewsAgree ==
    pc = "up" /\ callback = "none" /\ since = {} =>
        /\ dbRole = role
        /\ (scheduler = "on") <=> (role = "MASTER")

\* A migration goes from a cluster that was more loaded in the snapshots to one
\* that was less, whatever policies and stale or missing metrics the round met
\* (scheduler.py:129-141).
Downhill == queued # None => queued.source # queued.dest /\ queued.from > queued.to

\* An agent that stays a worker stops scheduling, a round that outlived its
\* mastership included, unless the callback that should have told it failed.
LoserFallsSilent ==
    <>[](pc = "up" /\ role = "WORKER" /\ since = {}) => <>[](at = "asleep")

\* An agent that stays master keeps evaluating, unless it was never told.
MasterSchedules ==
    <>[](pc = "up" /\ role = "MASTER" /\ since = {}) => []<>(at = "metrics")

\* In a round that has its snapshots, a policy that fails does not keep the ones
\* after it from being applied (scheduler.py:73-79).
EveryPolicyApplied ==
    (at = "policy" /\ k = 1)
        ~> (at = "policy" /\ k = Len(Policies)) \/ pc = "down"
============================================================================
