----------------------------- MODULE Scheduler -----------------------------
(***************************************************************************)
(* cnf/scheduler/scheduler.py: on the master, round after round, the       *)
(* latest stored metric of every cluster is compared with the policies and *)
(* a migration is queued from each cluster that violates one.              *)
(*                                                                         *)
(* A metric is reduced to one load, which triggers compare with a limit.   *)
(* The rows a round inserts are what Agent and MigrationService call       *)
(* SchedulerInserts; here only the last one of a round is kept.            *)
(***************************************************************************)
EXTENDS Naturals, Sequences

CONSTANTS
    Cluster,   \* the registered clusters
    MaxLoad,   \* loads are 0..MaxLoad
    Policies,  \* the enabled policies, by priority
    None

Loads == 0..MaxLoad

ASSUME SchedulerAssumption ==
    /\ MaxLoad \in Nat
    /\ None \notin Cluster \cup Loads
    /\ Policies \in Seq([limit : Loads, target : {"least_loaded", "other"}])

VARIABLES
    scheduler,  \* "none" before it is created, then what set_master said last
    at,         \* the await the loop is at
    snap,       \* the snapshots of the round; None while not taken
    k,          \* the policy being applied
    dest,       \* the destination it picked
    todo,       \* the clusters it still has to relieve
    metric,     \* the latest ClusterMetric of each cluster, or None
    queued      \* the migration this round queued last, with the loads behind it

round == <<at, snap, k, dest, todo>>
schedulerVars == <<scheduler, at, snap, k, dest, todo, metric, queued>>

Blank == [c \in Cluster |-> None]
Rows  == [source : Cluster, dest : Cluster, from : Loads, to : Loads]

SchedulerTypeOK ==
    /\ scheduler \in {"none", "off", "on"}
    /\ at \in {"asleep", "metrics", "policy", "listing"}
    /\ snap \in [Cluster -> Loads \cup {None}]
    /\ k \in {1} \cup 1..Len(Policies)
    /\ dest \in Cluster \cup {None}
    /\ todo \subseteq Cluster
    /\ metric \in [Cluster -> Loads \cup {None}]
    /\ queued \in Rows \cup {None}

Asleep == at = "asleep" /\ snap = Blank /\ k = 1 /\ dest = None /\ todo = {}

SchedulerInit ==
    /\ scheduler = "none"
    /\ Asleep
    /\ metric = Blank
    /\ queued = None

Sleep == at' = "asleep" /\ snap' = Blank /\ k' = 1 /\ dest' = None /\ todo' = {}

----------------------------------------------------------------------------

\* run(): after the interval, a round, if the scheduler was told it is on the
\* master.  It is not asked again until the round is over.
Wake ==
    /\ at = "asleep"
    /\ scheduler = "on"
    /\ at' = "metrics"
    /\ queued' = None
    /\ UNCHANGED <<scheduler, snap, k, dest, todo, metric>>

\* _collect_snapshots, one transaction for each cluster: a cluster without any
\* metric has load 0.
ReadMetric(c) ==
    /\ at = "metrics" /\ snap[c] = None
    /\ snap' = [snap EXCEPT ![c] = IF metric[c] = None THEN 0 ELSE metric[c]]
    /\ UNCHANGED <<scheduler, at, k, dest, todo, metric, queued>>

\* _load_policies.
LoadPolicies ==
    /\ at = "metrics" /\ \A c \in Cluster : snap[c] # None
    /\ IF Policies = <<>> THEN Sleep
       ELSE at' = "policy" /\ UNCHANGED <<snap, k, dest, todo>>
    /\ UNCHANGED <<scheduler, metric, queued>>

\* Variant: an exception leaves the loop of run().
RoundDies ==
    /\ at = "metrics"
    /\ at' = "dead"
    /\ UNCHANGED <<scheduler, snap, k, dest, todo, metric, queued>>

\* A transaction of the round raises: the round is over.
RoundFails ==
    /\ at = "metrics"
    /\ Sleep
    /\ UNCHANGED <<scheduler, metric, queued>>

\* Variant: one policy too many.
NextPolicyOrNone ==
    IF k <= Len(Policies)
    THEN at' = "policy" /\ k' = k + 1 /\ dest' = None /\ todo' = {} /\ UNCHANGED snap
    ELSE Sleep

\* The next policy, or the end of the round.
NextPolicy ==
    IF k < Len(Policies)
    THEN at' = "policy" /\ k' = k + 1 /\ dest' = None /\ todo' = {} /\ UNCHANGED snap
    ELSE Sleep

\* _eval_trigger.
Violating(p)  == {c \in Cluster : snap[c] > p.limit}
Candidates(p) == Cluster \ Violating(p)

\* _pick_dest: min() by load, or a choice that loads do not decide.
PickDest(p) ==
    IF p.target = "least_loaded"
    THEN {c \in Candidates(p) : \A d \in Candidates(p) : snap[c] <= snap[d]}
    ELSE Candidates(p)

\* Variant: the violating clusters are candidates as well.
ApplyToAny ==
    /\ at = "policy"
    /\ LET p == Policies[k]
       IN  \/ Violating(p) = {} /\ NextPolicy
           \/ /\ Violating(p) # {}
              /\ at' = "listing"
              /\ todo' = Violating(p)
              /\ dest' \in Cluster
              /\ UNCHANGED <<snap, k>>
    /\ UNCHANGED <<scheduler, metric, queued>>

\* _apply_policy, up to its loop.
Apply ==
    /\ at = "policy"
    /\ LET p == Policies[k]
       IN  \/ (Violating(p) = {} \/ Candidates(p) = {}) /\ NextPolicy
           \/ /\ Violating(p) # {}
              /\ at' = "listing"
              /\ todo' = Violating(p)
              /\ dest' \in PickDest(p)
              /\ UNCHANGED <<snap, k>>
    /\ UNCHANGED <<scheduler, metric, queued>>

\* The row _trigger_rebalance inserts for cluster c.
Insert(c) ==
    queued' = [source |-> c, dest |-> dest, from |-> snap[c], to |-> snap[dest]]

\* _trigger_rebalance for one more cluster: one row, or none if no VM is ACTIVE.
Rebalance(c) ==
    /\ at = "listing" /\ c \in todo
    /\ Insert(c) \/ UNCHANGED queued
    /\ IF todo = {c} THEN NextPolicy
       ELSE todo' = todo \ {c} /\ UNCHANGED <<at, snap, k, dest>>
    /\ UNCHANGED <<scheduler, metric>>

\* Variant: the exception ends the round.
RebalanceRaisesFar(c) ==
    /\ at = "listing" /\ c \in todo
    /\ Insert(c) \/ UNCHANGED queued
    /\ Sleep
    /\ UNCHANGED <<scheduler, metric>>

\* It raises, before or after its row was committed: the other clusters are left
\* to the next round, the other policies are not.
RebalanceRaises(c) ==
    /\ at = "listing" /\ c \in todo
    /\ Insert(c) \/ UNCHANGED queued
    /\ NextPolicy
    /\ UNCHANGED <<scheduler, metric>>

\* The agent of cluster c stores a metric.
StoreMetric(c) ==
    /\ metric' \in {[metric EXCEPT ![c] = load] : load \in Loads}
    /\ UNCHANGED <<scheduler, round, queued>>

RoundStep ==
    \/ LoadPolicies \/ RoundFails \/ Apply
    \/ \E c \in Cluster : ReadMetric(c) \/ Rebalance(c) \/ RebalanceRaises(c)
============================================================================
