---------------------------- MODULE AgentProofs ----------------------------
(***************************************************************************)
(* Theorems about Agent and its Scheduler, for any clusters, loads and     *)
(* list of policies: type correctness, what the scheduler queues, and the  *)
(* three views of the agent's role.                                        *)
(***************************************************************************)
EXTENDS Agent, TLAPS

\* What a round knows at each await: the snapshots are complete before a policy
\* is applied; the clusters still to relieve violate it, and the destination,
\* picked once for all of them, does not.
RoundAt ==
    /\ at \in {"policy", "listing"} =>
          k \in 1..Len(Policies) /\ \A c \in Cluster : snap[c] \in Loads
    /\ at = "listing" =>
          todo \subseteq Violating(Policies[k]) /\ dest \in Candidates(Policies[k])

\* How far start() has come, and the callback the election waits for, say what
\* the scheduler and the role are.
StageAt ==
    /\ scheduler = "none" <=> pc \in {"down", "registered", "electing"}
    /\ callback # "none" => Electing /\ role = Shown

\* Unless something kept them apart, the Cluster row, the role and the scheduler
\* agree whenever no callback runs, from the first start on.
ViewsAt ==
    callback = "none" /\ since = {} =>
        /\ pc = "down" => dbRole # "MASTER"
        /\ pc \in {"registered", "electing"} => role = "WORKER" /\ dbRole = "WORKER"
        /\ pc = "up" => dbRole = role /\ (scheduler = "on" <=> role = "MASTER")

\* A process that does not run knows of no mastership.
DownAt == pc \in {"down", "registered"} => role = "WORKER"

SInv == SchedulerTypeOK /\ RoundAt /\ Downhill
AInv == StageAt /\ DownAt /\ ViewsAt
IInv == TypeOK /\ SInv /\ AInv

----------------------------------------------------------------------------
(* The scheduler's rounds.                                                 *)

\* Limits and loads can be compared.
LEMMA PolicyType ==
    ASSUME NEW j \in 1..Len(Policies)
    PROVE  /\ Policies[j].limit \in Nat
           /\ \A load \in Loads : load \in Nat
<1>1. Policies[j] \in [limit : Loads, target : {"least_loaded", "other"}]
  <2> DEFINE S == [limit : Loads, target : {"least_loaded", "other"}]
  <2>1. Policies \in Seq(S)
    BY SchedulerAssumption
  <2> HIDE DEF S
  <2>2. Policies[j] \in S
    BY <2>1
  <2> QED
    BY <2>2 DEF S
<1>2. \A load \in Loads : load \in Nat
  BY SchedulerAssumption DEF Loads
<1> QED
  BY <1>1, <1>2

\* Going to sleep, or to the next policy, leaves nothing of the policy before.
LEMMA SleepRound ==
    ASSUME SInv, Sleep, scheduler' \in {"none", "off", "on"}, UNCHANGED <<metric, queued>>
    PROVE  SInv'
<1>1. snap' \in [Cluster -> Loads \cup {None}]
  BY DEF Sleep, Blank
<1>2. SchedulerTypeOK'
  BY <1>1 DEF SInv, SchedulerTypeOK, Sleep
<1>3. RoundAt' /\ Downhill'
  BY DEF SInv, Sleep, RoundAt, Downhill
<1> QED
  BY <1>2, <1>3 DEF SInv

LEMMA NextPolicyRound ==
    ASSUME SchedulerTypeOK, RoundAt, at \in {"policy", "listing"}, NextPolicy,
           UNCHANGED <<scheduler, metric>>, queued' \in Rows \cup {None}
    PROVE  SchedulerTypeOK' /\ RoundAt'
<1>1. CASE k < Len(Policies)
  <2>1. /\ at' = "policy" /\ k' = k + 1 /\ dest' = None /\ todo' = {} /\ snap' = snap
    BY <1>1 DEF NextPolicy
  <2>2. k + 1 \in 1..Len(Policies)
    BY <1>1, SchedulerAssumption DEF RoundAt
  <2> QED
    BY <2>1, <2>2 DEF SchedulerTypeOK, RoundAt
<1>2. CASE ~(k < Len(Policies))
  <2>1. Sleep
    BY <1>2 DEF NextPolicy
  <2>2. snap' \in [Cluster -> Loads \cup {None}]
    BY <2>1 DEF Sleep, Blank
  <2> QED
    BY <2>1, <2>2 DEF Sleep, SchedulerTypeOK, RoundAt
<1> QED
  BY <1>1, <1>2

\* A row goes downhill: its source violates the policy and its destination, which
\* has complied since it was picked, does not.
LEMMA InsertDownhill ==
    ASSUME SInv, at = "listing", NEW c \in todo, Insert(c) \/ UNCHANGED queued
    PROVE  queued' \in Rows \cup {None} /\ Downhill'
<1>1. CASE UNCHANGED queued
  BY <1>1 DEF SInv, SchedulerTypeOK, Downhill
<1>2. CASE Insert(c)
  <2>1. k \in 1..Len(Policies) /\ \A d \in Cluster : snap[d] \in Loads
    BY DEF SInv, RoundAt
  <2>2. c \in Cluster /\ snap[c] > Policies[k].limit
    BY DEF SInv, RoundAt, Violating
  <2>3. dest \in Cluster /\ ~(snap[dest] > Policies[k].limit)
    BY DEF SInv, RoundAt, Candidates, Violating
  <2>4. snap[c] > snap[dest] /\ c # dest
    BY <2>1, <2>2, <2>3, PolicyType
  <2>5. queued' = [source |-> c, dest |-> dest, from |-> snap[c], to |-> snap[dest]]
    BY <1>2 DEF Insert
  <2>6. queued' \in Rows
    BY <2>1, <2>2, <2>3, <2>5 DEF Rows
  <2> QED
    BY <2>4, <2>5, <2>6 DEF Downhill
<1> QED
  BY <1>1, <1>2

\* Every step of the scheduler keeps what a round knows.
LEMMA ScheduleInv ==
    ASSUME SInv, Wake \/ RoundStep
    PROVE  SInv'
<1>1. CASE Wake
  <2>1. SchedulerTypeOK'
    BY <1>1 DEF SInv, SchedulerTypeOK, Wake
  <2> QED
    BY <1>1, <2>1 DEF SInv, RoundAt, Downhill, Wake
<1>2. ASSUME NEW c \in Cluster, ReadMetric(c) PROVE SInv'
  <2>1. 0 \in Loads
    BY SchedulerAssumption DEF Loads
  <2>2. (IF metric[c] = None THEN 0 ELSE metric[c]) \in Loads
    BY <2>1 DEF SInv, SchedulerTypeOK
  <2>3. snap' \in [Cluster -> Loads \cup {None}]
    BY <1>2, <2>2 DEF SInv, SchedulerTypeOK, ReadMetric
  <2>4. SchedulerTypeOK'
    BY <1>2, <2>3 DEF SInv, SchedulerTypeOK, ReadMetric
  <2> QED
    BY <1>2, <2>4 DEF SInv, RoundAt, Downhill, ReadMetric
<1>3. CASE LoadPolicies
  <2>1. UNCHANGED <<scheduler, metric, queued>>
    BY <1>3 DEF LoadPolicies
  <2>2. CASE Policies = <<>>
    <3>1. Sleep
      BY <1>3, <2>2 DEF LoadPolicies
    <3> QED
      BY <2>1, <3>1, SleepRound DEF SInv, SchedulerTypeOK
  <2>3. CASE Policies # <<>>
    <3>1. /\ at' = "policy" /\ UNCHANGED <<snap, k, dest, todo>>
          /\ \A c \in Cluster : snap[c] # None
      BY <1>3, <2>3 DEF LoadPolicies
    <3>2. 1 \in 1..Len(Policies)
      BY <2>3, SchedulerAssumption
    <3>3. k \in 1..Len(Policies) /\ \A c \in Cluster : snap[c] \in Loads
      BY <3>1, <3>2 DEF SInv, SchedulerTypeOK
    <3>4. SchedulerTypeOK'
      BY <2>1, <3>1 DEF SInv, SchedulerTypeOK
    <3> QED
      BY <2>1, <3>1, <3>3, <3>4 DEF SInv, RoundAt, Downhill
  <2> QED
    BY <2>2, <2>3
<1>4. CASE RoundFails
  BY <1>4, SleepRound DEF RoundFails, SInv, SchedulerTypeOK
<1>5. CASE Apply
  <2>1. at = "policy" /\ UNCHANGED <<scheduler, metric, queued>>
    BY <1>5 DEF Apply
  <2>2. CASE NextPolicy
    <3>1. SchedulerTypeOK' /\ RoundAt'
      BY <2>1, <2>2, NextPolicyRound DEF SInv, SchedulerTypeOK
    <3> QED
      BY <2>1, <3>1 DEF SInv, Downhill
  <2>3. CASE /\ at' = "listing" /\ todo' = Violating(Policies[k])
             /\ dest' \in PickDest(Policies[k]) /\ UNCHANGED <<snap, k>>
    <3>1. dest' \in Candidates(Policies[k])
      BY <2>3 DEF PickDest
    <3>2. /\ Violating(Policies[k])' = Violating(Policies[k])
          /\ Candidates(Policies[k])' = Candidates(Policies[k])
      BY <2>3 DEF Violating, Candidates
    <3>3. dest' \in Cluster /\ todo' \subseteq Cluster
      BY <2>3, <3>1 DEF Violating, Candidates
    <3>4. SchedulerTypeOK'
      BY <2>1, <2>3, <3>3 DEF SInv, SchedulerTypeOK
    <3> QED
      BY <2>1, <2>3, <3>1, <3>2, <3>4 DEF SInv, RoundAt, Downhill
  <2> QED
    BY <1>5, <2>2, <2>3 DEF Apply
<1>6. ASSUME NEW c \in Cluster, Rebalance(c) PROVE SInv'
  <2>1. at = "listing" /\ c \in todo /\ UNCHANGED <<scheduler, metric>>
    BY <1>6 DEF Rebalance
  <2>2. queued' \in Rows \cup {None} /\ Downhill'
    BY <1>6, <2>1, InsertDownhill DEF Rebalance
  <2>3. CASE NextPolicy
    BY <2>1, <2>2, <2>3, NextPolicyRound DEF SInv
  <2>4. CASE todo' = todo \ {c} /\ UNCHANGED <<at, snap, k, dest>>
    <3>1. /\ Violating(Policies[k])' = Violating(Policies[k])
          /\ Candidates(Policies[k])' = Candidates(Policies[k])
      BY <2>4 DEF Violating, Candidates
    <3>2. SchedulerTypeOK'
      BY <2>1, <2>2, <2>4 DEF SInv, SchedulerTypeOK
    <3>3. RoundAt'
      BY <2>4, <3>1 DEF SInv, RoundAt
    <3> QED
      BY <2>2, <3>2, <3>3 DEF SInv
  <2> QED
    BY <1>6, <2>3, <2>4 DEF Rebalance
<1>7. ASSUME NEW c \in Cluster, RebalanceRaises(c) PROVE SInv'
  <2>1. at = "listing" /\ c \in todo /\ NextPolicy /\ UNCHANGED <<scheduler, metric>>
    BY <1>7 DEF RebalanceRaises
  <2>2. queued' \in Rows \cup {None} /\ Downhill'
    BY <1>7, <2>1, InsertDownhill DEF RebalanceRaises
  <2> QED
    BY <2>1, <2>2, NextPolicyRound DEF SInv
<1> QED
  BY <1>1, <1>2, <1>3, <1>4, <1>5, <1>6, <1>7 DEF RoundStep

\* What an agent does outside a round tells the scheduler, at most, what to do next.
LEMMA RoundKept ==
    ASSUME SInv, scheduler' \in {"none", "off", "on"}, UNCHANGED <<round, queued>>,
           metric' \in [Cluster -> Loads \cup {None}]
    PROVE  SInv'
<1>1. SchedulerTypeOK'
  BY DEF SInv, SchedulerTypeOK, round
<1>2. RoundAt'
  BY DEF SInv, RoundAt, Violating, Candidates, round
<1> QED
  BY <1>1, <1>2 DEF SInv, Downhill

----------------------------------------------------------------------------
(* The agent.                                                              *)

\* Initially no process runs and nothing is stored.
LEMMA InitInv == Init => IInv
<1> SUFFICES ASSUME Init PROVE IInv
  OBVIOUS
<1>1. Blank \in [Cluster -> Loads \cup {None}]
  BY DEF Blank
<1>2. SchedulerTypeOK
  BY <1>1 DEF Init, SchedulerInit, Asleep, SchedulerTypeOK
<1>3. TypeOK
  BY <1>2 DEF Init, TypeOK
<1>4. RoundAt /\ Downhill
  BY DEF Init, SchedulerInit, Asleep, RoundAt, Downhill
<1>5. AInv
  BY AgentAssumption DEF Init, SchedulerInit, AInv, StageAt, DownAt, ViewsAt
<1> QED
  BY <1>2, <1>3, <1>4, <1>5 DEF IInv, SInv

\* The agent's own steps keep what it shows, and leave the round alone or end it.
LEMMA AgentStep ==
    ASSUME IInv,
           \/ Register \/ StartElection \/ StartScheduler \/ Stop \/ Exit
           \/ Win \/ Lose \/ CallbackReturns \/ CallbackRaises
    PROVE  IInv'
<1> USE DEF IInv, TypeOK, AInv
<1>1. CASE Register
  <2>1. AInv'
    BY <1>1 DEF Register, StageAt, DownAt, ViewsAt, Electing, Shown, schedulerVars
  <2>2. SInv'
    BY <1>1, RoundKept DEF Register, schedulerVars, round, SInv, SchedulerTypeOK
  <2>3. TypeOK'
    BY <1>1, <2>2 DEF Register, SInv
  <2> QED
    BY <2>1, <2>2, <2>3
<1>2. CASE StartElection
  <2>1. AInv'
    BY <1>2 DEF StartElection, StageAt, DownAt, ViewsAt, Electing, Shown, schedulerVars
  <2>2. SInv'
    BY <1>2, RoundKept DEF StartElection, schedulerVars, round, SInv, SchedulerTypeOK
  <2>3. TypeOK'
    BY <1>2, <2>2 DEF StartElection, SInv
  <2> QED
    BY <2>1, <2>2, <2>3
<1>3. CASE StartScheduler
  <2>1. AInv'
    BY <1>3 DEF StartScheduler, StageAt, DownAt, ViewsAt, Electing, Shown
  <2>2. SInv'
    BY <1>3, RoundKept DEF StartScheduler, SInv, SchedulerTypeOK
  <2>3. TypeOK'
    BY <1>3, <2>2 DEF StartScheduler, SInv
  <2> QED
    BY <2>1, <2>2, <2>3
<1>4. CASE Stop
  <2>1. AInv'
    BY <1>4 DEF Stop, StageAt, DownAt, ViewsAt, Electing, Shown, schedulerVars
  <2>2. SInv'
    BY <1>4, RoundKept DEF Stop, schedulerVars, round, SInv, SchedulerTypeOK
  <2>3. TypeOK'
    BY <1>4, <2>2 DEF Stop, Cut, Shown, SInv
  <2> QED
    BY <2>1, <2>2, <2>3
<1>5. CASE Exit
  <2>1. AInv'
    BY <1>5 DEF Exit, StageAt, DownAt, ViewsAt, Electing
  <2>2. SInv'
    BY <1>5, SleepRound DEF Exit
  <2>3. TypeOK'
    BY <1>5, <2>2 DEF Exit, Cut, Shown, SInv
  <2> QED
    BY <2>1, <2>2, <2>3
<1>6. CASE Win
  <2>1. AInv'
    BY <1>6 DEF Win, Election!Win, Election!Idle, StageAt, DownAt, ViewsAt, Electing, Shown, schedulerVars
  <2>2. SInv'
    BY <1>6, RoundKept DEF Win, schedulerVars, round, SInv, SchedulerTypeOK
  <2>3. TypeOK'
    BY <1>6, <2>2 DEF Win, Election!Win, Election!Idle, SInv
  <2> QED
    BY <2>1, <2>2, <2>3
<1>7. CASE Lose
  <2>1. AInv'
    BY <1>7 DEF Lose, Election!Lose, Election!Idle, StageAt, DownAt, ViewsAt, Electing, Shown, schedulerVars
  <2>2. SInv'
    BY <1>7, RoundKept DEF Lose, schedulerVars, round, SInv, SchedulerTypeOK
  <2>3. TypeOK'
    BY <1>7, <2>2 DEF Lose, Election!Lose, Election!Idle, SInv
  <2> QED
    BY <2>1, <2>2, <2>3
<1>8. CASE CallbackReturns
  <2>1. AInv'
    BY <1>8 DEF CallbackReturns, StageAt, DownAt, ViewsAt, Electing, Shown, SchedulerTypeOK
  <2>2. SInv'
    BY <1>8, RoundKept DEF CallbackReturns, SInv, SchedulerTypeOK
  <2>3. TypeOK'
    BY <1>8, <2>2 DEF CallbackReturns, Shown, SInv
  <2> QED
    BY <2>1, <2>2, <2>3
<1>9. CASE CallbackRaises
  <2>1. AInv'
    BY <1>9 DEF CallbackRaises, StageAt, DownAt, ViewsAt, Electing, Shown, schedulerVars
  <2>2. SInv'
    BY <1>9, RoundKept DEF CallbackRaises, schedulerVars, round, SInv, SchedulerTypeOK
  <2>3. TypeOK'
    BY <1>9, <2>2 DEF CallbackRaises, Cut, Shown, SInv
  <2> QED
    BY <2>1, <2>2, <2>3
<1> QED
  BY <1>1, <1>2, <1>3, <1>4, <1>5, <1>6, <1>7, <1>8, <1>9

\* Metrics and the scheduler's own steps leave the agent alone.
LEMMA AgentKept ==
    ASSUME IInv, SInv', UNCHANGED agentVars,
           scheduler' = scheduler
    PROVE  IInv'
BY DEF IInv, TypeOK, SInv, AInv, StageAt, DownAt, ViewsAt, Electing, Shown, agentVars

\* Every step keeps the invariant.
LEMMA StepInv == IInv /\ [Next]_vars => IInv'
<1> SUFFICES ASSUME IInv, [Next]_vars PROVE IInv'
  OBVIOUS
<1>1. ASSUME NEW c \in Cluster, Collect(c) PROVE IInv'
  <2>1. /\ metric' \in [Cluster -> Loads \cup {None}]
        /\ UNCHANGED <<scheduler, round, queued, agentVars>>
    BY <1>1 DEF Collect, StoreMetric, IInv, SInv, SchedulerTypeOK
  <2>2. SInv'
    BY <2>1, RoundKept DEF IInv, SInv, SchedulerTypeOK
  <2> QED
    BY <2>1, <2>2, AgentKept
<1>2. CASE Schedule
  <2>1. SInv' /\ UNCHANGED agentVars
    BY <1>2, ScheduleInv DEF Schedule, IInv
  <2>2. scheduler' = scheduler
    BY <1>2 DEF Schedule, Wake, RoundStep, LoadPolicies, RoundFails, Apply, ReadMetric,
                Rebalance, RebalanceRaises
  <2> QED
    BY <2>1, <2>2, AgentKept
<1>3. CASE UNCHANGED vars
  <2>1. SInv'
    BY <1>3, RoundKept DEF IInv, SInv, SchedulerTypeOK, vars, schedulerVars, round
  <2> QED
    BY <1>3, <2>1, AgentKept DEF vars, schedulerVars
<1> QED
  BY <1>1, <1>2, <1>3, AgentStep DEF Next

\* IInv holds of every reachable state.
LEMMA Inductive == Spec => []IInv
  BY InitInv, StepInv, PTL DEF Spec

----------------------------------------------------------------------------
(* Theorems.                                                               *)

\* The variables keep the types of what they stand for, for any clusters, loads
\* and policies.
THEOREM TypeCorrect == Spec => []TypeOK
<1>1. IInv => TypeOK
  BY DEF IInv
<1> QED
  BY <1>1, Inductive, PTL

\* Whatever the policies, and however old or incomplete the metrics, a migration
\* is queued from a cluster that was more loaded to one that was less
\* (_apply_policy and _trigger_rebalance, scheduler.py:129-141).
THEOREM DownhillHolds == Spec => []Downhill
<1>1. IInv => Downhill
  BY DEF IInv, SInv
<1> QED
  BY <1>1, Inductive, PTL

\* Between callbacks the Cluster row, the role and the scheduler's flag agree,
\* unless one of the three known causes kept them apart (_on_become_master and
\* _on_lose_master, agent.py:138-154).
THEOREM ViewsAgreeHolds == Spec => []ViewsAgree
<1>1. IInv => ViewsAgree
  BY DEF IInv, AInv, ViewsAt, ViewsAgree
<1> QED
  BY <1>1, Inductive, PTL
=============================================================================
