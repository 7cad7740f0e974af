------------------------ MODULE RaftElectionProofs ------------------------
(***************************************************************************)
(* Theorems about RaftElection for any sets of agents and leases.          *)
(***************************************************************************)
EXTENDS RaftElection, TLAPS

\* The key is attached to a live lease; a master is who has a lease; the lease
\* of a master, or of a winner that has yet to learn it, is that of the key for
\* as long as it is alive.
KeyLeased    == key # None => key.lease \in alive
RoleIsLease  == \A n \in Node : role[n] = "MASTER" <=> lease[n] # None
WonIsAsked   == \A n \in Node : pc[n] = "won" => asked[n] \in Lease
MasterOwns   == \A n \in Node : lease[n] \in alive =>
                    key = [owner |-> n, lease |-> lease[n]]
WinnerOwns   == \A n \in Node : pc[n] = "won" /\ asked[n] \in alive =>
                    key = [owner |-> n, lease |-> asked[n]]

IInv ==
    /\ TypeOK
    /\ KeyLeased
    /\ RoleIsLease
    /\ WonIsAsked
    /\ MasterOwns
    /\ WinnerOwns
    /\ OnlyWorkersCampaign

\* An agent that is down knows nothing and etcd holds nothing.
LEMMA InitInv == Init => IInv
  BY NoneAssumption
  DEF Init, IInv, TypeOK, Labels, KeyLeased, RoleIsLease, WonIsAsked, MasterOwns,
      WinnerOwns, OnlyWorkersCampaign

\* Ending a lease keeps the ownership of every lease that stays alive.
LEMMA EndLease ==
    ASSUME IInv, NEW l, End(l)
    PROVE  /\ alive' \subseteq Lease
           /\ alive' \subseteq alive
           /\ key' \in Keys \cup {None}
           /\ KeyLeased'
           /\ \A k \in alive' : key # None /\ key.lease = k => key' = key
  BY NoneAssumption DEF IInv, TypeOK, KeyLeased, End, Keys

\* Putting the key keeps it attached to a live lease, and finds no master and
\* no winner whose lease is alive.
LEMMA PutKey ==
    ASSUME IInv, NEW n \in Node, NEW l \in Lease, Put(n, l), alive' = alive
    PROVE  /\ key' = [owner |-> n, lease |-> l]
           /\ key' \in Keys
           /\ KeyLeased'
           /\ \A m \in Node : lease[m] \notin alive
           /\ \A m \in Node : ~(pc[m] = "won" /\ asked[m] \in alive)
  <1>1. ASSUME NEW m \in Node, NEW k \in alive PROVE key # [owner |-> m, lease |-> k]
    BY NoneAssumption DEF Put, IInv, TypeOK
  <1>2. /\ key' = [owner |-> n, lease |-> l]
        /\ key' \in Keys
        /\ KeyLeased'
    BY DEF Put, Keys, KeyLeased
  <1>3. \A m \in Node : lease[m] \notin alive
    BY <1>1 DEF IInv, MasterOwns
  <1>4. \A m \in Node : ~(pc[m] = "won" /\ asked[m] \in alive)
    BY <1>1 DEF IInv, WinnerOwns
  <1> QED
    BY <1>2, <1>3, <1>4

\* Every step of an agent and of etcd keeps the invariant.
LEMMA StepInv == IInv /\ [Next]_vars => IInv'
  <1> SUFFICES ASSUME IInv, [Next]_vars PROVE IInv'
    OBVIOUS
  <1> USE NoneAssumption
  <1> USE DEF IInv, TypeOK, Labels, RoleIsLease, WonIsAsked, MasterOwns, WinnerOwns,
              OnlyWorkersCampaign
  <1>1. CASE UNCHANGED vars
    BY <1>1 DEF vars, KeyLeased
  <1>2. ASSUME NEW l \in Lease, Expire(l) PROVE IInv'
    <2>1. End(l) /\ UNCHANGED <<late, pc, role, lease, asked, known>>
      BY <1>2 DEF Expire
    <2> QED
      BY <2>1, EndLease
  <1>3. ASSUME NEW r \in late, LatePut(r) PROVE IInv'
    <2>1. /\ r \in Keys /\ late' \subseteq Keys
          /\ UNCHANGED <<alive, pc, role, lease, asked, known>>
      BY <1>3 DEF LatePut
    <2>2. CASE Put(r.owner, r.lease)
      BY <2>1, <2>2, PutKey DEF Keys
    <2>3. CASE UNCHANGED key
      BY <2>1, <2>3 DEF KeyLeased
    <2> QED
      BY <1>3, <2>2, <2>3 DEF LatePut
  <1>4. ASSUME NEW n \in Node, Start(n) PROVE IInv'
    BY <1>4 DEF Start, Goto, etcd, KeyLeased
  <1>5. ASSUME NEW n \in Node, TryAcquire(n) PROVE IInv'
    BY <1>5 DEF TryAcquire, Goto, etcd, KeyLeased
  <1>6. ASSUME NEW n \in Node, RefreshReturns(n) PROVE IInv'
    BY <1>6 DEF RefreshReturns, Goto, etcd, KeyLeased
  <1>7. ASSUME NEW n \in Node, RefreshRaises(n) PROVE IInv'
    BY <1>7 DEF RefreshRaises, Goto, etcd, KeyLeased
  <1>8. ASSUME NEW n \in Node, GrantRaises(n) PROVE IInv'
    BY <1>8 DEF GrantRaises, Goto, etcd, KeyLeased
  <1>9. ASSUME NEW n \in Node, CasFails(n) PROVE IInv'
    BY <1>9 DEF CasFails, Goto, etcd, KeyLeased
  <1>10. ASSUME NEW n \in Node, BecomeMaster(n) PROVE IInv'
    BY <1>10 DEF BecomeMaster, Goto, etcd, KeyLeased
  <1>11. ASSUME NEW n \in Node, CallbackEnds(n) PROVE IInv'
    BY <1>11 DEF CallbackEnds, Goto, etcd, KeyLeased
  <1>12. ASSUME NEW n \in Node, ReadMaster(n) PROVE IInv'
    BY <1>12 DEF ReadMaster, Goto, etcd, KeyLeased, Keys
  <1>13. ASSUME NEW n \in Node, NEW l \in Lease, GrantLease(n, l) PROVE IInv'
    BY <1>13 DEF GrantLease, Fresh, Goto, KeyLeased, Keys
  <1>14. ASSUME NEW n \in Node, CasSucceeds(n) PROVE IInv'
    <2>1. /\ asked[n] \in Lease
          /\ Put(n, asked[n])
          /\ alive' = alive
          /\ UNCHANGED <<late, role, lease, asked, known>>
          /\ pc' = [pc EXCEPT ![n] = "won"]
          /\ pc[n] = "cas"
      BY <1>14 DEF CasSucceeds, Put, Goto
    <2> QED
      BY <2>1, PutKey
  <1>15. ASSUME NEW n \in Node, CasRaises(n) PROVE IInv'
    BY <1>15 DEF CasRaises, Goto, InFlight, KeyLeased
  <1>16. ASSUME NEW n \in Node, ForceElect(n) PROVE IInv'
    <2>1. UNCHANGED <<late, pc, role, lease, asked, known>> /\ Revoke(n)
      BY <1>16 DEF ForceElect
    <2>2. CASE End(lease[n])
      BY <2>1, <2>2, EndLease
    <2>3. CASE UNCHANGED <<alive, key>>
      BY <2>1, <2>3 DEF KeyLeased
    <2> QED
      BY <2>1, <2>2, <2>3 DEF Revoke
  <1>17. ASSUME NEW n \in Node, Stop(n) PROVE IInv'
    BY <1>17 DEF Stop, Goto, InFlight, KeyLeased
  <1>18. ASSUME NEW n \in Node, StopEnds(n) PROVE IInv'
    <2>1. Exit(n) /\ UNCHANGED late /\ Revoke(n)
      BY <1>18 DEF StopEnds
    <2>2. CASE End(lease[n])
      BY <2>1, <2>2, EndLease DEF Exit, Goto
    <2>3. CASE UNCHANGED <<alive, key>>
      BY <2>1, <2>3 DEF Exit, Goto, KeyLeased
    <2> QED
      BY <2>1, <2>2, <2>3 DEF Revoke
  <1>19. ASSUME NEW n \in Node, Crash(n) PROVE IInv'
    BY <1>19 DEF Crash, Exit, Goto, InFlight, KeyLeased
  <1> QED
    BY <1>1, <1>2, <1>3, <1>4, <1>5, <1>6, <1>7, <1>8, <1>9, <1>10, <1>11, <1>12, <1>13, <1>14, <1>15, <1>16, <1>17, <1>18, <1>19
    DEF Next, Loop

\* The invariant holds in every reachable state.
THEOREM Invariance == Spec => []IInv
  BY InitInv, StepInv, PTL DEF Spec

\* Every variable keeps its type, whatever etcd and the agents do.
THEOREM TypeCorrect == Spec => []TypeOK
  <1>1. IInv => TypeOK
    BY DEF IInv
  <1> QED
    BY <1>1, Invariance, PTL

\* Any number of agents, with any leases: no two masters have a live lease.
\* Both leases would be the lease of the one key.
LEMMA LeasedMasterUnique == IInv => AtMostOneLeasedMaster
  BY DEF IInv, MasterOwns, AtMostOneLeasedMaster, LeasedMaster

THEOREM MutualExclusion == Spec => []AtMostOneLeasedMaster
  BY LeasedMasterUnique, Invariance, PTL

\* A master never asks for the key.
THEOREM CampaignersAreWorkers == Spec => []OnlyWorkersCampaign
  <1>1. IInv => OnlyWorkersCampaign
    BY DEF IInv
  <1> QED
    BY <1>1, Invariance, PTL

----------------------------------------------------------------------------
(* The election implements the lock.                                       *)

HolderIsMaster ==
    /\ \A n \in Node : LeasedMaster(n) <=> LockHolder = n
    /\ LockHolder \in Node \cup {None}

\* The holder of the lock is the leased master, if there is one.
LEMMA HolderCorrect == IInv => HolderIsMaster
  <1> SUFFICES ASSUME IInv PROVE HolderIsMaster
    OBVIOUS
  <1>1. ASSUME NEW n \in Node, LeasedMaster(n) PROVE LockHolder = n
    BY <1>1, LeasedMasterUnique DEF LockHolder, AtMostOneLeasedMaster
  <1>2. ASSUME NEW n \in Node, LockHolder = n PROVE LeasedMaster(n)
    BY <1>2, NoneAssumption DEF LockHolder
  <1>3. LockHolder \in Node \cup {None}
    BY DEF LockHolder
  <1> QED
    BY <1>1, <1>2, <1>3 DEF HolderIsMaster

\* Who becomes a leased master in a step is the winner that resumes.
LEMMA NewMasterWon ==
    ASSUME IInv, [Next]_vars, NEW m \in Node, ~LeasedMaster(m), LeasedMaster(m)'
    PROVE  pc[m] = "won" /\ asked[m] \in alive
  <1> SUFFICES ASSUME ~(pc[m] = "won" /\ asked[m] \in alive) PROVE FALSE
    OBVIOUS
  <1> USE DEF IInv, TypeOK, LeasedMaster
  <1>1. CASE UNCHANGED vars
    BY <1>1 DEF vars
  <1>2. ASSUME NEW l \in Lease, Expire(l) PROVE FALSE
    BY <1>2 DEF Expire, End
  <1>3. ASSUME NEW r \in late, LatePut(r) PROVE FALSE
    BY <1>3 DEF LatePut
  <1>4. ASSUME NEW n \in Node, NEW l \in Lease, GrantLease(n, l) PROVE FALSE
    BY <1>4 DEF GrantLease, Fresh
  <1>5. ASSUME NEW n \in Node, BecomeMaster(n) PROVE FALSE
    BY <1>5 DEF BecomeMaster, etcd
  <1>6. ASSUME NEW n \in Node, Revoke(n), UNCHANGED <<role, lease>> PROVE FALSE
    BY <1>6 DEF Revoke, End
  <1>7. ASSUME NEW n \in Node, Revoke(n) \/ UNCHANGED alive, Exit(n) PROVE FALSE
    BY <1>7 DEF Revoke, End, Exit
  <1>8. ASSUME NEW n \in Node, Start(n) PROVE FALSE
    BY <1>8 DEF Start, etcd
  <1>9. ASSUME NEW n \in Node, TryAcquire(n) PROVE FALSE
    BY <1>9 DEF TryAcquire, etcd
  <1>10. ASSUME NEW n \in Node, RefreshReturns(n) PROVE FALSE
    BY <1>10 DEF RefreshReturns, etcd
  <1>11. ASSUME NEW n \in Node, RefreshRaises(n) PROVE FALSE
    BY <1>11 DEF RefreshRaises, etcd
  <1>12. ASSUME NEW n \in Node, GrantRaises(n) PROVE FALSE
    BY <1>12 DEF GrantRaises, etcd
  <1>13. ASSUME NEW n \in Node, CasSucceeds(n) PROVE FALSE
    BY <1>13 DEF CasSucceeds, etcd
  <1>14. ASSUME NEW n \in Node, CasFails(n) PROVE FALSE
    BY <1>14 DEF CasFails, etcd
  <1>15. ASSUME NEW n \in Node, CasRaises(n) PROVE FALSE
    BY <1>15 DEF CasRaises, etcd
  <1>16. ASSUME NEW n \in Node, CallbackEnds(n) PROVE FALSE
    BY <1>16 DEF CallbackEnds, etcd
  <1>17. ASSUME NEW n \in Node, ReadMaster(n) PROVE FALSE
    BY <1>17 DEF ReadMaster, etcd
  <1>18. ASSUME NEW n \in Node, Stop(n) PROVE FALSE
    BY <1>18 DEF Stop
  <1> QED
    BY <1>1, <1>2, <1>3, <1>4, <1>5, <1>6, <1>7, <1>8, <1>9, <1>10, <1>11, <1>12, <1>13, <1>14, <1>15, <1>16, <1>17, <1>18
    DEF Next, Loop, ForceElect, StopEnds, Crash

\* A step of the election takes the lock when it is free, releases it, or
\* leaves it alone.
LEMMA LockStep == IInv /\ IInv' /\ [Next]_vars => [Lock!Next]_LockHolder
  <1> SUFFICES ASSUME IInv, IInv', [Next]_vars, LockHolder' # LockHolder
               PROVE  Lock!Next
    OBVIOUS
  <1>1. HolderIsMaster
    BY HolderCorrect
  <1>2. (IInv => HolderIsMaster)'
    BY HolderCorrect, PTL
  <1>3. HolderIsMaster'
    BY <1>2
  <1>4. CASE LockHolder' = None
    BY <1>4 DEF Lock!Next, Lock!Release
  <1>5. CASE LockHolder' # None
    <2>1. PICK m \in Node : LockHolder' = m
      BY <1>3, <1>5 DEF HolderIsMaster
    <2>2. LeasedMaster(m)' /\ ~LeasedMaster(m)
      BY <1>1, <1>3, <2>1 DEF HolderIsMaster
    <2>3. key = [owner |-> m, lease |-> asked[m]]
      BY <2>2, NewMasterWon DEF IInv, WinnerOwns
    <2>4. ASSUME NEW n \in Node, LeasedMaster(n) PROVE FALSE
      <3>1. key = [owner |-> n, lease |-> lease[n]]
        BY <2>4 DEF IInv, MasterOwns, LeasedMaster
      <3> QED
        BY <2>2, <2>3, <2>4, <3>1
    <2>5. LockHolder = None
      BY <1>1, <2>4 DEF HolderIsMaster
    <2> QED
      BY <2>1, <2>5 DEF Lock!Next, Lock!Take
  <1> QED
    BY <1>4, <1>5

LEMMA LockInit == Init => LockHolder = None
  BY NoneAssumption DEF Init, LockHolder, LeasedMaster

\* Leased mastership is the lock of LeaderLock: free, taken by one agent,
\* released, and only then taken again.
THEOREM ElectionImplementsLock == Spec => ImplementsLock
  <1>1. Init => Lock!Init
    BY LockInit DEF Lock!Init
  <1>2. IInv /\ IInv' /\ [Next]_vars => [Lock!Next]_LockHolder
    BY LockStep
  <1> QED
    BY <1>1, <1>2, Invariance, PTL DEF Spec, ImplementsLock, Lock!Spec

----------------------------------------------------------------------------
(* The election implements the callbacks.                                  *)

\* Only a master refreshes a lease, and an agent that is down is a worker.
AwaitRole ==
    \A n \in Node : /\ pc[n] = "refresh" => role[n] = "MASTER"
                    /\ pc[n] = "down" => role[n] = "WORKER"

\* A step of agent n leaves the other agents alone.
Others(n) == \A m \in Node \ {n} : pc'[m] = pc[m] /\ role'[m] = role[m]

\* What an agent sees of its own step: it goes on within its loop, wins, loses, or
\* is told, started, stopped or ended.
Told(n) ==
    \/ pc'[n] = pc[n] /\ role'[n] = role[n]
    \/ /\ pc[n] \in {"loop", "refresh", "grant", "cas", "read"}
       /\ pc'[n] \in {"loop", "refresh", "grant", "cas", "won", "read"}
       /\ role'[n] = role[n]
       /\ pc'[n] = "refresh" => role[n] = "MASTER"
    \/ pc[n] = "won" /\ pc'[n] = "becoming" /\ role'[n] = "MASTER"
    \/ pc[n] = "refresh" /\ pc'[n] = "losing" /\ role'[n] = "WORKER"
    \/ pc[n] \in {"becoming", "losing"} /\ pc'[n] = "loop" /\ role'[n] = role[n]
    \/ pc[n] = "down" /\ pc'[n] = "loop" /\ role'[n] = role[n]
    \/ Running(n) /\ pc'[n] = "stopping" /\ role'[n] = role[n]
    \/ pc'[n] = "down" /\ role'[n] = "WORKER"

\* Every step is one agent's, or none's.
LEMMA AgentSteps ==
    ASSUME TypeOK, [Next]_vars
    PROVE  \/ UNCHANGED <<pc, role>>
           \/ \E n \in Node : Others(n) /\ Told(n)
  <1> USE DEF TypeOK, Others, Told, Goto
  <1>1. CASE UNCHANGED vars
    BY <1>1 DEF vars
  <1>2. CASE (\E l \in Lease : Expire(l)) \/ \E r \in late : LatePut(r)
    BY <1>2 DEF Expire, LatePut
  <1>3. ASSUME NEW n \in Node, TryAcquire(n) \/ RefreshReturns(n) \/ GrantRaises(n)
                                 \/ \E l \in Lease : GrantLease(n, l)
        PROVE  Others(n) /\ Told(n)
    BY <1>3 DEF TryAcquire, RefreshReturns, GrantRaises, GrantLease
  <1>4. ASSUME NEW n \in Node, CasSucceeds(n) \/ CasFails(n) \/ CasRaises(n) \/ ReadMaster(n)
        PROVE  Others(n) /\ Told(n)
    BY <1>4 DEF CasSucceeds, CasFails, CasRaises, ReadMaster
  <1>5. ASSUME NEW n \in Node, BecomeMaster(n) \/ RefreshRaises(n)
        PROVE  Others(n) /\ Told(n)
    BY <1>5 DEF BecomeMaster, RefreshRaises
  <1>6. ASSUME NEW n \in Node, CallbackEnds(n) \/ Start(n) \/ ForceElect(n) \/ Stop(n)
        PROVE  Others(n) /\ Told(n)
    BY <1>6 DEF CallbackEnds, Start, ForceElect, Stop
  <1>7. ASSUME NEW n \in Node, StopEnds(n) \/ Crash(n)
        PROVE  Others(n) /\ Told(n)
    BY <1>7 DEF StopEnds, Crash, Exit
  <1> QED
    BY <1>1, <1>2, <1>3, <1>4, <1>5, <1>6, <1>7 DEF Next, Loop

\* A step keeps what the awaits say of the role.
LEMMA AwaitStep == TypeOK /\ AwaitRole /\ [Next]_vars => AwaitRole'
  <1> SUFFICES ASSUME TypeOK, AwaitRole, [Next]_vars PROVE AwaitRole'
    OBVIOUS
  <1>1. CASE UNCHANGED <<pc, role>>
    BY <1>1 DEF AwaitRole
  <1>2. ASSUME NEW n \in Node, Others(n), Told(n) PROVE AwaitRole'
    BY <1>2 DEF AwaitRole, Others, Told
  <1> QED
    BY <1>1, <1>2, AgentSteps

\* What an agent is told is a step of RoleCallbacks.
LEMMA ToldStep ==
    ASSUME OnlyWorkersCampaign, AwaitRole, NEW n \in Node, Told(n)
    PROVE  Callbacks(n)!Step
  <1> USE DEF Callback, Running, AwaitRole
  <1>1. CASE pc'[n] = pc[n] /\ role'[n] = role[n]
    BY <1>1 DEF Callbacks!Step
  <1>2. CASE pc[n] = "won" /\ pc'[n] = "becoming" /\ role'[n] = "MASTER"
    BY <1>2 DEF OnlyWorkersCampaign, Callbacks!Step, Callbacks!Next, Callbacks!Win, Callbacks!Idle
  <1> QED
    BY <1>1, <1>2 DEF Told, Callbacks!Step, Callbacks!Next, Callbacks!Start, Callbacks!Win,
                      Callbacks!Lose, Callbacks!Idle, Callbacks!CallbackEnds, Callbacks!Stop,
                      Callbacks!Exit

\* The callbacks of each agent alternate with its role, one at a time: what Agent
\* assumes of the election holds of RaftElection, with any number of agents.
THEOREM ElectionImplementsCallbacks == Spec => ImplementsCallbacks
  <1> DEFINE A == \A n \in Node : Callbacks(n)!Step
  <1>1. Init => AwaitRole /\ \A n \in Node : Callbacks(n)!Init
    BY DEF Init, AwaitRole, Callback, Running, Callbacks!Init
  <1>2. IInv /\ AwaitRole /\ [Next]_vars => AwaitRole'
    BY AwaitStep DEF IInv
  <1>3. IInv /\ AwaitRole /\ [Next]_vars => [A]_vars
    <2> SUFFICES ASSUME IInv, AwaitRole, [Next]_vars, NEW n \in Node
                 PROVE  Callbacks(n)!Step
      OBVIOUS
    <2>1. TypeOK /\ OnlyWorkersCampaign
      BY DEF IInv
    <2>2. Told(n)
      BY <2>1, AgentSteps DEF Told, Others
    <2> QED
      BY <2>1, <2>2, ToldStep
  <1>4. Spec => [][A]_vars
    BY <1>1, <1>2, <1>3, Invariance, PTL DEF Spec
  <1>5. Spec => \A n \in Node : Callbacks(n)!Init
    BY <1>1 DEF Spec
  <1> QED
    BY <1>4, <1>5 DEF ImplementsCallbacks
===========================================================================
