--------------------------- MODULE RaftElection ---------------------------
(***************************************************************************)
(* cnf/agent/raft.py: the agents elect a master with one key in etcd,      *)
(* created by compare-and-swap and attached to a lease of its creator.     *)
(*                                                                         *)
(* An agent's election loop is one coroutine whose etcd calls run in       *)
(* executor threads; an action is one call, or the code up to the next     *)
(* one.  stop() and force_elect() are other coroutines of the same agent.  *)
(* A call that timed out or was cancelled may still reach etcd (late).     *)
(* Leases expire at any time: the agent, the network or etcd may be slow.  *)
(* Lease identifiers are reused when nothing refers to them any more.      *)
(***************************************************************************)
CONSTANTS
    Node,       \* cluster_id of each agent
    Lease,      \* lease identifiers of etcd
    None        \* no lease, no key, no known master

ASSUME NoneAssumption ==
    None \notin Node \cup Lease \cup [owner : Node, lease : Lease]

VARIABLES
    alive,      \* leases etcd holds
    key,        \* the master key: its value and its lease, or None
    late,       \* transactions sent to etcd that no coroutine waits for
    pc,         \* where the election loop of each agent is
    role,       \* state.role
    lease,      \* self._lease
    asked,      \* the lease of the _acquire() in progress
    known       \* state.master_id

etcd == <<alive, key, late>>
vars == <<alive, key, late, pc, role, lease, asked, known>>

Keys   == [owner : Node, lease : Lease]
Labels == {"down", "loop", "refresh", "grant", "cas", "won", "becoming",
           "losing", "read", "stopping"}

TypeOK ==
    /\ alive \subseteq Lease
    /\ key \in Keys \cup {None}
    /\ late \subseteq Keys
    /\ pc \in [Node -> Labels]
    /\ role \in [Node -> {"MASTER", "WORKER"}]
    /\ lease \in [Node -> Lease \cup {None}]
    /\ asked \in [Node -> Lease \cup {None}]
    /\ known \in [Node -> Node \cup {None}]

Init ==
    /\ alive = {}
    /\ key = None
    /\ late = {}
    /\ pc = [n \in Node |-> "down"]
    /\ role = [n \in Node |-> "WORKER"]
    /\ lease = [n \in Node |-> None]
    /\ asked = [n \in Node |-> None]
    /\ known = [n \in Node |-> None]

\* Nothing refers to lease l: etcd may hand its identifier out.
Fresh(l) ==
    /\ l \notin alive
    /\ \A n \in Node : lease[n] # l /\ asked[n] # l
    /\ \A r \in late : r.lease # l

\* The transaction agent n is waiting for.
InFlight(n) == {r \in Keys : pc[n] = "cas" /\ r.owner = n /\ r.lease = asked[n]}

Goto(n, label) == pc' = [pc EXCEPT ![n] = label]

----------------------------------------------------------------------------
(* etcd.                                                                   *)

\* Variant: a put without the comparison.
PutBlind(n, l) == l \in alive /\ key' = [owner |-> n, lease |-> l]

\* The transaction of _acquire(): create the key if it has version 0.
Put(n, l) == key = None /\ l \in alive /\ key' = [owner |-> n, lease |-> l]

\* Lease l ends, by expiry or revocation, and the key attached to it goes.
End(l) ==
    /\ alive' = alive \ {l}
    /\ key' = IF key # None /\ key.lease = l THEN None ELSE key

Expire(l) ==
    /\ l \in alive
    /\ End(l)
    /\ UNCHANGED <<late, pc, role, lease, asked, known>>

\* A transaction nobody waits for is executed, or never arrives.
LatePut(r) ==
    /\ r \in late
    /\ late' = late \ {r}
    /\ Put(r.owner, r.lease) \/ UNCHANGED key
    /\ UNCHANGED <<alive, pc, role, lease, asked, known>>

----------------------------------------------------------------------------
(* The election loop of agent n.                                           *)

\* start(): the peer is registered and the loop task is created.
Start(n) ==
    /\ pc[n] = "down"
    /\ Goto(n, "loop")
    /\ UNCHANGED <<etcd, role, lease, asked, known>>

\* Variant: a worker that has observed a master leaves the key alone.
TryAcquireIfUnknown(n) ==
    /\ pc[n] = "loop"
    /\ Goto(n, IF role[n] = "MASTER" /\ lease[n] # None THEN "refresh"
               ELSE IF known[n] = None THEN "grant" ELSE "losing")
    /\ UNCHANGED <<etcd, role, lease, asked, known>>

\* _try_acquire_master: a master with a lease refreshes it, everyone else asks.
TryAcquire(n) ==
    /\ pc[n] = "loop"
    /\ Goto(n, IF role[n] = "MASTER" /\ lease[n] # None THEN "refresh" ELSE "grant")
    /\ UNCHANGED <<etcd, role, lease, asked, known>>

\* The refresh is answered.  For a lease that is gone etcd answers TTL 0, and
\* _refresh_lease drops the answer: nothing changes.
RefreshReturns(n) ==
    /\ pc[n] = "refresh"
    /\ Goto(n, "loop")
    /\ UNCHANGED <<etcd, role, lease, asked, known>>

\* Variants: losing the lease clears the role; it leaves the role alone.
RefreshClearsRole(n) ==
    /\ pc[n] = "refresh"
    /\ role' = [role EXCEPT ![n] = None]
    /\ lease' = [lease EXCEPT ![n] = None]
    /\ Goto(n, "losing")
    /\ UNCHANGED <<etcd, asked, known>>

RefreshKeepsRole(n) ==
    /\ pc[n] = "refresh"
    /\ lease' = [lease EXCEPT ![n] = None]
    /\ Goto(n, "losing")
    /\ UNCHANGED <<etcd, role, asked, known>>

\* The refresh raises: _on_lose_master forgets the lease, which lives on.
RefreshRaises(n) ==
    /\ pc[n] = "refresh"
    /\ role' = [role EXCEPT ![n] = "WORKER"]
    /\ lease' = [lease EXCEPT ![n] = None]
    /\ Goto(n, "losing")
    /\ UNCHANGED <<etcd, asked, known>>

\* client.lease(ttl): every attempt is granted a lease of its own.
GrantLease(n, l) ==
    /\ pc[n] = "grant"
    /\ Fresh(l)
    /\ alive' = alive \cup {l}
    /\ asked' = [asked EXCEPT ![n] = l]
    /\ Goto(n, "cas")
    /\ UNCHANGED <<key, late, role, lease, known>>

GrantRaises(n) ==
    /\ pc[n] = "grant"
    /\ Goto(n, "loop")
    /\ UNCHANGED <<etcd, role, lease, asked, known>>

CasSucceeds(n) ==
    /\ pc[n] = "cas"
    /\ Put(n, asked[n])
    /\ Goto(n, "won")
    /\ UNCHANGED <<alive, late, role, lease, asked, known>>

\* The key exists: the new lease is left to expire.
CasFails(n) ==
    /\ pc[n] = "cas"
    /\ key # None
    /\ asked' = [asked EXCEPT ![n] = None]
    /\ Goto(n, "read")
    /\ UNCHANGED <<etcd, role, lease, known>>

\* The transaction raises, and may yet be executed.
CasRaises(n) ==
    /\ pc[n] = "cas"
    /\ late' = late \cup InFlight(n)
    /\ asked' = [asked EXCEPT ![n] = None]
    /\ Goto(n, "loop")
    /\ UNCHANGED <<alive, key, role, lease, known>>

\* Variant: the previous role is read after the new one is set, so that the agent
\* is not told.
BecomeUntold(n) ==
    /\ pc[n] = "won"
    /\ lease' = [lease EXCEPT ![n] = asked[n]]
    /\ asked' = [asked EXCEPT ![n] = None]
    /\ role' = [role EXCEPT ![n] = "MASTER"]
    /\ known' = [known EXCEPT ![n] = n]
    /\ Goto(n, "loop")
    /\ UNCHANGED etcd

\* The loop resumes with success: self._lease, then _on_become_master.
BecomeMaster(n) ==
    /\ pc[n] = "won"
    /\ lease' = [lease EXCEPT ![n] = asked[n]]
    /\ asked' = [asked EXCEPT ![n] = None]
    /\ role' = [role EXCEPT ![n] = "MASTER"]
    /\ known' = [known EXCEPT ![n] = n]
    /\ Goto(n, "becoming")
    /\ UNCHANGED etcd

\* on_become_master or on_lose_master returns or raises.
CallbackEnds(n) ==
    /\ pc[n] \in {"becoming", "losing"}
    /\ Goto(n, "loop")
    /\ UNCHANGED <<etcd, role, lease, asked, known>>

\* _read_master: an absent key leaves the last known master in place.
ReadMaster(n) ==
    /\ pc[n] = "read"
    /\ \/ key # None /\ known' = [known EXCEPT ![n] = key.owner]
       \/ UNCHANGED known
    /\ Goto(n, "loop")
    /\ UNCHANGED <<etcd, role, lease, asked>>

----------------------------------------------------------------------------
(* Other coroutines of agent n, and its process.                           *)

Running(n) == pc[n] \notin {"down", "stopping"}

\* Revoking self._lease; an error is passed over.
Revoke(n) ==
    \/ lease[n] # None /\ End(lease[n])
    \/ UNCHANGED <<alive, key>>

\* POST /master/elect: the REST handler lets only a master through.  The lease
\* is revoked; neither role nor self._lease changes.
ForceElect(n) ==
    /\ Running(n)
    /\ role[n] = "MASTER" /\ known[n] = n
    /\ Revoke(n)
    /\ UNCHANGED <<late, pc, role, lease, asked, known>>

\* stop(): the loop task is cancelled.  A call to etcd goes on in its thread.
Stop(n) ==
    /\ Running(n)
    /\ late' = late \cup InFlight(n)
    /\ asked' = [asked EXCEPT ![n] = None]
    /\ Goto(n, "stopping")
    /\ UNCHANGED <<alive, key, role, lease, known>>

\* The process ends, its memory with it: after stop() has revoked the lease,
\* or in a crash.  A transaction on its way is not recalled.
Exit(n) ==
    /\ role' = [role EXCEPT ![n] = "WORKER"]
    /\ lease' = [lease EXCEPT ![n] = None]
    /\ asked' = [asked EXCEPT ![n] = None]
    /\ known' = [known EXCEPT ![n] = None]
    /\ Goto(n, "down")

StopEnds(n) ==
    /\ pc[n] = "stopping"
    /\ Revoke(n)
    /\ Exit(n)
    /\ UNCHANGED late

Crash(n) ==
    /\ pc[n] # "down"
    /\ late' = late \cup InFlight(n)
    /\ Exit(n)
    /\ UNCHANGED <<alive, key>>

----------------------------------------------------------------------------

Loop(n) ==
    \/ TryAcquire(n) \/ RefreshReturns(n) \/ RefreshRaises(n)
    \/ \E l \in Lease : GrantLease(n, l)
    \/ GrantRaises(n) \/ CasSucceeds(n) \/ CasFails(n) \/ CasRaises(n)
    \/ BecomeMaster(n) \/ CallbackEnds(n) \/ ReadMaster(n)

Next ==
    \/ \E l \in Lease : Expire(l)
    \/ \E r \in late : LatePut(r)
    \/ \E n \in Node : Start(n) \/ Loop(n) \/ ForceElect(n) \/ Stop(n)
                       \/ StopEnds(n) \/ Crash(n)

\* An agent is refreshing lease l, or has just been granted it.
KeptAlive(l) == \E n \in Node : Running(n) /\ l \in {lease[n], asked[n]}

\* The event loop of a running agent resumes its coroutines, stop() among them,
\* leases that are not kept alive expire, late calls arrive or are dropped, and
\* etcd does not fail an agent's calls for ever.
Fairness ==
    /\ \A l \in Lease : WF_vars(Expire(l) /\ ~KeptAlive(l))
    /\ \A r \in Keys : WF_vars(LatePut(r))
    /\ \A n \in Node :
        /\ WF_vars(Loop(n))
        /\ WF_vars(StopEnds(n))
        /\ SF_vars(\E l \in Lease : GrantLease(n, l))
        /\ SF_vars(CasSucceeds(n))

Spec == Init /\ [][Next]_vars /\ Fairness

----------------------------------------------------------------------------
(* Properties.                                                             *)

\* Agent n believes it is the master and etcd still holds its lease.
LeasedMaster(n) == role[n] = "MASTER" /\ lease[n] \in alive

\* At any moment at most one agent is a master with a live lease, however calls
\* to etcd are delayed, cancelled or repeated and agents restarted.
AtMostOneLeasedMaster ==
    \A m, n \in Node : LeasedMaster(m) /\ LeasedMaster(n) => m = n

\* Only a worker without a lease asks for the key: a master never runs into
\* _acquire(), where winning again would raise its term and skip the callback.
OnlyWorkersCampaign ==
    \A n \in Node : pc[n] \in {"grant", "cas", "won", "read"} =>
        role[n] = "WORKER" /\ lease[n] = None

\* Mastership backed by a lease is a lock: it is free for a while between two
\* holders.
LockHolder == IF \E n \in Node : LeasedMaster(n)
              THEN CHOOSE n \in Node : LeasedMaster(n) ELSE None

Lock == INSTANCE LeaderLock WITH holder <- LockHolder

ImplementsLock == Lock!Spec

\* To the agent it runs in, each election is that of RoleCallbacks: whatever etcd
\* answers, on_become_master and on_lose_master alternate with the role, one at a
\* time (raft.py:173-196).
Callback(n) == IF pc[n] = "becoming" THEN "become"
               ELSE IF pc[n] = "losing" THEN "lose" ELSE "none"

Callbacks(n) == INSTANCE RoleCallbacks
    WITH role <- role[n], callback <- Callback(n), running <- Running(n)

ImplementsCallbacks ==
    /\ \A n \in Node : Callbacks(n)!Init
    /\ [][\A n \in Node : Callbacks(n)!Step]_vars

\* While an agent keeps running as a worker the key does not stay absent:
\* whatever leases, calls and other agents are lost, it is taken again.
WorkersTakeOver ==
    \A n \in Node : <>[]Running(n) => []<>(key # None \/ role[n] = "MASTER")

----------------------------------------------------------------------------
(* What the source says of itself and the code does not do.                *)

\* raft.py:4: "The holder of the lease is the master."  Two agents may both be
\* masters for a while, but not for good.
OneMasterAgain ==
    []<>(\A m, n \in Node : role[m] = "MASTER" /\ role[n] = "MASTER" => m = n)
===========================================================================
