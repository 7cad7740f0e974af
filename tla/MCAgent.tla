------------------------------ MODULE MCAgent ------------------------------
(* A policy for high loads, and a less urgent one that any load violates.  *)
EXTENDS Agent

TwoPolicies == <<[limit |-> 1, target |-> "least_loaded"],
                 [limit |-> 0, target |-> "other"]>>
============================================================================
