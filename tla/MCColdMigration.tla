-------------------------- MODULE MCColdMigration --------------------------
(* Instances of ColdMigration for TLC. *)
EXTENDS ColdMigration

AllWirings == [source : BOOLEAN, dest : BOOLEAN]

\* What cnf/api/v1/vms.py and cnf/tasks/migration_tasks.py build: no stubs.
NoStubs == {[source |-> FALSE, dest |-> FALSE]}
============================================================================
