-------------------------- MODULE MCLiveMigration --------------------------
(* Instances of LiveMigration for TLC. *)
EXTENDS LiveMigration

AllWirings == [source : BOOLEAN, dest : BOOLEAN]

\* Progress at the start of the job, in the middle and at its cap of 99.
SomePercents == {0, 50, 99}
============================================================================
