-------------------------- MODULE MCCronScheduler --------------------------
EXTENDS CronScheduler, TLC

(* Users and runs differ in nothing but their names.                       *)
Symmetry == Permutations(Users) \cup Permutations(Runs)
=============================================================================
