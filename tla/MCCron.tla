------------------------------ MODULE MCCron ------------------------------
(***************************************************************************)
(* Small instances of CronScheduler for TLC.                               *)
(***************************************************************************)
EXTENDS CronScheduler, TLC

\* Replicas are interchangeable; used by the run without liveness only.
Symmetry == Permutations(Replicas)
====
