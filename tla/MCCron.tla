------------------------------- MODULE MCCron -------------------------------
EXTENDS CronScheduler

CONSTANTS s1, s2

(* nightly-backup-db and nightly-backup-files share their first characters, *)
(* and so the prefix of their jobs.                                        *)
SharedName == [s \in {s1, s2} |-> s1]
BothCovered == [s \in {s1, s2} |-> {s1, s2}]
=============================================================================
