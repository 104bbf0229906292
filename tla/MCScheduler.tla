---------------------------- MODULE MCScheduler ----------------------------
(* Scheduler with two workers, three process names and one job.            *)
EXTENDS Scheduler

CONSTANTS w1, w2, s1, s2, s3, j1

MCWorkers == {w1, w2}
MCServers == {s1, s2, s3}
MCJobs == {j1}
=============================================================================
