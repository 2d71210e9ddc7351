--------------------------- MODULE MCDurableJobs ---------------------------
(* Bounded instances of DurableJobs and JobTasks for TLC.                   *)
EXTENDS JobTasks, TLC

\* Jobs without a deadline are interchangeable, and so are jobs with one.
Symmetry == Permutations(Timed) \cup Permutations(Jobs \ Timed)
=============================================================================
