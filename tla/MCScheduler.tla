---------------------------- MODULE MCScheduler ----------------------------
(* Model-checking instance of Scheduler and of its Stats. *)
EXTENDS SchedulerStats, TLC

\* Hosts are interchangeable, and so are microVMs.
Symmetry == Permutations(Host) \cup Permutations(VM)
=============================================================================
