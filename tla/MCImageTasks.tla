---------------------------- MODULE MCImageTasks ----------------------------
(* Model values and symmetry for checking ImageTasks with TLC.             *)
EXTENDS ImageTasks, TLC

CONSTANTS t1, t2, j1, j2, j3, r1

MCTasks1    == {t1}
MCTasks2    == {t1, t2}
MCJobs2     == {j1, j2}
MCJobs3     == {j1, j2, j3}
MCReplicas0 == {}
MCReplicas1 == {r1}

MCSymmetry == Permutations(Tasks) \cup Permutations(Jobs)

=============================================================================
