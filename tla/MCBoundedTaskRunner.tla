------------------------ MODULE MCBoundedTaskRunner ------------------------
(* Model values and symmetry for checking BoundedTaskRunner with TLC.      *)
EXTENDS BoundedTaskRunner, TLC

CONSTANTS j1, j2, j3, c1, c2

MCJobs2    == {j1, j2}
MCJobs3    == {j1, j2, j3}
MCCallers1 == {c1}
MCCallers2 == {c1, c2}

MCSymmetry == Permutations(Jobs) \cup Permutations(Callers)

=============================================================================
