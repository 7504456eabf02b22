--------------------------- MODULE MCCredentialGate ---------------------------
(* Model values and symmetry for checking CredentialGate with TLC.         *)
EXTENDS CredentialGate, TLC

CONSTANTS p1, p2, q1, q2, rt1, rt2

MCProcesses == {p1, p2}
MCRequests1 == {q1}
MCRequests2 == {q1, q2}
MCRTs       == {rt1, rt2}
MCFileRTs   == {rt1}

MCSymmetry == Permutations(Processes) \cup Permutations(Requests)

=============================================================================
