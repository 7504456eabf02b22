--------------------------- MODULE MCImageDispatch ---------------------------
(* ImageDispatch for TLC: no constant of it needs more than a cfg gives.    *)
EXTENDS ImageDispatch
=============================================================================
