--------------------------- MODULE MCAccountIngest ---------------------------
(* AccountIngest for TLC: a job of two chunks, two refresh tokens in one.   *)
EXTENDS AccountIngest

McRTs == {1, 2}
McManaged == {2}
=============================================================================
