---------------------------- MODULE MCAccountPool ----------------------------
(***************************************************************************)
(* AccountPool for TLC: replicas and accounts are interchangeable, and one *)
(* replica at a time refreshes its view (a refresh changes nothing that    *)
(* another one sees).                                                      *)
(***************************************************************************)
EXTENDS AccountPool, TLC

Alike == Permutations(Replicas) \cup Permutations(Tokens)

OneRefresh == Cardinality({r \in Replicas : reader[r].pc # "idle"}) <= 1
=============================================================================
