---------------------------- MODULE MCStompServer ----------------------------
(* Model values and symmetry for the runs of StompServer.                  *)
EXTENDS StompServer, TLC

Symmetry == Permutations(Sessions) \cup Permutations(Ids)
=============================================================================
