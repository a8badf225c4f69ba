------------------------- MODULE MCOperatorSession -------------------------
(* Small instances of OperatorSession.                                      *)
EXTENDS OperatorSession, TLC

MCSymmetry == Permutations(Sessions) \cup Permutations(Requests)
=============================================================================
