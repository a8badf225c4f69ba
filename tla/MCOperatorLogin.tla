-------------------------- MODULE MCOperatorLogin --------------------------
(* Small instances of OperatorLogin.                                        *)
EXTENDS OperatorLogin, TLC

MCSymmetry == Permutations(Logins) \cup Permutations(Remote)
=============================================================================
