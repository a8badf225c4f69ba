---------------------------- MODULE MCEcosystem ----------------------------
(* Small instances of Ecosystem.                                            *)
EXTENDS Ecosystem, TLC

MCSymmetry ==
  Permutations(Projects) \cup Permutations(Externals) \cup Permutations(Handlers)
=============================================================================
