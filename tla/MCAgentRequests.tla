-------------------------- MODULE MCAgentRequests --------------------------
(* Small instances of AgentRequests.                                        *)
EXTENDS AgentRequests, TLC

MCSymmetry == Permutations(Requests)
=============================================================================
