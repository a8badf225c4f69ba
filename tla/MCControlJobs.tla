---------------------------- MODULE MCControlJobs ----------------------------
(* A small instance of ControlJobs: two jobs whose targets may coincide.    *)
EXTENDS ControlJobs, TLC

\* Redaction identifies two of the three transcripts.
MCRedact == [e \in Evidence |-> IF e = "secret" THEN "hidden" ELSE e]

MCSymmetry == Permutations(Jobs) \cup Permutations(Agents) \cup Permutations(Keys)
=============================================================================
