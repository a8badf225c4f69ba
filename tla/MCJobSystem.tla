----------------------------- MODULE MCJobSystem -----------------------------
(* Small instances of JobSystem.                                            *)
EXTENDS JobSystem, TLC

MCRedact == [e \in Evidence |-> e]

\* Every process on the only data directory there is.
MCSameDirectory == [p \in Processes |-> CHOOSE a \in Agents : TRUE]

\* Job identifiers are fresh and keys are only compared, so every behaviour is, but
\* for their names, one in which the n-th job is n and was asked for with key n.
\* Unlike SYMMETRY this does not get in the way of liveness: it only leaves out
\* behaviours that differ from others in names, and submissions, which are not fair.
MCNamedInOrder == \A j \in Jobs : Exists(j) => created[j] = j /\ goal[j].key = j
=============================================================================
