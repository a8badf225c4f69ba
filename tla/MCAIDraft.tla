----------------------------- MODULE MCAIDraft -----------------------------
(* Small instances of AIDraft.                                              *)
EXTENDS AIDraft, TLC

MCOrder == <<"pm", "infra">>
MCOneModule == <<"pm">>

Task(t, b) == [title |-> t, body |-> b]

\* The second plan asks for two changes of the one task, and redraws the design.
MCWork ==
  [p \in Plans |->
    IF p = "first"
    THEN [pm |-> <<Task("a", 1)>>, infra |-> <<Task("design", 1)>>]
    ELSE [pm |-> <<Task("a", 2), Task("a", 3)>>, infra |-> <<Task("design", 2)>>]]

\* Both tasks of the first plan have one title: the task that is still there is an
\* update of the other one, like the one that changed.
MCTwins ==
  [p \in Plans |->
    [pm |-> IF p = "first" THEN <<Task("a", 1), Task("a", 2)>>
            ELSE <<Task("a", 1), Task("a", 3)>>]]

\* Draft identifiers are fresh: every behaviour is, but for their names, one in which
\* the drafts are created in this order.
MCNamedInOrder == \A d \in Drafts : d > 1 /\ Exists(d) => Exists(d - 1)

MCSymmetry == Permutations(Drafts) \cup Permutations(Handlers)
=============================================================================
