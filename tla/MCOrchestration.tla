-------------------------- MODULE MCOrchestration --------------------------
(* Small instances of Orchestration: a module of two stages, and infra.     *)
EXTENDS Orchestration, TLC

MCOrder == <<"pm", "infra">>
MCStages == [m \in {"pm", "infra"} |-> IF m = "infra" THEN 3 ELSE 2]
=============================================================================
