----------------------------- MODULE MCEngines -----------------------------
(***************************************************************************)
(* The two engines of the repository, which share no state, in one run:    *)
(* the workflow orchestrator and the engineering pipeline.  One of them,   *)
(* chosen at the start, moves.                                             *)
(***************************************************************************)
EXTENDS Orchestrator, EngineeringPipeline

VARIABLE part

vars == <<part, ovars, evars>>

\* The part that does not move begins in one of its initial states.
Init ==
    /\ part \in {"orchestrator", "engine"}
    /\ OrchestratorInit /\ EngineInit
    /\ part = "engine" => recovery
    /\ part = "orchestrator" =>
        config = [agent |-> FALSE, fallback |-> FALSE, dry |-> FALSE, tests |-> FALSE]

Next ==
    /\ UNCHANGED part
    /\ \/ part = "orchestrator" /\ OrchestratorNext /\ UNCHANGED evars
       \/ part = "engine" /\ EngineNext /\ UNCHANGED ovars

\* The fairness of the module that moves.
Goes ==
    /\ UNCHANGED part
    /\ \/ part = "orchestrator" /\ Advances /\ UNCHANGED evars
       \/ part = "engine" /\ Advance /\ UNCHANGED ovars
Spec == Init /\ [][Next]_vars /\ WF_vars(Goes)

=========================================================================
