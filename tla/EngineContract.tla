--------------------------- MODULE EngineContract ---------------------------
(***************************************************************************)
(* What the controller is told by a run of an engine, of which there are   *)
(* two kinds: the agent, and inference with patches.  IssueExecution takes *)
(* a run as one step and EngineeringPipeline opens it; this is what they   *)
(* agree on.                                                               *)
(***************************************************************************)
EXTENDS Naturals

EngineKinds == {"agent", "infer"}

\* files_modified of the agent is what git status lists; inference names the
\* files its patch writes, applied or not.  Either may have edited and name
\* nothing: the agent's answer may be lost, and a patch may only delete.
MayReport(engines, edited) == edited \/ "infer" \in engines

=========================================================================
