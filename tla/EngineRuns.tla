----------------------------- MODULE EngineRuns -----------------------------
(***************************************************************************)
(* The runs of an engine in one execution of an issue, as the controller   *)
(* sees them: it tells them apart by what they return, and runs the engine *)
(* again while no modified file is named.                                  *)
(***************************************************************************)
EXTENDS EngineContract

CONSTANT Budget  \* runs of the engine in one execution

VARIABLES
    engines,  \* the kinds of engine the configuration allows
    attempt,  \* runs begun
    working,  \* whether a run is under way
    edits,    \* whether git status lists a file
    answer    \* of the last run: files named, none named, or an exception

vars == <<engines, attempt, working, edits, answer>>

Init ==
    /\ engines \in (SUBSET EngineKinds) \ {{}}
    /\ attempt = 0 /\ ~working /\ ~edits /\ answer = "pending"

Begin ==
    /\ ~working /\ attempt < Budget /\ answer \in {"pending", "nothing"}
    /\ working' = TRUE /\ attempt' = attempt + 1 /\ answer' = "pending"
    /\ UNCHANGED <<engines, edits>>

\* The tree changes as the engine goes, and may change back.
Edit ==
    /\ working /\ edits' \in BOOLEAN
    /\ UNCHANGED <<engines, attempt, working, answer>>

End ==
    /\ working /\ working' = FALSE /\ edits' \in BOOLEAN
    /\ answer' \in {"files", "nothing", "raised"}
    /\ answer' = "files" => MayReport(engines, edits')
    /\ UNCHANGED <<engines, attempt>>

Next == Begin \/ Edit \/ End

Spec == Init /\ [][Next]_vars

=========================================================================
