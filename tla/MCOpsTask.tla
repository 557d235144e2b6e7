----------------------------- MODULE MCOpsTask -----------------------------
(* The number of tool calls the model may make in each of its turns.        *)
EXTENDS OpsTask

\* A turn that may load the skill, one of two calls that may pause at the first,
\* and one more request that shows what came of them.
ThreeSteps == <<1, 2, 1>>

TwoSteps == <<1, 1>>
=============================================================================
