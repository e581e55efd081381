--------------------------- MODULE PipelineContract ---------------------------
(***************************************************************************)
(* What TripLifecycle takes for granted of graph.ainvoke and of the branch *)
(* that follows it: the pipeline ends by saving, asking or raising, and    *)
(* one that an approval has resumed does not ask.                          *)
(***************************************************************************)

VARIABLES
  resumed,            \* the run has an approval_response
  outcome             \* what the planner does with the pipeline's result

vars == <<resumed, outcome>>

Init ==
  /\ resumed \in BOOLEAN
  /\ outcome = "running"

\* TripLifecycle!RunGraph
Return ==
  /\ outcome = "running"
  /\ outcome' = "save" \/ (~resumed /\ outcome' = "ask")
  /\ UNCHANGED resumed

\* TripLifecycle!RunGraphFails
Raise ==
  /\ outcome = "running"
  /\ outcome' = "raised"
  /\ UNCHANGED resumed

Next == Return \/ Raise

Spec == Init /\ [][Next]_vars

FairSpec == Spec /\ WF_vars(Next)
=============================================================================
