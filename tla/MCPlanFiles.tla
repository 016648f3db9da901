------------------------------ MODULE MCPlanFiles ------------------------------
(* One of the three objectives, for model-checking PlanFiles.              *)
EXTENDS PlanFiles

OneObjective == <<"recommended">>

===============================================================================
