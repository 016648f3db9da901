-------------------------- MODULE MCRoutePublication --------------------------
(* Contexts for model-checking RoutePublication.                           *)
EXTENDS RoutePublication

Session(run, generation, digest) ==
  [run |-> run, scenario |-> "s", generation |-> generation, digest |-> digest]

(* A run that is seeked (a new generation) and reconfigured (a digest).    *)
OneRunContexts ==
  {Session("A", 0, "x"), Session("A", 1, "x"), Session("A", 1, "y")}

===============================================================================
