----------------------------- MODULE LayeredVoyages ----------------------------
(***************************************************************************)
(* What the services ask of the search.  PlanningService.execute (v2) has  *)
(* one voyage planned under the three objectives; the four-layer service   *)
(* (v3) has it planned four times: the full voyage, then three shorter     *)
(* voyages that follow the recommended one, each to the last stop that one *)
(* makes before a cutoff and not longer than it.  The results become plans,*)
(* which the contract models validate when they are constructed.           *)
(*                                                                         *)
(* All calls go to one planner, one after the other.  A request may be     *)
(* revoked at any of its reviews, which here ends it; who publishes is the *)
(* subject of RoutePublication and LayeredPublication.                     *)
(***************************************************************************)
EXTENDS TimeDependentSearch, SequencesExt, FiniteSetsExt

CONSTANTS
  Voyages,         \* the requests to the services
  NoVoyage,
  Cutoffs,         \* 72, 24 and 6 hours, by layer
  SearchLimit,     \* planner_config.max_search_hours
  Limit,           \* max_expansions
  MaxExecutions    \* bound: execute() calls

Layers == <<"full_voyage", "main_corridor", "rolling", "executable">>

Modes == <<"fastest", "low_risk", "recommended">>

ShorterLayers == {Layers[i] : i \in 2..4}

ASSUME LayerAssumption ==
  /\ SearchLimit \in Nat
  /\ Cutoffs \in [ShorterLayers -> Nat]
  /\ \A i \in 2..3 : Cutoffs[Layers[i]] > Cutoffs[Layers[i + 1]]
  /\ {Modes[i] : i \in 1..3} \subseteq Objectives
  /\ \A v \in Voyages : /\ v.start # v.goal /\ v.elapsed \in Nat \ {0}
                        /\ v.layered \in BOOLEAN
  /\ NoVoyage \notin Voyages

(* The requests are all that the layers may ask for.                       *)
ASSUME AskedAssumption ==
  \A v \in Voyages : \A goal \in Nodes \cup {v.goal} :
  \A i \in 1..3, ceiling \in 0..SearchLimit :
    [start |-> v.start, goal |-> goal, departure |-> v.departure,
     objective |-> Modes[i], bucket |-> v.bucket, ceiling |-> ceiling,
     limit |-> Limit] \in Requests

(* The objective is about what an edge costs, not about where it can be    *)
(* sailed or how long that takes.                                          *)
ASSUME ObjectiveAssumption ==
  \A w \in Windows, a \in Nodes, t \in Times, h \in Headings :
    \A b \in Neighbors(a) :
      LET edges == {Traverse(w, a, b, t, h, o) : o \in Objectives}
      IN  \A e, f \in edges :
            e.verdict = "ok" => f.verdict = "ok" /\ f.arrival = e.arrival

VARIABLES
  voyage,      \* the request of the execution in progress
  planned,     \* the results so far, layer by layer
  stage,       \* where execute() stands, or how it ended
  executions

serviceVars == <<voyage, planned, stage, executions>>

allVars == <<vars, serviceVars>>

VoyagesInit ==
  /\ Init
  /\ voyage = NoVoyage /\ planned = <<>> /\ stage = "idle" /\ executions = 0

Planning == stage \in {"asking", "awaiting", "layered"}

-------------------------------------------------------------------------------
(* Layers                                                                  *)

LayerAt(k) == Layers[1 + (k - 1) \div 3]

ModeAt(k) == Modes[1 + ((k - 1) % 3)]

Reference == planned[3].route

(* The waypoints of a route that are not where it starts.                  *)
NonStart(route) == {i \in 2..Len(route) : route[i].node # route[1].node}

(* Faulty variant: a stop at the very cutoff is left out.                  *)
StopsBefore(route, cutoff) == {i \in NonStart(route) : route[i].eta < cutoff}

StopsUntil(route, cutoff) == {i \in NonStart(route) : route[i].eta <= cutoff}

(* _anchor_at_or_before(): the last of these is returned, if there is any. *)
Anchors(route, cutoff) ==
  IF NonStart(route) = {} THEN {}
  ELSE IF Last(route).eta <= cutoff THEN {Len(route)}
  ELSE StopsUntil(route, cutoff)

CutoffTime(layer) == voyage.departure + Cutoffs[layer]

LayerGoal(layer) ==
  IF layer = "full_voyage" THEN voyage.goal
  ELSE Reference[Max(Anchors(Reference, CutoffTime(layer)))].node

Least2(i, j) == Min({i, j})

LayerElapsed(layer) ==
  IF layer = "full_voyage" THEN voyage.elapsed
  ELSE Least2(Least2(voyage.elapsed, Cutoffs[layer]),
              Last(Reference).eta - voyage.departure)

(* _plan_layer(): the request of one search.                               *)
LayerRequest(layer, objective) ==
  [start |-> voyage.start, goal |-> LayerGoal(layer),
   departure |-> voyage.departure, objective |-> objective,
   bucket |-> voyage.bucket, ceiling |-> LayerElapsed(layer), limit |-> Limit]

Materializable(layer) == Anchors(Reference, CutoffTime(layer)) # {}

(* The results of a layer are what was asked for.                          *)
AsAsked(results) ==
  LET layer == LayerAt(Len(results))
  IN  \A k \in Len(results) - 2 .. Len(results) :
        /\ results[k].route[1].node = voyage.start
        /\ Last(results[k].route).node = LayerGoal(layer)
        /\ Last(results[k].route).eta
             <= voyage.departure + LayerElapsed(layer)

-------------------------------------------------------------------------------
(* Plans                                                                   *)

(* The focus windows the service gives its layers: 24 to 72 hours, 0 to 24 *)
(* and 0 to 6, cut at the end of the full voyage.                          *)
Focus(layer, end) ==
  LET at(cutoff) == Least2(voyage.departure + cutoff, end)
  IN  CASE layer = "full_voyage"   -> <<voyage.departure, end>>
        [] layer = "main_corridor" -> <<at(Cutoffs["rolling"]), at(Cutoffs[layer])>>
        [] OTHER                   -> <<voyage.departure, at(Cutoffs[layer])>>

(* _to_v3_plan(), _to_route_plan(): the k-th result.                       *)
PlanOf(k) ==
  [layer       |-> LayerAt(k),
   objective   |-> ModeAt(k),
   waypoints   |-> planned[k].route,
   focus       |-> Focus(LayerAt(k), Last(Reference).eta),
   reference   |-> IF k <= 3 THEN 0 ELSE 3,
   destination |-> Last(planned[k].route).node = voyage.goal]

Plans == {PlanOf(k) : k \in 1..Len(planned)}

-------------------------------------------------------------------------------
(* The contract                                                            *)

(* RoutePlan, and what RoutePlanV3 adds.                                   *)
ValidPlan(plan) ==
  /\ Len(plan.waypoints) >= 2
  /\ plan.waypoints[1].eta = voyage.departure
  /\ \A i \in 2..Len(plan.waypoints) :
       plan.waypoints[i - 1].eta < plan.waypoints[i].eta
  /\ voyage.departure <= plan.focus[1] /\ plan.focus[1] <= plan.focus[2]
  /\ IF plan.layer = "full_voyage"
       THEN plan.reference = 0 /\ plan.destination
       ELSE plan.reference # 0

(* _reference_anchor() finds its anchor by itself, in the plan.            *)
ReferenceAnchors(waypoints, cutoff) ==
  LET distinct == NonStart(waypoints)
  IN  IF distinct # {} /\ waypoints[Max(distinct)].eta <= cutoff
        THEN {Max(distinct)}
        ELSE {i \in distinct : waypoints[i].eta <= cutoff}

(* The window that _validate_layer_semantics() expects.                    *)
ExpectedWindow(layer, end) ==
  [from  |-> IF layer = "main_corridor"
               THEN Least2(CutoffTime("rolling"), end) ELSE voyage.departure,
   until |-> IF layer = "full_voyage" THEN end ELSE Least2(CutoffTime(layer), end)]

(* FourLayerRoutePlanSet: twelve plans of one identity, each layer's in    *)
(* its window and with its end at the anchor of the reference.             *)
ValidSet(plans) ==
  LET reference == CHOOSE p \in plans : /\ p.layer = "full_voyage"
                                        /\ p.objective = "recommended"
      end       == Last(reference.waypoints)
  IN  /\ \A layer \in Range(Layers), objective \in Range(Modes) :
           \E plan \in plans : plan.layer = layer /\ plan.objective = objective
      /\ \A plan \in plans :
           LET expected == ExpectedWindow(plan.layer, end.eta)
           IN  /\ plan.focus = <<expected.from, expected.until>>
               /\ plan.layer # "full_voyage" =>
                    LET anchors == ReferenceAnchors(reference.waypoints,
                                                    CutoffTime(plan.layer))
                        anchor  == reference.waypoints[Max(anchors)].node
                    IN  /\ anchors # {}
                        /\ Last(plan.waypoints).node = anchor
                        /\ plan.destination <=> anchor = end.node

-------------------------------------------------------------------------------
(* execute()                                                               *)

Execute(v) ==
  /\ ~Planning
  /\ executions < MaxExecutions
  /\ executions' = executions + 1
  /\ voyage' = v
  /\ planned' = <<>>
  /\ stage' = IF v.elapsed > SearchLimit THEN "refused" ELSE "asking"
  /\ UNCHANGED vars

(* plan_candidates(): the next objective of the layer.                     *)
Ask ==
  /\ stage = "asking"
  /\ stage' = "awaiting"
  /\ LET k == Len(planned) + 1
         r == LayerRequest(LayerAt(k), ModeAt(k))
     IN  Begin(r) \/ Refuse(r)
  /\ UNCHANGED <<voyage, planned, executions>>

Answered == stage = "awaiting" /\ ~Searching

(* A search that raises ends the execution.                                *)
Fail ==
  /\ Answered /\ answer.outcome # "route"
  /\ stage' = answer.outcome
  /\ UNCHANGED <<vars, voyage, planned, executions>>

Collect ==
  /\ Answered /\ answer.outcome = "route"
  /\ planned' = Append(planned, answer)
  /\ stage' = IF Len(planned') % 3 = 0 THEN "layered" ELSE "asking"
  /\ UNCHANGED <<vars, voyage, executions>>

(* Where execute() goes from a layer that is complete.                     *)
Proceed ==
  IF ~AsAsked(planned) THEN "unexpected"
  ELSE IF \E plan \in Plans : ~ValidPlan(plan) THEN "rejected"
  ELSE IF ~voyage.layered THEN "batch"
  ELSE IF Len(planned) < 12
    THEN IF Materializable(LayerAt(Len(planned) + 1)) THEN "asking"
         ELSE "unmaterializable"
  ELSE IF ValidSet(Plans) THEN "set"
  ELSE "rejected"

Review ==
  /\ stage = "layered"
  /\ stage' = Proceed
  /\ UNCHANGED <<vars, voyage, planned, executions>>

(* require_current() after the three searches of a layer raises.           *)
Overtaken ==
  /\ stage = "layered"
  /\ stage' = "cancelled"
  /\ UNCHANGED <<vars, voyage, planned, executions>>

Run == Ask \/ Fail \/ Collect \/ Review \/ ((Step \/ Cancel) /\ UNCHANGED serviceVars)

Rest ==
  /\ ~Planning /\ executions = MaxExecutions
  /\ UNCHANGED allVars

VoyagesNext ==
  \/ \E v \in Voyages : Execute(v)
  \/ Run
  \/ Overtaken
  \/ Rest

VoyagesSpec == VoyagesInit /\ [][VoyagesNext]_allVars

(* execute() keeps running: every search is bounded, and the search polls  *)
(* the handle, but nobody has to revoke it.                                *)
FairVoyages ==
  /\ VoyagesSpec
  /\ WF_allVars(Ask \/ Fail \/ Collect \/ Review \/ (Step /\ UNCHANGED serviceVars))

-------------------------------------------------------------------------------
(* Properties                                                              *)

(* Nothing the service puts together is refused by its own checks or by    *)
(* the contract, which computes anchors and windows anew from the plans.   *)
ContractKept == stage \notin {"unexpected", "rejected"}

(* The shorter voyages follow a route that is known: with a bucket for     *)
(* every moment, none of them fails for want of a route once the full      *)
(* voyage was planned, although each has a time limit of its own.          *)
ShorterLayersFollow ==
  stage \in {"no_route", "horizon", "blocked", "uncovered"} =>
    Len(planned) < 3 \/ voyage.bucket > 1

(* An execution ends, with plans or an error.                              *)
ExecutionEnds == Planning ~> ~Planning

===============================================================================
