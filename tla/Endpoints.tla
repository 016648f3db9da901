------------------------------- MODULE Endpoints -------------------------------
(***************************************************************************)
(* endpoints.map_corridor_endpoints, and the command line's planning that  *)
(* begins with it (cli._plan_frames): the start and the goal of a corridor *)
(* are moved to open cells of the grid, in the first frame of the window,  *)
(* before the service is asked for a voyage between them.                  *)
(*                                                                         *)
(* Where a corridor starts or ends is a point anywhere, known here by how  *)
(* far each cell is away from it, and the region that its cell must be in. *)
(***************************************************************************)
EXTENDS LayeredVoyages, EdgeEvaluation

CONSTANTS
  Orders,          \* what the services are asked for directly
  Corridors,       \* what may be planned: a corridor and a departure
  NoCorridor, Unmapped,
  MaxAdjustment,   \* max_adjustment_km
  Frames(_)        \* the frames of a window

(* ServicePlanningRequest: a voyage of v2, for whatever is left of a window.*)
VoyageOf(w, c, start, goal) ==
  [start |-> start, goal |-> goal, departure |-> c.departure,
   elapsed |-> EndOf(Frames(w)) - c.departure, bucket |-> c.bucket,
   layered |-> FALSE]

ASSUME EndpointsAssumption ==
  /\ MaxAdjustment \in Nat
  /\ \A c \in Corridors : /\ c.departure \in Times
                          /\ \A place \in {c.start, c.goal} :
                               /\ place.away \in [Grid -> Nat]
                               /\ place.region \subseteq Grid
  /\ NoCorridor \notin Corridors /\ Unmapped \notin Grid
  /\ Orders \subseteq Voyages
  /\ \A w \in Windows, c \in Corridors, start, goal \in Grid :
       LET v == VoyageOf(w, c, start, goal)
       IN  start # goal /\ v.elapsed > 0 => v \in Voyages

(* The frames of a window: as many as there are valid times.               *)
IsChart(frames) ==
  /\ DOMAIN frames \subseteq Nat /\ DOMAIN frames # {} /\ IsFiniteSet(DOMAIN frames)
  /\ frames \in [DOMAIN frames -> [Grid -> Cell]]

(* The search is over the grid, along the edges that it samples in the     *)
(* frames of its window.                                                   *)
ASSUME GridAssumption ==
  /\ Nodes = Grid /\ Objectives = ObjectiveModes /\ Unturned = NoHeading
  /\ \A a \in Grid : Neighbors(a) = NeighborsOf(a)
  /\ \A a, b \in Grid : Heading(a, b) = HeadingOf(a, b)
  /\ \A w \in Windows : IsChart(Frames(w))
  /\ \A w \in Windows, a \in Grid, t \in Times :
       /\ Inspect(w, a, t) = Inspection(Frames(w), a, t)
       /\ \A b \in NeighborsOf(a) :
            LET leg == Sail(Frames(w), a, b, t)
            IN  \A h \in Headings, o \in Objectives :
                  Traverse(w, a, b, t, h, o) = Priced(leg, a, b, t, h, o)

VARIABLES
  corridor,   \* what the command line was last asked for
  mapping     \* what became of it before the service was asked

commandVars == <<corridor, mapping>>

corridorVars == <<allVars, commandVars>>

CorridorInit == VoyagesInit /\ corridor = NoCorridor /\ mapping = "none"

-------------------------------------------------------------------------------
(* Mapping                                                                 *)

(* payload["hard_mask"] of ordered_frames[0].                              *)
FirstFrame == Frames(window)[StartOf(Frames(window))]

HardMask == {n \in Grid : FirstFrame[n].hard}

OpenAround(nodes) == (UNION {NeighborsOf(n) : n \in nodes}) \ HardMask

(* Faulty variant: neighbours are not put into the queue.                  *)
FirstWave(start) == {start} \cup OpenAround({start})

(* The breadth-first search, one distance from the start at a time.        *)
ConnectedComponent(start) ==
  LET wave[k \in 0..Cardinality(Grid)] ==
        IF k = 0 THEN {start}
        ELSE LET before == wave[k - 1] IN before \cup OpenAround(before)
  IN  IF start \in HardMask THEN {} ELSE wave[Cardinality(Grid)]

Candidates(place, permitted) ==
  {n \in (place.region \ HardMask) \cap permitted :
     place.away[n] <= MaxAdjustment}

(* The order of pairs: by distance, then by row and column.                *)
NotFarther(place, a, b) ==
  \/ place.away[a] < place.away[b]
  \/ /\ place.away[a] = place.away[b]
     /\ a[1] < b[1] \/ (a[1] = b[1] /\ a[2] <= b[2])

(* _snap_inside_allowed_region(), or Unmapped where it raises.             *)
Snap(place, permitted) ==
  LET candidates == Candidates(place, permitted)
  IN  IF candidates = {} THEN Unmapped
      ELSE CHOOSE n \in candidates :
             \A m \in candidates : NotFarther(place, n, m)

StartOfCorridor(c) == Snap(c.start, Grid)

GoalOfCorridor(c) == Snap(c.goal, ConnectedComponent(StartOfCorridor(c)))

(* Both are found, apart from each other.                                  *)
Mappable(c) ==
  /\ StartOfCorridor(c) # Unmapped
  /\ GoalOfCorridor(c) \notin {Unmapped, StartOfCorridor(c)}

-------------------------------------------------------------------------------
(* Planning                                                                *)

(* _plan_frames(): the departure is looked at first, then the endpoints are*)
(* mapped; a request needs time that is left.                              *)
PlanFrames(c) ==
  /\ ~Planning /\ executions < MaxExecutions
  /\ corridor' = c
  /\ \/ /\ ~Covers(Frames(window), c.departure)
        /\ mapping' = "outside" /\ UNCHANGED allVars
     \/ /\ Covers(Frames(window), c.departure) /\ ~Mappable(c)
        /\ mapping' = "unmapped" /\ UNCHANGED allVars
     \/ /\ Covers(Frames(window), c.departure) /\ Mappable(c)
        /\ LET v == VoyageOf(window, c, StartOfCorridor(c), GoalOfCorridor(c))
           IN  IF v.elapsed > 0
                 THEN mapping' = "mapped" /\ Execute(v)
                 ELSE mapping' = "refused" /\ UNCHANGED allVars

CorridorNext ==
  \/ \E c \in Corridors : PlanFrames(c)
  \/ \E v \in Orders : Execute(v) /\ corridor' = NoCorridor /\ mapping' = "none"
  \/ (Run \/ Overtaken \/ Rest) /\ UNCHANGED commandVars

CorridorSpec == CorridorInit /\ [][CorridorNext]_corridorVars

(* As FairVoyages.                                                         *)
FairCorridors ==
  /\ CorridorSpec
  /\ WF_corridorVars((Ask \/ Fail \/ Collect \/ Review \/ (Step /\ UNCHANGED serviceVars))
                       /\ UNCHANGED commandVars)

-------------------------------------------------------------------------------
(* Properties                                                              *)

(* What is ice in the first frame is so in all of them.                    *)
IceStays ==
  \A valid \in DOMAIN Frames(window), n \in HardMask : Frames(window)[valid][n].hard

(* The mapping and the search agree on the first frame: a voyage that      *)
(* departs with it from a mapped start is not turned away there as hard;   *)
(* and where the goal could not be mapped although the ice of that frame   *)
(* stays, there is no voyage to any cell of its region that is near enough.*)
MappingMatchesSearch ==
  /\ mapping = "mapped" /\ stage = "blocked" =>
       corridor.departure > StartOf(Frames(window))
  /\ mapping = "unmapped" /\ IceStays =>
       LET start == StartOfCorridor(corridor)
       IN  start # Unmapped /\ GoalOfCorridor(corridor) = Unmapped =>
             \A goal \in Candidates(corridor.goal, Grid) :
               CostsToGoal(window,
                           [start |-> start, goal |-> goal, bucket |-> 1,
                            departure |-> corridor.departure,
                            objective |-> "fastest", limit |-> Limit,
                            ceiling |-> EndOf(Frames(window)) - corridor.departure]) = {}

===============================================================================
