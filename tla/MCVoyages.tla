------------------------------- MODULE MCVoyages -------------------------------
(* The services and the search over the edges of a small grid, in waters    *)
(* that change.  The windows are numbered.  TLC evaluates a definition      *)
(* without parameters once, but what a constant is substituted by each time:*)
(* the tables are definitions of their own, which the substitutes name.     *)
EXTENDS Endpoints

CONSTANTS
  Horizon,   \* the last valid time of the windows
  Waters     \* which windows and voyages: "all", "late" or "strait"

-------------------------------------------------------------------------------

MCValids == {k * FrameGap : k \in 0 .. (Horizon \div FrameGap)}

MCTimes == {2 * k : k \in 0 .. (Horizon \div 2 + 6)}

Lengths ==
  [pair \in Grid \X Grid |->
     LET di == Apart(pair[1][1], pair[2][1])
         dj == Apart(pair[1][2], pair[2][2])
     IN  2 * Max({di, dj}) + Min({di, dj})]

MCLastTime == Horizon + 12

MCLength == Lengths

MCRemaining(a, b) == Lengths[a, b]

MCCutoffs ==
  [layer \in ShorterLayers |->
     CASE layer = "main_corridor" -> 14 [] layer = "rolling" -> 8
       [] layer = "executable" -> 6]

(* default.toml, in hundredths.                                            *)
WeightsOf ==
  [o \in {"fastest", "low_risk", "recommended"} |->
     CASE o = "fastest"     -> [time |-> 100, risk |-> 20, distance |-> 5,
                                turn |-> 5, uncertainty |-> 20]
       [] o = "low_risk"    -> [time |-> 45, risk |-> 250, distance |-> 5,
                                turn |-> 8, uncertainty |-> 80]
       [] o = "recommended" -> [time |-> 85, risk |-> 130, distance |-> 8,
                                turn |-> 10, uncertainty |-> 45]]

MCWeights == WeightsOf

-------------------------------------------------------------------------------
(* Windows: calm water with marks, each a node, the frames it holds in and *)
(* the cell it shows.                                                      *)

Calm == [risk |-> 0, known |-> TRUE, hard |-> FALSE, confidence |-> 2,
         slowness |-> 1]

Ice == [Calm EXCEPT !.hard = TRUE]
Slow == [Calm EXCEPT !.slowness = 2]
Sluggish == [Calm EXCEPT !.slowness = 3]
Stuck == [Calm EXCEPT !.slowness = 4]
Risky == [Calm EXCEPT !.risk = 2]
Doubtful == [Calm EXCEPT !.confidence = 1]
Untrusted == [Calm EXCEPT !.confidence = 0]
Unknown == [Calm EXCEPT !.confidence = 0, !.known = FALSE]

Mark(node, from, until, cell) ==
  [node |-> node, frames |-> from..until, cell |-> cell]

Charted(marks) ==
  [valid \in MCValids |->
     [n \in Grid |->
        LET here == {m \in marks : m.node = n /\ valid \in m.frames}
        IN  IF here = {} THEN Calm ELSE (CHOOSE m \in here : TRUE).cell]]

North == <<0, 1>>
South == <<1, 1>>

(* The north is slower at first than it is later, and closes.              *)
Freezing ==
  {Mark(North, 0, 3, Sluggish), Mark(North, 4, 7, Slow), Mark(North, 8, 11, Ice)}

AllCharts ==
  {Charted({Mark(North, i, i + 4, cells[1]), Mark(South, 4, 8, cells[2])}) :
     i \in {0, 4},
     cells \in {<<Ice, Sluggish>>, <<Slow, Ice>>, <<Risky, Ice>>, <<Untrusted, Doubtful>>}}
  \cup {Charted({Mark(<<0, 2>>, 0, 8, Ice), Mark(North, 8, 16, Unknown),
                 Mark(South, 0, 8, Slow)}),
        Charted(Freezing \cup {Mark(South, 0, 16, Stuck)}),
        Charted({Mark(<<0, 3>>, 0, Horizon, Ice)}),
        Charted({Mark(North, 0, Horizon, Ice), Mark(South, 0, Horizon, Ice)})}

AllVoyages ==
  LET first == [start |-> <<0, 0>>, goal |-> <<0, 3>>, departure |-> 0,
                elapsed |-> 20, bucket |-> 1, layered |-> FALSE]
      later == [first EXCEPT !.start = <<1, 0>>, !.goal = <<1, 3>>,
                             !.departure = 6, !.elapsed = 16]
  IN  {[first EXCEPT !.layered = TRUE],
       [later EXCEPT !.layered = TRUE],
       [first EXCEPT !.start = <<1, 1>>, !.goal = <<0, 1>>, !.departure = 12,
                     !.elapsed = 8, !.layered = TRUE],
       later,
       [first EXCEPT !.start = North, !.goal = <<1, 3>>, !.bucket = 4],
       [first EXCEPT !.bucket = 8, !.elapsed = 14],
       [first EXCEPT !.departure = Horizon + 2],
       [first EXCEPT !.goal = <<2, 2>>],
       [first EXCEPT !.elapsed = SearchLimit + 1]}

(* Corridors from the west to the east, the goal in a region of two cells, *)
(* the requested points on cells.                                          *)
Place(node, region) == [away |-> [n \in Grid |-> Lengths[node, n]], region |-> region]

AllCorridors ==
  LET Corridor(start, goal, departure) ==
        [start |-> Place(start, {<<0, 0>>, <<1, 0>>, North}),
         goal |-> Place(goal, {<<0, 3>>, <<0, 2>>}),
         departure |-> departure, bucket |-> 2]
  IN  {Corridor(<<0, 0>>, <<0, 3>>, 0), Corridor(North, <<1, 2>>, 0),
       Corridor(<<0, 0>>, <<0, 3>>, 12), Corridor(<<0, 0>>, <<0, 3>>, Horizon)}

(* The waters that the violations need.  The last step of a voyage that    *)
(* expects sluggish water and finds it only slow.                          *)
LateCharts == {Charted(Freezing)}

LateVoyages ==
  {[start |-> <<0, 0>>, goal |-> North, departure |-> 0, elapsed |-> 16,
    bucket |-> 4, layered |-> FALSE]}

(* A strait between an early risk and a late closure.                      *)
StraitCharts ==
  {Charted({Mark(North, 0, 7, Risky), Mark(<<1, 2>>, 0, Horizon, Ice),
            Mark(<<0, 3>>, Horizon, Horizon, Ice)})}

StraitVoyages ==
  {[start |-> <<0, 0>>, goal |-> <<0, 3>>, departure |-> 0, elapsed |-> 24,
    bucket |-> FrameGap, layered |-> FALSE]}

-------------------------------------------------------------------------------
(* The parameters of the search.                                            *)

Charts ==
  FoldSet(LAMBDA chart, charts : Append(charts, chart), <<>>,
          CASE Waters = "all"    -> AllCharts
            [] Waters = "late"   -> LateCharts
            [] Waters = "strait" -> StraitCharts)

ChosenVoyages ==
  CASE Waters = "all"    -> AllVoyages
    [] Waters = "late"   -> LateVoyages
    [] Waters = "strait" -> StraitVoyages

MCOrders == ChosenVoyages

MCCorridors == IF Waters = "all" THEN AllCorridors ELSE {}

(* Whatever two cells a corridor is mapped to.                             *)
MappedVoyages ==
  {[start |-> start, goal |-> goal, departure |-> c.departure,
    elapsed |-> Horizon - c.departure, bucket |-> c.bucket, layered |-> FALSE] :
     c \in {d \in MCCorridors : d.departure < Horizon}, start \in Grid, goal \in Grid}

AskedVoyages == ChosenVoyages \cup {v \in MappedVoyages : v.start # v.goal}

MCVoyages == AskedVoyages

MCWindows == DOMAIN Charts

Sailable ==
  {<<w, a, b, t>> \in MCWindows \X Grid \X Grid \X MCTimes : b \in NeighborsOf(a)}

(* With @@, TLC makes a table of a function that it is to keep.            *)
Legs == [e \in Sailable |-> Sail(Charts[e[1]], e[2], e[3], e[4])] @@ <<>>

MCTraverse(w, a, b, t, heading, objective) ==
  Priced(Legs[w, a, b, t], a, b, t, heading, objective)

MCInspect(w, node, time) == Inspection(Charts[w], node, time)

(* All that the layers of the voyages may ask for.                          *)
AllRequests ==
  {[start |-> v.start, goal |-> goal, departure |-> v.departure,
    objective |-> objective, bucket |-> v.bucket, ceiling |-> ceiling,
    limit |-> Limit] :
     v \in {[u EXCEPT !.goal = u.start, !.elapsed = 0] : u \in AskedVoyages},
     goal \in Grid \cup {<<2, 2>>}, objective \in ObjectiveModes,
     ceiling \in 0 .. SearchLimit}

MCRequests == AllRequests

MCFrames(w) == Charts[w]

-------------------------------------------------------------------------------
(* Properties                                                              *)

(* The goal, too, is open water when the route says it is reached:         *)
(* "hard_constraint_violations" of a published route is 0.                 *)
GoalNavigable ==
  answer.outcome = "route" =>
    LET last == answer.route[Len(answer.route)]
    IN  Inspect(window, last.node, last.eta) # "hard"

===============================================================================
