----------------------------- MODULE MCRiskSource -----------------------------
(* Two hours of one run; hour 0 also in a later version that was generated *)
(* earlier, in another generation, and there with another corridor under   *)
(* an identifier that is in use.                                           *)
EXTENDS RiskSource

Frame(id, corridor, generation, hour, asof, made) ==
  [id |-> id, context |-> "run", corridor |-> corridor,
   generation |-> generation, hour |-> hour, asof |-> asof, made |-> made]

MCFrames ==
  {Frame(1, "north", 0, 0, 0, 1), Frame(2, "north", 0, 1, 0, 0),
   Frame(3, "north", 0, 0, 1, 0), Frame(4, "north", 1, 0, 0, 0),
   Frame(1, "south", 1, 0, 0, 0)}

Query(start, end, generation, asof) ==
  [start |-> start, end |-> end, context |-> "run", corridor |-> "north",
   generation |-> generation, asof |-> asof]

MCSymmetry == Permutations(Threads)

MCQueries == {Query(0, 1, 0, 0), Query(0, 1, 0, 1), Query(0, 0, 1, 0)}

===============================================================================
