---------------------------- MODULE EdgeEvaluation -----------------------------
(***************************************************************************)
(* TimeDependentAStar._evaluate_edge with the grid, the vessel model and   *)
(* the cost model it uses: whether an edge can be sailed from a given      *)
(* departure, when the vessel arrives and what it costs.                   *)
(*                                                                         *)
(* Travel times are whole: the vessel takes CalmPace per unit of length at *)
(* its economic speed and CalmPace * slowness under way.  The equivalent   *)
(* hours of an edge are brought to one denominator, CostUnit, and counted. *)
(* Headings are the eight directions of the grid, a turn is counted in     *)
(* eighths of a full circle.                                               *)
(***************************************************************************)
EXTENDS RiskSampling

CONSTANTS
  AllowDiagonal,       \* connectivity is 8
  Length,              \* distance_km, as a function of two nodes
  CalmPace,            \* the reciprocal of the economic speed
  FastPace,            \* the reciprocal of maximum_speed_km_per_hour
  MaxSlowness,         \* slower is below the vessel's safe threshold
  MinConfidence,       \* planner_config.minimum_confidence
  RiskCeiling,         \* request.maximum_risk
  TurnCost,            \* full_turn_penalty_hours, per eighth of a circle
  ObjectiveModes, Weights

(* The distance is a metric, and an edge takes at calm a whole time between*)
(* samples.  The economic speed is not above the maximum.                  *)
ASSUME EdgeAssumption ==
  /\ Length \in [Grid \X Grid -> Nat]
  /\ \A a, b, c \in Grid : Length[a, c] <= Length[a, b] + Length[b, c]
  /\ \A a, b \in Grid : /\ Length[a, b] = 0 <=> a = b
                        /\ (CalmPace * Length[a, b]) % SampleParts = 0
  /\ CalmPace \in Nat \ {0} /\ FastPace \in 1..CalmPace
  /\ {MaxSlowness, TurnCost} \subseteq Nat
  /\ Weights \in [ObjectiveModes ->
                    [time : Nat, risk : Nat, distance : Nat, turn : Nat,
                     uncertainty : Nat]]

-------------------------------------------------------------------------------
(* Grid                                                                    *)

Apart(i, j) == IF i < j THEN j - i ELSE i - j

NeighborsOf(a) ==
  {b \in Grid \ {a} :
     /\ Apart(a[1], b[1]) <= 1 /\ Apart(a[2], b[2]) <= 1
     /\ AllowDiagonal \/ a[1] = b[1] \/ a[2] = b[2]}

NoHeading == <<0, 0>>

HeadingOf(a, b) == <<b[1] - a[1], b[2] - a[2]>>

Compass ==
  <<<<1, 0>>, <<1, 1>>, <<0, 1>>, <<-1, 1>>,
    <<-1, 0>>, <<-1, -1>>, <<0, -1>>, <<1, -1>>>>

(* heading_change_degrees(), in eighths of a circle.                       *)
Turn(before, after) ==
  IF before = NoHeading THEN 0
  ELSE LET i == CHOOSE k \in 1..8 : Compass[k] = before
           j == CHOOSE k \in 1..8 : Compass[k] = after
       IN  Min({Apart(i, j), 8 - Apart(i, j)})

-------------------------------------------------------------------------------
(* Speed and samples                                                       *)

(* The travel time that a slowness gives on the edge: effective_speed().   *)
Travel(a, b, slowness) == Length[a, b] * CalmPace * slowness

(* The samples of one refinement, from the departure to the arrival.       *)
Samples(frames, a, b, departure, travel) ==
  [k \in 0..SampleParts |->
     Sample(frames, departure + (travel \div SampleParts) * k,
            EdgePoint(a, b, k))]

SlownessOf(samples) == Max({samples[k].slowness : k \in DOMAIN samples})

ConfidenceOf(samples) == Min({samples[k].confidence : k \in DOMAIN samples})

Forbidden(samples) == \E k \in DOMAIN samples : samples[k].hard

(* What the code says of one refinement: the first sample that fails       *)
(* decides, then the hard mask, the confidence floor and the risk ceiling, *)
(* then the speed.                                                         *)
Verdict(samples) ==
  LET failing == {k \in DOMAIN samples : samples[k].failure # "none"}
  IN  IF failing # {} THEN samples[Min(failing)].failure
      ELSE IF Forbidden(samples) THEN "hard"
      ELSE IF \/ ConfidenceOf(samples) < MinConfidence
              \/ \E k \in DOMAIN samples :
                   samples[k].risk > RiskCeiling * PointScale
        THEN "risk"
      ELSE IF SlownessOf(samples) > MaxSlowness THEN "speed"
      ELSE "ok"

-------------------------------------------------------------------------------
(* Cost                                                                    *)

(* _trapezoidal_average(), times RiskScale.                                *)
RiskScale == 2 * SampleParts * PointScale * MaxRisk

RiskOf(samples) ==
  LET sum[k \in 0..SampleParts] ==
        IF k = 0 THEN samples[0].risk
        ELSE sum[k - 1] + (IF k = SampleParts THEN 1 ELSE 2) * samples[k].risk
  IN  sum[SampleParts]

(* One equivalent hour of travel.                                          *)
CostUnit == RiskScale * MaxConfidence

(* CostModel.evaluate(): weighted sum of the equivalent hours of a leg.     *)
CostOf(objective, length, leg, turn) ==
  LET w == Weights[objective]
  IN  CostUnit * (w.time * leg.travel + w.distance * FastPace * length
                    + w.turn * TurnCost * turn)
        + w.risk * leg.travel * leg.risk * MaxConfidence
        + w.uncertainty * leg.travel * (MaxConfidence - leg.confidence)
            * RiskScale

(* CostModel.lower_bound().                                                *)
BoundOf(objective, length) ==
  CostUnit * (Weights[objective].time + Weights[objective].distance)
    * (FastPace * length)

-------------------------------------------------------------------------------

Rejected(why) == [verdict |-> why, arrival |-> 0, cost |-> 0]

NoLeg(why) == [verdict |-> why, travel |-> 0, risk |-> 0, confidence |-> 0]

(* The refinements: the samples are taken at the calm travel time, then at *)
(* the one they give; the second ones decide the travel time and the risk. *)
Sail(frames, a, b, departure) ==
  LET first   == Samples(frames, a, b, departure, Travel(a, b, 1))
      verdict == Verdict(first)
      second  == Samples(frames, a, b, departure,
                         Travel(a, b, SlownessOf(first)))
      refined == Verdict(second)
  IN  IF verdict # "ok" THEN NoLeg(verdict)
      ELSE IF refined # "ok" THEN NoLeg(refined)
      ELSE [verdict    |-> "ok",
            travel     |-> Travel(a, b, SlownessOf(second)),
            risk       |-> RiskOf(second),
            confidence |-> ConfidenceOf(second)]

(* What the edge is to a vessel that comes with a heading.                 *)
Priced(leg, a, b, departure, heading, objective) ==
  IF leg.verdict # "ok" THEN Rejected(leg.verdict)
  ELSE [verdict |-> "ok", arrival |-> departure + leg.travel,
        cost |-> CostOf(objective, Length[a, b], leg,
                        Turn(heading, HeadingOf(a, b)))]

(* _evaluate_edge().                                                       *)
EvaluateEdge(frames, a, b, departure, heading, objective) ==
  Priced(Sail(frames, a, b, departure), a, b, departure, heading, objective)

(* The sample of the start at the departure.                               *)
Inspection(frames, node, time) ==
  LET sample == Sample(frames, time, PointOf(node))
  IN  IF sample.failure # "none" THEN sample.failure
      ELSE IF sample.hard THEN "hard" ELSE "ok"

===============================================================================
