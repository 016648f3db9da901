----------------------------- MODULE RiskSampling ------------------------------
(***************************************************************************)
(* risk.sampler.RiskSampler: what the search reads of a committed window   *)
(* at a point and a time, and the points of an edge it reads               *)
(* (grid.RegularGrid).                                                     *)
(*                                                                         *)
(* A window gives for each of its valid times a cell for every node.  All  *)
(* numbers are exact: an edge is sampled at SampleParts + 1 points, so     *)
(* that a point is a pair of coordinates in SampleParts-ths of a cell, and *)
(* times are counted finely enough for the samples to fall on whole ones.  *)
(* A sampled risk is counted in PointScale-ths of the unit of the cells.   *)
(* A speed factor is kept as its reciprocal, the slowness.                 *)
(***************************************************************************)
EXTENDS Integers, FiniteSetsExt

CONSTANTS
  Rows, Columns,   \* the shape of the grid
  SampleParts,     \* edge_sample_count - 1
  FrameGap,        \* the time between two frames of a complete window
  MaxFrameGap,     \* max_frame_gap
  MaxRisk,         \* risk_score = 1
  MaxConfidence    \* confidence = 1

Grid == (0 .. Rows - 1) \X (0 .. Columns - 1)

(* The cell of a node in one frame.  A risk that is not known is NaN in the*)
(* frame, which has to be hard or without confidence there.                *)
Cell == [risk : 0..MaxRisk, known : BOOLEAN, hard : BOOLEAN,
         confidence : 0..MaxConfidence, slowness : Nat \ {0}]

ASSUME SamplingAssumption ==
  /\ {Rows, Columns, SampleParts, FrameGap} \subseteq Nat \ {0}
  /\ {MaxFrameGap, MaxRisk, MaxConfidence} \subseteq Nat

PointScale == SampleParts * SampleParts * FrameGap

-------------------------------------------------------------------------------
(* Space                                                                   *)

PointOf(node) == <<SampleParts * node[1], SampleParts * node[2]>>

(* edge_sample_points(): the k-th of the points from a to b.               *)
EdgePoint(a, b, k) ==
  [i \in 1..2 |-> (SampleParts - k) * a[i] + k * b[i]]

(* _axis_weights(): the lines of the grid on both sides of a coordinate,   *)
(* one line for a coordinate that is on it.                                *)
Below(x) == x \div SampleParts

Above(x) == (x + SampleParts - 1) \div SampleParts

Contributors(point) ==
  {Below(point[1]), Above(point[1])} \X {Below(point[2]), Above(point[2])}

(* Their weighted mean, times SampleParts squared.                         *)
Blend(point, of) ==
  LET i == point[1] % SampleParts
      j == point[2] % SampleParts
      Along(row) == (SampleParts - j) * of[<<row, Below(point[2])>>]
                      + j * of[<<row, Above(point[2])>>]
  IN  (SampleParts - i) * Along(Below(point[1])) + i * Along(Above(point[1]))

(* _sample_frame(): confidence and speed take the worst cell, the hard     *)
(* mask any, and the risk is their weighted mean.                          *)
HardInFrame(frame, point) ==
  \E node \in Contributors(point) : frame[node].hard

(* "unknown risk at a navigable point cannot be treated as safe": raises.  *)
UnknownInFrame(frame, point) ==
  /\ \E node \in Contributors(point) : ~frame[node].known
  /\ ~HardInFrame(frame, point)

RiskInFrame(frame, point) ==
  IF \E node \in Contributors(point) : ~frame[node].known
    THEN SampleParts * SampleParts * MaxRisk
    ELSE Blend(point, [node \in Contributors(point) |-> frame[node].risk])

-------------------------------------------------------------------------------
(* Time                                                                    *)

StartOf(frames) == Min(DOMAIN frames)

EndOf(frames) == Max(DOMAIN frames)

(* _bracket(): no extrapolation.                                           *)
Covers(frames, time) == StartOf(frames) <= time /\ time <= EndOf(frames)

Lower(frames, time) == Max({valid \in DOMAIN frames : valid <= time})

Upper(frames, time) == Min({valid \in DOMAIN frames : valid >= time})

(* The frames a sample is made of.                                         *)
Bracket(frames, time) == {Lower(frames, time), Upper(frames, time)}

TooWide(frames, time) ==
  Upper(frames, time) - Lower(frames, time) > MaxFrameGap

(* How a sample fails, if it does, in the order the sampler notices.       *)
Failure(frames, time, point) ==
  IF ~Covers(frames, time) THEN "uncovered"
  ELSE IF UnknownInFrame(frames[Lower(frames, time)], point) THEN "unknown"
  ELSE IF TooWide(frames, time) THEN "uncovered"
  ELSE IF UnknownInFrame(frames[Upper(frames, time)], point) THEN "unknown"
  ELSE "none"

(* The sampled risk: linear between the two frames.                        *)
RiskAt(frames, time, point) ==
  LET lower == Lower(frames, time)
      upper == Upper(frames, time)
  IN  IF lower = upper
        THEN FrameGap * RiskInFrame(frames[lower], point)
        ELSE (upper - time) * RiskInFrame(frames[lower], point)
               + (time - lower) * RiskInFrame(frames[upper], point)

(* sample(): the error it raises, or what it returns.                      *)
Sample(frames, time, point) ==
  LET failure == Failure(frames, time, point)
      cells   == {frames[valid][node] : valid \in Bracket(frames, time),
                                        node \in Contributors(point)}
  IN  IF failure # "none" THEN [failure |-> failure]
      ELSE [failure |-> "none",
            risk |-> RiskAt(frames, time, point),
            hard |-> \E cell \in cells : cell.hard,
            confidence |-> Min({cell.confidence : cell \in cells}),
            slowness |-> Max({cell.slowness : cell \in cells})]

===============================================================================
