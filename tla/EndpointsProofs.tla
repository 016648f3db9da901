----------------------------- MODULE EndpointsProofs ----------------------------
(***************************************************************************)
(* Theorems about what the search is given of the grid and of the frames,  *)
(* and about the mapping of a corridor to two of its cells.                *)
(*                                                                         *)
(* The edges.  For any grid whose distances are a metric, any frames and   *)
(* any weights, an edge costs no less than it lowers                       *)
(* CostModel.lower_bound(), it leaves and enters open water, and the       *)
(* objective only prices it.                                               *)
(*                                                                         *)
(* The endpoints.  The waves of ConnectedComponent end after as many as    *)
(* there are cells: what they reached is closed under open neighbours.  An *)
(* edge that stays under the ice of the first frame ends in open cells, so *)
(* that a voyage never leaves the component it departs from.               *)
(*                                                                         *)
(* The command line.  With it in front of them the services do nothing new,*)
(* so that all that is proved of them and of the search holds; and over a  *)
(* grid an execution runs out of things to do.                             *)
(***************************************************************************)
EXTENDS Endpoints, VoyagesProofs, FiniteSetTheorems

(* The headings of a vessel on the grid.                                   *)
Bearings == {NoHeading} \cup {Compass[k] : k \in 1..8}

-------------------------------------------------------------------------------
(* Extremes                                                                *)

(* A sequence of numbers has a greatest and a least.                       *)
LEMMA GreatestOf ==
  ASSUME NEW n \in Nat \ {0}, NEW f \in [1 .. n -> Int]
  PROVE  \E i \in 1 .. n : \A j \in 1 .. n : f[j] <= f[i]
<1> DEFINE Top(k) == \E i \in 1 .. k : \A j \in 1 .. k : f[j] <= f[i]
           T == {k \in Nat : k \in 1 .. n => Top(k)}
<1>1. 0 \in T
  OBVIOUS
<1>2. ASSUME NEW k \in Nat, k \in T, k + 1 \in 1 .. n PROVE Top(k + 1)
  <2>1. CASE k = 0
    <3>1. \A j \in 1 .. k + 1 : j = 1
      BY <2>1
    <3>2. 1 \in 1 .. k + 1 /\ f[1] \in Int /\ f[1] <= f[1]
      BY <2>1
    <3>3. \A j \in 1 .. k + 1 : f[j] <= f[1]
      BY <3>1, <3>2
    <3> QED  BY <3>2, <3>3, Zenon
  <2>2. CASE k # 0
    <3>1. Top(k)
      BY <1>2, <2>2
    <3>2. PICK g \in 1 .. k : \A j \in 1 .. k : f[j] <= f[g]
      BY <3>1
    <3>3. \A j \in 1 .. k + 1 : f[j] \in Int /\ (j \in 1 .. k \/ j = k + 1)
      BY <1>2
    <3>4. CASE f[k + 1] <= f[g]
      <4>1. \A j \in 1 .. k + 1 : f[j] <= f[g]
        BY <3>2, <3>3, <3>4
      <4>2. g \in 1 .. k + 1
        OBVIOUS
      <4> QED  BY <4>1, <4>2, Zenon
    <3>5. CASE ~(f[k + 1] <= f[g])
      <4>1. \A j \in 1 .. k + 1 : f[j] <= f[k + 1]
        BY <3>2, <3>3, <3>5
      <4> QED  BY <4>1
    <3> QED  BY <3>4, <3>5
  <2> QED  BY <2>1, <2>2
<1>3. \A k \in Nat : k \in T => k + 1 \in T
  BY <1>2
<1>4. Nat \subseteq T
  <2> HIDE DEF T
  <2> QED  BY <1>1, <1>3, EveryNatural
<1>5. n \in T
  BY <1>4
<1> QED  BY <1>5

LEMMA LeastOf ==
  ASSUME NEW n \in Nat \ {0}, NEW f \in [1 .. n -> Int]
  PROVE  \E i \in 1 .. n : \A j \in 1 .. n : f[i] <= f[j]
<1> DEFINE g == [i \in 1 .. n |-> 0 - f[i]]
<1>1. g \in [1 .. n -> Int]
  OBVIOUS
<1>2. PICK i \in 1 .. n : \A j \in 1 .. n : g[j] <= g[i]
  <2> HIDE DEF g
  <2> QED  BY <1>1, GreatestOf
<1>3. \A j \in 1 .. n : f[j] \in Int /\ f[i] \in Int /\ 0 - f[j] <= 0 - f[i]
  BY <1>2
<1>4. \A j \in 1 .. n : f[i] <= f[j]
  BY <1>3
<1> QED  BY <1>4

(* What a function makes of a finite set is finite.                        *)
LEMMA ImageIsFinite ==
  ASSUME NEW S, IsFiniteSet(S), NEW f, DOMAIN f = S, f = [x \in S |-> f[x]]
  PROVE  IsFiniteSet({f[x] : x \in S})
<1> DEFINE T == {f[x] : x \in S}
<1>1. f \in [S -> T]
  OBVIOUS
<1>2. f \in Surjection(S, T)
  BY <1>1 DEF Surjection
<1> HIDE DEF T
<1>3. IsFiniteSet(T)
  BY <1>2, FS_Surjection
<1> QED  BY <1>3 DEF T

(* So has a finite set.                                                    *)
LEMMA Extremes ==
  ASSUME NEW S \in SUBSET Int, S # {}, IsFiniteSet(S)
  PROVE  /\ Max(S) \in S /\ \A x \in S : x <= Max(S)
         /\ Min(S) \in S /\ \A x \in S : Min(S) <= x
<1>0. PICK n \in Nat : ExistsSurjection(1 .. n, S)
  BY FS_NatSurjection
<1>1. PICK f \in [1 .. n -> S] : \A x \in S : \E i \in 1 .. n : f[i] = x
  BY <1>0 DEF ExistsSurjection, Surjection
<1>2. n # 0
  <2>1. 1 .. 0 = {}
    OBVIOUS
  <2> QED  BY <1>1, <2>1
<1>3. f \in [1 .. n -> Int]
  OBVIOUS
<1>4. PICK g \in 1 .. n : \A j \in 1 .. n : f[j] <= f[g]
  BY <1>2, <1>3, GreatestOf
<1>5. PICK l \in 1 .. n : \A j \in 1 .. n : f[l] <= f[j]
  BY <1>2, <1>3, LeastOf
<1>6. f[g] \in S /\ \A x \in S : f[g] >= x
  BY <1>1, <1>4
<1>7. f[l] \in S /\ \A x \in S : f[l] <= x
  BY <1>1, <1>5
<1>8. Max(S) \in S /\ \A x \in S : Max(S) >= x
  BY <1>6 DEF Max
<1>9. Min(S) \in S /\ \A x \in S : Min(S) <= x
  BY <1>7 DEF Min
<1> QED  BY <1>8, <1>9

-------------------------------------------------------------------------------
(* Points and frames                                                       *)

(* A point of an edge lies among cells of the grid.                        *)
LEMMA LinesAround ==
  ASSUME NEW p \in Nat \ {0}, NEW k \in 0 .. p, NEW m \in Nat,
         NEW x \in Int, NEW y \in Int, x \in 0 .. m, y \in 0 .. m,
         Apart(x, y) <= 1
  PROVE  LET z == (p - k) * x + k * y
         IN  /\ z \in Nat /\ z \div p \in 0 .. m /\ z % p \in 0 .. p - 1
             /\ (z + p - 1) \div p \in 0 .. m
<1> DEFINE z == (p - k) * x + k * y
<1>1. z = p * x + k * (y - x)
  OBVIOUS
<1>2. y - x \in {-1, 0, 1}
  BY DEF Apart
<1>3. z \in Nat /\ 0 <= z /\ z <= p * m
  <2>1. z \in Int
    OBVIOUS
  <2>2. CASE y = x
    <3>1. z = p * x
      BY <1>1, <2>2
    <3>2. 0 <= p * x /\ p * x <= p * m
      OBVIOUS
    <3> HIDE DEF z
    <3> QED  BY <2>1, <3>1, <3>2
  <2>3. CASE y = x + 1
    <3>1. z = p * x + k
      BY <1>1, <2>3
    <3>2. 0 <= p * x /\ p * (x + 1) <= p * m /\ p * (x + 1) = p * x + p
      BY <2>3
    <3> HIDE DEF z
    <3> QED  BY <2>1, <3>1, <3>2
  <2>4. CASE y = x - 1
    <3>1. z = p * x - k
      BY <1>1, <2>4
    <3>2. 0 <= p * y /\ p * x <= p * m /\ p * x = p * y + p
      BY <2>4
    <3> HIDE DEF z
    <3> QED  BY <2>1, <3>1, <3>2
  <2> HIDE DEF z
  <2> QED  BY <1>2, <2>2, <2>3, <2>4
<1> HIDE DEF z
<1>4. /\ z \div p \in Int /\ z % p \in 0 .. p - 1 /\ z = p * (z \div p) + (z % p)
      /\ (z + p - 1) \div p \in Int
      /\ z + p - 1 = p * ((z + p - 1) \div p) + ((z + p - 1) % p)
      /\ (z + p - 1) % p \in 0 .. p - 1
  BY <1>3
<1>5. \A q \in Int : p * q <= p * m => q <= m
  OBVIOUS
<1>6. \A q \in Int : 0 < p * (q + 1) => 0 <= q
  OBVIOUS
<1>7. p * (z \div p) <= p * m /\ 0 < p * (z \div p + 1)
  <2>1. p * (z \div p + 1) = p * (z \div p) + p
    BY <1>4
  <2> QED  BY <1>3, <1>4, <2>1
<1>8. /\ p * ((z + p - 1) \div p) < p * (m + 1)
      /\ 0 < p * ((z + p - 1) \div p + 1)
  <2>1. /\ p * ((z + p - 1) \div p + 1) = p * ((z + p - 1) \div p) + p
        /\ p * (m + 1) = p * m + p
    BY <1>4
  <2> QED  BY <1>3, <1>4, <2>1
<1>9. \A q \in Int : p * q < p * (m + 1) => q <= m
  OBVIOUS
<1>10. z \div p \in 0 .. m
  BY <1>4, <1>5, <1>6, <1>7
<1>11. (z + p - 1) \div p \in 0 .. m
  BY <1>4, <1>6, <1>8, <1>9
<1> QED  BY <1>3, <1>4, <1>10, <1>11 DEF z

(* The cells that contribute to a sample of an edge, and of a node.        *)
LEMMA PointsInGrid ==
  ASSUME NEW a \in Grid, NEW b \in NeighborsOf(a), NEW k \in 0 .. SampleParts
  PROVE  LET point == EdgePoint(a, b, k)
         IN  /\ Contributors(point) \in SUBSET Grid
             /\ point[1] % SampleParts \in 0 .. SampleParts - 1
             /\ point[2] % SampleParts \in 0 .. SampleParts - 1
<1> DEFINE point == EdgePoint(a, b, k)
<1>1. SampleParts \in Nat \ {0} /\ Rows \in Nat \ {0} /\ Columns \in Nat \ {0}
  BY SamplingAssumption
<1>2. /\ a[1] \in 0 .. Rows - 1 /\ a[2] \in 0 .. Columns - 1
      /\ b[1] \in 0 .. Rows - 1 /\ b[2] \in 0 .. Columns - 1
  BY DEF NeighborsOf, Grid
<1>3. Apart(a[1], b[1]) <= 1 /\ Apart(a[2], b[2]) <= 1
  BY DEF NeighborsOf
<1>4. /\ point[1] = (SampleParts - k) * a[1] + k * b[1]
      /\ point[2] = (SampleParts - k) * a[2] + k * b[2]
  BY DEF EdgePoint
<1>5. /\ Below(point[1]) \in 0 .. Rows - 1 /\ Above(point[1]) \in 0 .. Rows - 1
      /\ point[1] % SampleParts \in 0 .. SampleParts - 1
  <2>1. Rows - 1 \in Nat /\ a[1] \in Int /\ b[1] \in Int
    BY <1>1, <1>2
  <2> HIDE DEF point
  <2> QED  BY <1>1, <1>2, <1>3, <1>4, <2>1, LinesAround DEF Below, Above
<1>6. /\ Below(point[2]) \in 0 .. Columns - 1 /\ Above(point[2]) \in 0 .. Columns - 1
      /\ point[2] % SampleParts \in 0 .. SampleParts - 1
  <2>1. Columns - 1 \in Nat /\ a[2] \in Int /\ b[2] \in Int
    BY <1>1, <1>2
  <2> HIDE DEF point
  <2> QED  BY <1>1, <1>2, <1>3, <1>4, <2>1, LinesAround DEF Below, Above
<1> HIDE DEF point
<1>7. Contributors(point) \in SUBSET Grid
  BY <1>5, <1>6 DEF Contributors, Grid
<1> QED  BY <1>5, <1>6, <1>7 DEF point

(* The frames around a time.                                               *)
LEMMA FramesAround ==
  ASSUME NEW frames, IsChart(frames), NEW time \in Int, Covers(frames, time)
  PROVE  /\ Lower(frames, time) \in DOMAIN frames /\ Lower(frames, time) <= time
         /\ Upper(frames, time) \in DOMAIN frames /\ time <= Upper(frames, time)
<1> DEFINE before == {valid \in DOMAIN frames : valid <= time}
           after  == {valid \in DOMAIN frames : valid >= time}
<1>1. DOMAIN frames \in SUBSET Nat /\ IsFiniteSet(DOMAIN frames) /\ DOMAIN frames # {}
  BY DEF IsChart
<1>2. DOMAIN frames \in SUBSET Int
  BY <1>1
<1>3. StartOf(frames) \in DOMAIN frames /\ EndOf(frames) \in DOMAIN frames
  BY <1>1, <1>2, Extremes DEF StartOf, EndOf
<1>4. StartOf(frames) \in before /\ EndOf(frames) \in after
  BY <1>2, <1>3 DEF Covers
<1>5. before \in SUBSET DOMAIN frames /\ after \in SUBSET DOMAIN frames
  OBVIOUS
<1>6. IsFiniteSet(before) /\ IsFiniteSet(after)
  BY <1>1, <1>5, FS_Subset
<1>7. before \in SUBSET Int /\ after \in SUBSET Int
  BY <1>2, <1>5
<1>8. Lower(frames, time) = Max(before) /\ Upper(frames, time) = Min(after)
  BY DEF Lower, Upper
<1>9. Max(before) \in before /\ Min(after) \in after
  <2> HIDE DEF before, after
  <2> QED  BY <1>4, <1>6, <1>7, Extremes
<1> QED  BY <1>8, <1>9

(* sample(): what it returns, where it does not raise.                     *)
LEMMA SampleIs ==
  ASSUME NEW frames, IsChart(frames), NEW a \in Grid, NEW b \in NeighborsOf(a),
         NEW k \in 0 .. SampleParts, NEW time \in Int
  PROVE  LET point  == EdgePoint(a, b, k)
             sample == Sample(frames, time, point)
         IN  /\ sample.failure = Failure(frames, time, point)
             /\ sample.failure \in {"none", "uncovered", "unknown"}
             /\ sample.failure = "none" =>
                  /\ Covers(frames, time)
                  /\ sample.risk = RiskAt(frames, time, point)
                  /\ sample.hard \in BOOLEAN
                  /\ sample.confidence \in 0 .. MaxConfidence
                  /\ sample.slowness \in Nat \ {0}
<1> DEFINE point  == EdgePoint(a, b, k)
           failure == Failure(frames, time, point)
           near   == Contributors(point)
           valids == Bracket(frames, time)
           cells  == {frames[valid][node] : valid \in valids, node \in near}
<1>1. failure \in {"none", "uncovered", "unknown"}
  BY DEF Failure
<1>2. ASSUME failure # "none"
      PROVE  Sample(frames, time, point) = [failure |-> failure]
  BY <1>2 DEF Sample
<1>3. ASSUME failure = "none"
      PROVE  /\ Covers(frames, time)
             /\ Sample(frames, time, point) =
                  [failure |-> "none", risk |-> RiskAt(frames, time, point),
                   hard |-> \E cell \in cells : cell.hard,
                   confidence |-> Min({cell.confidence : cell \in cells}),
                   slowness |-> Max({cell.slowness : cell \in cells})]
  BY <1>3 DEF Sample, Failure
<1>4. ASSUME failure = "none"
      PROVE  /\ cells \in SUBSET Cell /\ IsFiniteSet(cells) /\ cells # {}
  <2>1. near \in SUBSET Grid
    BY PointsInGrid
  <2>2. valids \in SUBSET DOMAIN frames
    BY <1>3, <1>4, FramesAround DEF Bracket
  <2>3. frames \in [DOMAIN frames -> [Grid -> Cell]]
    BY DEF IsChart
  <2>4. cells \in SUBSET Cell
    <3> HIDE DEF near, valids
    <3> QED  BY <2>1, <2>2, <2>3
  <2>5. PICK l, u : valids = {l, u}
    BY DEF Bracket
  <2>6. PICK i, j, m, n : near = {i, j} \X {m, n}
    BY DEF Contributors
  <2>7. cells = {frames[l][<<i, m>>], frames[l][<<i, n>>], frames[l][<<j, m>>],
                 frames[l][<<j, n>>], frames[u][<<i, m>>], frames[u][<<i, n>>],
                 frames[u][<<j, m>>], frames[u][<<j, n>>]}
    <3> HIDE DEF near, valids
    <3> QED  BY <2>5, <2>6
  <2>8. IsFiniteSet(cells)
    <3> HIDE DEF cells
    <3>1. \A S, x : IsFiniteSet(S) => IsFiniteSet(S \cup {x})
      BY FS_AddElement
    <3>2. cells = ((((((({} \cup {frames[l][<<i, m>>]}) \cup {frames[l][<<i, n>>]})
                   \cup {frames[l][<<j, m>>]}) \cup {frames[l][<<j, n>>]})
                   \cup {frames[u][<<i, m>>]}) \cup {frames[u][<<i, n>>]})
                   \cup {frames[u][<<j, m>>]}) \cup {frames[u][<<j, n>>]}
      BY <2>7
    <3> QED  BY <3>1, <3>2, FS_EmptySet
  <2>9. cells # {}
    <3> HIDE DEF cells
    <3> QED  BY <2>7
  <2> HIDE DEF cells
  <2> QED  BY <2>4, <2>8, <2>9
<1> HIDE DEF cells, near, valids, failure, point
<1>5. ASSUME failure = "none"
      PROVE  /\ Min({cell.confidence : cell \in cells}) \in 0 .. MaxConfidence
             /\ Max({cell.slowness : cell \in cells}) \in Nat \ {0}
  <2> DEFINE trusts == {cell.confidence : cell \in cells}
             paces  == {cell.slowness : cell \in cells}
  <2>1. IsFiniteSet(trusts) /\ IsFiniteSet(paces)
    <3> DEFINE trust == [cell \in cells |-> cell.confidence]
               pace  == [cell \in cells |-> cell.slowness]
    <3>1. trusts = {trust[cell] : cell \in cells} /\ paces = {pace[cell] : cell \in cells}
      OBVIOUS
    <3>2. /\ DOMAIN trust = cells /\ trust = [cell \in cells |-> trust[cell]]
          /\ DOMAIN pace = cells /\ pace = [cell \in cells |-> pace[cell]]
      OBVIOUS
    <3>3. IsFiniteSet(cells)
      BY <1>4, <1>5
    <3> HIDE DEF trust, pace, trusts, paces
    <3> QED  BY <3>1, <3>2, <3>3, ImageIsFinite
  <2>2. trusts \in SUBSET (0 .. MaxConfidence) /\ paces \in SUBSET (Nat \ {0})
    BY <1>4, <1>5 DEF Cell
  <2>3. trusts # {} /\ paces # {}
    BY <1>4, <1>5
  <2>4. trusts \in SUBSET Int /\ paces \in SUBSET Int
    BY <2>2
  <2> HIDE DEF trusts, paces
  <2>5. Min(trusts) \in trusts /\ Max(paces) \in paces
    BY <2>1, <2>3, <2>4, Extremes
  <2>6. Min(trusts) \in 0 .. MaxConfidence /\ Max(paces) \in Nat \ {0}
    BY <2>2, <2>5
  <2> QED  BY <2>6 DEF trusts, paces
<1> DEFINE sample == Sample(frames, time, point)
<1>6. sample.failure = failure
  BY <1>2, <1>3
<1>7. ASSUME failure = "none"
      PROVE  /\ Covers(frames, time)
             /\ sample.risk = RiskAt(frames, time, point)
             /\ sample.hard \in BOOLEAN
             /\ sample.confidence \in 0 .. MaxConfidence
             /\ sample.slowness \in Nat \ {0}
  <2> DEFINE hard  == \E cell \in cells : cell.hard
             least == Min({cell.confidence : cell \in cells})
             most  == Max({cell.slowness : cell \in cells})
             risk  == RiskAt(frames, time, point)
  <2>1. /\ Covers(frames, time)
        /\ sample = [failure |-> "none", risk |-> risk, hard |-> hard,
                     confidence |-> least, slowness |-> most]
    BY <1>3, <1>7
  <2>2. hard \in BOOLEAN
    OBVIOUS
  <2>3. least \in 0 .. MaxConfidence /\ most \in Nat \ {0}
    BY <1>5, <1>7
  <2> HIDE DEF sample, hard, least, most
  <2> QED  BY <2>1, <2>2, <2>3
<1> HIDE DEF sample
<1>8. /\ sample.failure = Failure(frames, time, point)
      /\ sample.failure \in {"none", "uncovered", "unknown"}
  BY <1>1, <1>6 DEF failure
<1> QED  BY <1>6, <1>7, <1>8 DEF sample, point

(* A risk is not negative.                                                 *)
LEMMA RiskIsNat ==
  ASSUME NEW frames, IsChart(frames), NEW a \in Grid, NEW b \in NeighborsOf(a),
         NEW k \in 0 .. SampleParts, NEW time \in Int, Covers(frames, time)
  PROVE  RiskAt(frames, time, EdgePoint(a, b, k)) \in Nat
<1> DEFINE point == EdgePoint(a, b, k)
           near  == Contributors(point)
<1>1. \A x, y \in Nat : x * y \in Nat /\ x + y \in Nat
  OBVIOUS
<1>2. SampleParts \in Nat \ {0} /\ MaxRisk \in Nat /\ FrameGap \in Nat
  BY SamplingAssumption
<1>3. ASSUME NEW valid \in DOMAIN frames
      PROVE  RiskInFrame(frames[valid], point) \in Nat
  <2>1. near \in SUBSET Grid
    BY PointsInGrid
  <2>2. frames[valid] \in [Grid -> Cell]
    BY DEF IsChart
  <2> DEFINE of == [node \in near |-> frames[valid][node].risk]
             i  == point[1] % SampleParts
             j  == point[2] % SampleParts
  <2>3. of \in [near -> Nat]
    <3>1. \A node \in near : frames[valid][node] \in Cell
      BY <2>1, <2>2
    <3>2. \A cell \in Cell : cell.risk \in Nat
      BY SamplingAssumption DEF Cell
    <3> QED  BY <3>1, <3>2
  <2>4. /\ i \in 0 .. SampleParts - 1 /\ j \in 0 .. SampleParts - 1
    BY PointsInGrid
  <2>5. i \in Nat /\ j \in Nat /\ SampleParts - i \in Nat /\ SampleParts - j \in Nat
    <3> HIDE DEF i, j
    <3> QED  BY <1>2, <2>4
  <2>6. /\ of[<<Below(point[1]), Below(point[2])>>] \in Nat
        /\ of[<<Below(point[1]), Above(point[2])>>] \in Nat
        /\ of[<<Above(point[1]), Below(point[2])>>] \in Nat
        /\ of[<<Above(point[1]), Above(point[2])>>] \in Nat
    <3> HIDE DEF of, point
    <3> QED  BY <2>3 DEF Contributors
  <2> DEFINE Along(row) == (SampleParts - j) * of[<<row, Below(point[2])>>]
                             + j * of[<<row, Above(point[2])>>]
  <2>7. Blend(point, of) = (SampleParts - i) * Along(Below(point[1]))
                             + i * Along(Above(point[1]))
    BY DEF Blend
  <2>8. Along(Below(point[1])) \in Nat /\ Along(Above(point[1])) \in Nat
    <3> HIDE DEF of, point, i, j
    <3> QED  BY <1>1, <2>5, <2>6
  <2>9. Blend(point, of) \in Nat
    <3> HIDE DEF Along, i, j, of, point
    <3> QED  BY <1>1, <2>5, <2>7, <2>8
  <2>10. SampleParts * SampleParts * MaxRisk \in Nat
    BY <1>1, <1>2
  <2> QED  BY <2>9, <2>10 DEF RiskInFrame
<1> HIDE DEF point
<1>4. /\ Lower(frames, time) \in DOMAIN frames /\ Lower(frames, time) <= time
      /\ Upper(frames, time) \in DOMAIN frames /\ time <= Upper(frames, time)
  BY FramesAround
<1>5. Upper(frames, time) - time \in Nat /\ time - Lower(frames, time) \in Nat
  <2>1. DOMAIN frames \subseteq Nat
    BY DEF IsChart
  <2> QED  BY <1>4, <2>1
<1>6. RiskAt(frames, time, point) \in Nat
  BY <1>1, <1>2, <1>3, <1>4, <1>5 DEF RiskAt
<1> QED  BY <1>6 DEF point

-------------------------------------------------------------------------------
(* Refinements                                                             *)

(* The samples of a refinement that lets the edge pass.                    *)
LEMMA PassedIs ==
  ASSUME NEW frames, IsChart(frames), NEW a \in Grid, NEW b \in NeighborsOf(a),
         NEW departure \in Nat, NEW travel \in Nat,
         Verdict(Samples(frames, a, b, departure, travel)) = "ok"
  PROVE  LET samples == Samples(frames, a, b, departure, travel)
         IN  /\ DOMAIN samples = 0 .. SampleParts
             /\ \A k \in 0 .. SampleParts :
                  /\ samples[k].failure = "none" /\ ~samples[k].hard
                  /\ samples[k].risk \in Nat
             /\ SlownessOf(samples) \in 1 .. MaxSlowness
             /\ ConfidenceOf(samples) \in 0 .. MaxConfidence
             /\ Covers(frames, departure)
<1> DEFINE samples == Samples(frames, a, b, departure, travel)
           at(k)   == departure + (travel \div SampleParts) * k
<1>1. SampleParts \in Nat \ {0} /\ travel \div SampleParts \in Nat
  BY SamplingAssumption
<1>2. /\ DOMAIN samples = 0 .. SampleParts
      /\ \A k \in 0 .. SampleParts :
           samples[k] = Sample(frames, at(k), EdgePoint(a, b, k))
  BY DEF Samples
<1>3. \A k \in 0 .. SampleParts : at(k) \in Nat
  <2>1. \A x, y \in Nat : x * y \in Nat
    OBVIOUS
  <2> QED  BY <1>1, <2>1
<1> HIDE DEF samples, at
<1>4. ASSUME NEW k \in 0 .. SampleParts
      PROVE  /\ samples[k].failure \in {"none", "uncovered", "unknown"}
             /\ samples[k].failure = "none" =>
                  /\ Covers(frames, at(k))
                  /\ samples[k].risk = RiskAt(frames, at(k), EdgePoint(a, b, k))
                  /\ samples[k].confidence \in 0 .. MaxConfidence
                  /\ samples[k].slowness \in Nat \ {0}
  BY <1>2, <1>3, SampleIs
<1> DEFINE failing == {k \in DOMAIN samples : samples[k].failure # "none"}
<1>5. Verdict(samples) = "ok"
  BY DEF samples
<1>6. failing = {}
  <2> SUFFICES ASSUME failing # {} PROVE FALSE
    OBVIOUS
  <2>1. failing \in SUBSET (0 .. SampleParts)
    BY <1>2
  <2>2. IsFiniteSet(failing) /\ failing \in SUBSET Int
    <3>1. IsFiniteSet(0 .. SampleParts)
      BY <1>1, FS_Interval
    <3>2. 0 .. SampleParts \in SUBSET Int
      OBVIOUS
    <3> HIDE DEF failing
    <3> QED  BY <2>1, <3>1, <3>2, FS_Subset
  <2>3. Min(failing) \in failing
    <3> HIDE DEF failing
    <3> QED  BY <2>2, Extremes
  <2>4. Verdict(samples) = samples[Min(failing)].failure
    BY DEF Verdict
  <2>5. Min(failing) \in 0 .. SampleParts
    BY <2>1, <2>3
  <2> HIDE DEF failing
  <2> QED  BY <1>4, <1>5, <2>4, <2>5
<1>7. \A k \in 0 .. SampleParts : samples[k].failure = "none"
  BY <1>2, <1>6
<1>8. ~Forbidden(samples) /\ ~(SlownessOf(samples) > MaxSlowness)
  BY <1>5, <1>6 DEF Verdict
<1>9. \A k \in 0 .. SampleParts : samples[k].risk \in Nat
  BY <1>3, <1>4, <1>7, RiskIsNat
<1>10. /\ SlownessOf(samples) \in Nat \ {0}
       /\ ConfidenceOf(samples) \in 0 .. MaxConfidence
  <2> DEFINE slowness   == [k \in 0 .. SampleParts |-> samples[k].slowness]
             confidence == [k \in 0 .. SampleParts |-> samples[k].confidence]
             paces      == {slowness[k] : k \in 0 .. SampleParts}
             trusts     == {confidence[k] : k \in 0 .. SampleParts}
  <2>1. IsFiniteSet(0 .. SampleParts)
    BY <1>1, FS_Interval
  <2>2. /\ DOMAIN slowness = 0 .. SampleParts
        /\ slowness = [k \in 0 .. SampleParts |-> slowness[k]]
        /\ DOMAIN confidence = 0 .. SampleParts
        /\ confidence = [k \in 0 .. SampleParts |-> confidence[k]]
    OBVIOUS
  <2>3. IsFiniteSet(paces) /\ IsFiniteSet(trusts)
    <3> HIDE DEF slowness, confidence
    <3> QED  BY <2>1, <2>2, ImageIsFinite
  <2>4. paces \in SUBSET (Nat \ {0}) /\ trusts \in SUBSET (0 .. MaxConfidence)
    BY <1>4, <1>7
  <2>5. 0 \in 0 .. SampleParts
    BY <1>1
  <2>6. paces # {} /\ trusts # {}
    BY <2>5
  <2>7. SlownessOf(samples) = Max(paces) /\ ConfidenceOf(samples) = Min(trusts)
    <3>1. /\ {samples[k].slowness : k \in DOMAIN samples} = paces
          /\ {samples[k].confidence : k \in DOMAIN samples} = trusts
      BY <1>2
    <3> HIDE DEF paces, trusts
    <3> QED  BY <3>1 DEF SlownessOf, ConfidenceOf
  <2>8. paces \in SUBSET Int /\ trusts \in SUBSET Int
    BY <2>4
  <2> HIDE DEF paces, trusts
  <2>9. Max(paces) \in paces /\ Min(trusts) \in trusts
    BY <2>3, <2>6, <2>8, Extremes
  <2> QED  BY <2>4, <2>7, <2>9
<1>11. Covers(frames, departure)
  <2>1. at(0) = departure
    BY <1>1 DEF at
  <2>2. 0 \in 0 .. SampleParts
    BY <1>1
  <2> QED  BY <1>4, <1>7, <2>1, <2>2
<1>12. \A k \in 0 .. SampleParts : ~samples[k].hard
  BY <1>2, <1>8 DEF Forbidden
<1>13. SlownessOf(samples) \in 1 .. MaxSlowness
  <2>1. MaxSlowness \in Nat
    BY EdgeAssumption
  <2> QED  BY <1>8, <1>10, <2>1
<1> QED  BY <1>2, <1>7, <1>9, <1>10, <1>11, <1>12, <1>13 DEF samples

(* The average risk of an edge is a natural number in its unit.            *)
LEMMA AverageIsNat ==
  ASSUME NEW samples, \A k \in 0 .. SampleParts : samples[k].risk \in Nat
  PROVE  RiskOf(samples) \in Nat
<1>1. SampleParts \in Nat \ {0} /\ 0 \in 0 .. SampleParts
  BY SamplingAssumption
<1> DEFINE weight(k) == IF k = SampleParts THEN 1 ELSE 2
           Adding == [e \in (1 .. SampleParts) \X Nat |->
                        e[2] + weight(e[1]) * samples[e[1]].risk]
           Sum(g) == g = [k \in 0 .. SampleParts |->
                            IF k = 0 THEN samples[0].risk
                            ELSE g[k - 1] + weight(k) * samples[k].risk]
<1>2. Adding \in [(1 .. SampleParts) \X Nat -> Nat]
  <2>1. \A x, y \in Nat : x * y \in Nat /\ x + y \in Nat
    OBVIOUS
  <2>2. \A k \in 1 .. SampleParts : weight(k) \in Nat /\ samples[k].risk \in Nat
    OBVIOUS
  <2>3. \A k \in 1 .. SampleParts, n \in Nat : n + weight(k) * samples[k].risk \in Nat
    <3> HIDE DEF weight
    <3> QED  BY <2>1, <2>2
  <2> HIDE DEF weight
  <2> QED  BY <2>3
<1>3. PICK g : Steps(g, SampleParts, Nat, samples[0].risk, Adding)
  <2>1. samples[0].risk \in Nat
    BY <1>1
  <2> HIDE DEF Adding
  <2> QED  BY <1>1, <1>2, <2>1, StepsExist
<1>4. /\ g \in [0 .. SampleParts -> Nat] /\ g[0] = samples[0].risk
      /\ \A k \in 1 .. SampleParts : g[k] = Adding[<<k, g[k - 1]>>]
  BY <1>3 DEF Steps
<1>5. ASSUME NEW k \in 1 .. SampleParts
      PROVE  g[k] = g[k - 1] + weight(k) * samples[k].risk
  <2>1. k - 1 \in 0 .. SampleParts /\ g[k - 1] \in Nat
    <3>1. k - 1 \in 0 .. SampleParts
      BY <1>1
    <3> HIDE DEF weight, Adding
    <3> QED  BY <1>4, <3>1
  <2>2. Adding[<<k, g[k - 1]>>] = g[k - 1] + weight(k) * samples[k].risk
    BY <2>1
  <2> QED  BY <1>4, <2>2
<1>6. Sum(g)
  <2>1. \A k \in 0 .. SampleParts : k # 0 => k \in 1 .. SampleParts
    OBVIOUS
  <2> HIDE DEF weight, Adding
  <2> QED  BY <1>4, <1>5, <2>1
<1> HIDE DEF Adding
<1> DEFINE sum == CHOOSE f : Sum(f)
<1>7. Sum(sum)
  <2> HIDE DEF Sum
  <2> QED  BY <1>6
<1>8. RiskOf(samples) = sum[SampleParts]
  BY DEF RiskOf
<1> HIDE DEF sum
<1> DEFINE T == {k \in Nat : k \in 0 .. SampleParts => sum[k] \in Nat}
<1>9. 0 \in T
  BY <1>1, <1>7
<1>10. ASSUME NEW k \in Nat, k \in T PROVE k + 1 \in T
  <2> SUFFICES ASSUME k + 1 \in 0 .. SampleParts PROVE sum[k + 1] \in Nat
    OBVIOUS
  <2>1. sum[k] \in Nat
    <3>1. k \in 0 .. SampleParts
      BY <1>1
    <3>2. k \in 0 .. SampleParts => sum[k] \in Nat
      BY <1>10
    <3> QED  BY <3>1, <3>2
  <2>2. sum[k + 1] = sum[k] + weight(k + 1) * samples[k + 1].risk
    <3>1. k + 1 # 0 /\ (k + 1) - 1 = k
      OBVIOUS
    <3> HIDE DEF weight
    <3> QED  BY <1>7, <3>1
  <2>3. weight(k + 1) \in {1, 2} /\ samples[k + 1].risk \in Nat
    OBVIOUS
  <2> HIDE DEF weight
  <2> QED  BY <2>1, <2>2, <2>3
<1>11. Nat \subseteq T
  <2> HIDE DEF T
  <2> QED  BY <1>9, <1>10, EveryNatural
<1> QED  BY <1>1, <1>8, <1>11

(* A turn is at most half a circle.                                        *)
LEMMA TurnIsNat ==
  ASSUME NEW heading \in Bearings, NEW a \in Grid, NEW b \in NeighborsOf(a)
  PROVE  Turn(heading, HeadingOf(a, b)) \in 0 .. 4
<1>1. \E k \in 1 .. 8 : Compass[k] = HeadingOf(a, b)
  <2> DEFINE i == b[1] - a[1]
             j == b[2] - a[2]
  <2>1. i \in {-1, 0, 1} /\ j \in {-1, 0, 1} /\ ~(i = 0 /\ j = 0)
    <3>1. a[1] \in Int /\ a[2] \in Int /\ b[1] \in Int /\ b[2] \in Int
      BY SamplingAssumption DEF NeighborsOf, Grid
    <3>2. Apart(a[1], b[1]) <= 1 /\ Apart(a[2], b[2]) <= 1 /\ a # b
      BY DEF NeighborsOf
    <3>3. a = <<a[1], a[2]>> /\ b = <<b[1], b[2]>>
      BY DEF NeighborsOf, Grid
    <3> QED  BY <3>1, <3>2, <3>3 DEF Apart
  <2> HIDE DEF i, j
  <2>2. \E k \in 1 .. 8 : Compass[k] = <<i, j>>
    <3>1. /\ Compass[1] = <<1, 0>> /\ Compass[2] = <<1, 1>> /\ Compass[3] = <<0, 1>>
          /\ Compass[4] = <<-1, 1>> /\ Compass[5] = <<-1, 0>>
          /\ Compass[6] = <<-1, -1>> /\ Compass[7] = <<0, -1>>
          /\ Compass[8] = <<1, -1>>
      BY DEF Compass
    <3> QED  BY <2>1, <3>1
  <2> QED  BY <2>2 DEF HeadingOf, i, j
<1>2. CASE heading = NoHeading
  BY <1>2 DEF Turn
<1>3. CASE heading # NoHeading
  <2>1. \E k \in 1 .. 8 : Compass[k] = heading
    BY <1>3 DEF Bearings
  <2> DEFINE i == CHOOSE k \in 1 .. 8 : Compass[k] = heading
             j == CHOOSE k \in 1 .. 8 : Compass[k] = HeadingOf(a, b)
             S == {Apart(i, j), 8 - Apart(i, j)}
  <2>2. i \in 1 .. 8 /\ j \in 1 .. 8
    BY <1>1, <2>1
  <2>3. Turn(heading, HeadingOf(a, b)) = Min(S)
    BY <1>3 DEF Turn
  <2> HIDE DEF i, j
  <2>4. S \in SUBSET (0 .. 8) /\ Apart(i, j) \in 0 .. 7
    BY <2>2 DEF Apart
  <2>5. Min(S) \in S /\ \A x \in S : Min(S) <= x
    <3>1. IsFiniteSet({Apart(i, j)} \cup {8 - Apart(i, j)})
      <4>1. \A x, y : IsFiniteSet({x} \cup {y})
        BY FS_Singleton, FS_AddElement
      <4> QED  BY <4>1
    <3>2. S = {Apart(i, j)} \cup {8 - Apart(i, j)}
      OBVIOUS
    <3>3. S \in SUBSET Int /\ S # {}
      BY <2>4
    <3> HIDE DEF S
    <3> QED  BY <3>1, <3>2, <3>3, Extremes
  <2>6. Min(S) \in 0 .. 8 /\ Min(S) <= Apart(i, j) /\ Min(S) <= 8 - Apart(i, j)
    BY <2>4, <2>5
  <2> QED  BY <2>3, <2>4, <2>6
<1> QED  BY <1>2, <1>3

-------------------------------------------------------------------------------
(* Edges                                                                   *)

(* The leg of an edge that can be sailed, and the water it leaves.         *)
LEMMA LegIs ==
  ASSUME NEW frames, IsChart(frames), NEW a \in Grid, NEW b \in NeighborsOf(a),
         NEW departure \in Nat, Sail(frames, a, b, departure).verdict = "ok"
  PROVE  LET leg == Sail(frames, a, b, departure)
         IN  /\ \E slowness \in 1 .. MaxSlowness : leg.travel = Travel(a, b, slowness)
             /\ leg.risk \in Nat /\ leg.confidence \in 0 .. MaxConfidence
             /\ Covers(frames, departure)
             /\ Inspection(frames, a, departure) = "ok"
<1> DEFINE first  == Samples(frames, a, b, departure, Travel(a, b, 1))
           second == Samples(frames, a, b, departure, Travel(a, b, SlownessOf(first)))
<1>1. b \in Grid /\ Length[a, b] \in Nat /\ CalmPace \in Nat
  BY EdgeAssumption DEF NeighborsOf
<1>2. \A n \in Nat : Travel(a, b, n) \in Nat
  <2>1. \A x, y \in Nat : x * y \in Nat
    OBVIOUS
  <2> QED  BY <1>1, <2>1 DEF Travel
<1>3. /\ Verdict(first) = "ok" /\ Verdict(second) = "ok"
      /\ Sail(frames, a, b, departure) =
           [verdict |-> "ok", travel |-> Travel(a, b, SlownessOf(second)),
            risk |-> RiskOf(second), confidence |-> ConfidenceOf(second)]
  BY DEF Sail, NoLeg
<1>4. /\ DOMAIN first = 0 .. SampleParts
      /\ \A k \in 0 .. SampleParts : first[k].failure = "none" /\ ~first[k].hard
      /\ SlownessOf(first) \in 1 .. MaxSlowness
      /\ Covers(frames, departure)
  <2>1. Travel(a, b, 1) \in Nat
    BY <1>2
  <2> HIDE DEF second
  <2> QED  BY <1>3, <2>1, PassedIs
<1>5. /\ \A k \in 0 .. SampleParts : second[k].risk \in Nat
      /\ SlownessOf(second) \in 1 .. MaxSlowness
      /\ ConfidenceOf(second) \in 0 .. MaxConfidence
  <2>1. SlownessOf(first) \in Nat
    BY <1>4
  <2>2. Travel(a, b, SlownessOf(first)) \in Nat
    BY <1>2, <2>1
  <2> HIDE DEF first
  <2> QED  BY <1>3, <2>2, PassedIs
<1>6. RiskOf(second) \in Nat
  <2> HIDE DEF second
  <2> QED  BY <1>5, AverageIsNat
<1>7. Inspection(frames, a, departure) = "ok"
  <2>1. 0 \in 0 .. SampleParts /\ SampleParts \in Nat
    BY SamplingAssumption
  <2>2. EdgePoint(a, b, 0) = PointOf(a)
    <3> HIDE DEF first, second
    <3>1. a[1] \in Int /\ a[2] \in Int /\ b[1] \in Int /\ b[2] \in Int
      BY SamplingAssumption DEF NeighborsOf, Grid
    <3>2. /\ (SampleParts - 0) * a[1] + 0 * b[1] = SampleParts * a[1]
          /\ (SampleParts - 0) * a[2] + 0 * b[2] = SampleParts * a[2]
      BY <2>1, <3>1
    <3>3. EdgePoint(a, b, 0) = <<(SampleParts - 0) * a[1] + 0 * b[1],
                                 (SampleParts - 0) * a[2] + 0 * b[2]>>
      BY DEF EdgePoint
    <3> QED  BY <3>2, <3>3 DEF PointOf
  <2>3. departure + (Travel(a, b, 1) \div SampleParts) * 0 = departure
    <3>1. Travel(a, b, 1) \div SampleParts \in Int
      BY <1>2, SamplingAssumption
    <3> QED  BY <3>1
  <2>4. first[0] = Sample(frames, departure, PointOf(a))
    BY <2>1, <2>2, <2>3 DEF Samples
  <2> HIDE DEF first
  <2> QED  BY <1>4, <2>1, <2>4 DEF Inspection
<1> HIDE DEF second, first
<1> QED  BY <1>3, <1>4, <1>5, <1>6, <1>7

(* The bound of an edge's end and what its distance costs at full speed.   *)
LEMMA BoundSplits ==
  ASSUME NEW u \in Nat, NEW f \in Nat, NEW near \in Nat, NEW far \in Nat,
         NEW step \in Nat, far <= step + near
  PROVE  u * (f * far) <= u * (f * step) + u * (f * near)
<1>1. \A x, y, z \in Nat : y <= z => x * y <= x * z
  OBVIOUS
<1>2. f * far <= f * (step + near)
  BY <1>1
<1>3. f * far \in Nat /\ f * (step + near) \in Nat
  <2>1. \A x, y \in Nat : x * y \in Nat
    OBVIOUS
  <2> QED  BY <2>1
<1>4. u * (f * far) <= u * (f * (step + near))
  BY <1>1, <1>2, <1>3
<1>5. u * (f * (step + near)) = u * (f * step) + u * (f * near)
  OBVIOUS
<1> QED  BY <1>4, <1>5

(* _evaluate_edge(), CostModel.evaluate() and .lower_bound(): an edge that *)
(* can be sailed takes time, no more than its slowest water allows, and    *)
(* costs no less than it lowers the bound of any goal, whatever the ice,   *)
(* the weights and the heading it is entered with.                         *)
THEOREM EdgesKeepTheBound ==
  ASSUME NEW frames, IsChart(frames), NEW a \in Grid, NEW b \in NeighborsOf(a),
         NEW departure \in Nat, NEW heading \in Bearings,
         NEW objective \in ObjectiveModes,
         EvaluateEdge(frames, a, b, departure, heading, objective).verdict = "ok"
  PROVE  LET edge == EvaluateEdge(frames, a, b, departure, heading, objective)
         IN  /\ edge.arrival \in Nat /\ edge.arrival > departure
             /\ edge.arrival <= EndOf(frames) + Travel(a, b, MaxSlowness)
             /\ edge.cost \in Nat
             /\ \A goal \in Grid :
                  BoundOf(objective, Length[a, goal])
                    <= edge.cost + BoundOf(objective, Length[b, goal])
<1> DEFINE leg  == Sail(frames, a, b, departure)
           edge == EvaluateEdge(frames, a, b, departure, heading, objective)
           turn == Turn(heading, HeadingOf(a, b))
           w    == Weights[objective]
           length == Length[a, b]
<1>1. /\ leg.verdict = "ok"
      /\ edge = [verdict |-> "ok", arrival |-> departure + leg.travel,
                 cost |-> CostOf(objective, length, leg, turn)]
  BY DEF EvaluateEdge, Priced, Rejected
<1>2. PICK slowness \in 1 .. MaxSlowness : leg.travel = Travel(a, b, slowness)
  BY <1>1, LegIs
<1>3. /\ leg.risk \in Nat /\ leg.confidence \in 0 .. MaxConfidence
      /\ Covers(frames, departure)
  BY <1>1, LegIs
<1>4. /\ b \in Grid /\ a # b /\ length \in Nat \ {0}
      /\ CalmPace \in Nat \ {0} /\ FastPace \in 1 .. CalmPace
      /\ {MaxSlowness, TurnCost} \subseteq Nat
      /\ w \in [time : Nat, risk : Nat, distance : Nat, turn : Nat, uncertainty : Nat]
  BY EdgeAssumption DEF NeighborsOf
<1>5. turn \in Nat
  BY TurnIsNat
<1>6. /\ w.time \in Nat /\ w.risk \in Nat /\ w.distance \in Nat
      /\ w.turn \in Nat /\ w.uncertainty \in Nat
  BY <1>4
<1>7. \A x, y \in Nat : x * y \in Nat /\ x + y \in Nat
  OBVIOUS
<1>8. \A x, y, z \in Nat : y <= z => x * y <= x * z
  OBVIOUS
<1>9. RiskScale \in Nat /\ CostUnit \in Nat /\ MaxConfidence \in Nat
  <2>1. {SampleParts, FrameGap, MaxRisk, MaxConfidence} \subseteq Nat
    BY SamplingAssumption
  <2>2. PointScale \in Nat
    BY <1>7, <2>1 DEF PointScale
  <2>3. 2 * SampleParts \in Nat
    BY <1>7, <2>1
  <2>4. RiskScale \in Nat
    BY <1>7, <2>1, <2>2, <2>3 DEF RiskScale
  <2> QED  BY <1>7, <2>1, <2>4 DEF CostUnit
<1>10. /\ leg.travel \in Nat /\ FastPace * length <= leg.travel /\ leg.travel > 0
       /\ leg.travel <= Travel(a, b, MaxSlowness)
  <2> HIDE DEF leg, length
  <2>1. leg.travel = (length * CalmPace) * slowness
        /\ Travel(a, b, MaxSlowness) = (length * CalmPace) * MaxSlowness
    BY <1>2 DEF Travel, length
  <2>2. length * CalmPace \in Nat \ {0}
    BY <1>4
  <2>3. slowness \in Nat /\ 1 <= slowness /\ slowness <= MaxSlowness /\ MaxSlowness \in Nat
    BY <1>4
  <2>4. (length * CalmPace) * 1 <= (length * CalmPace) * slowness
    BY <1>8, <2>2, <2>3
  <2>5. (length * CalmPace) * slowness <= (length * CalmPace) * MaxSlowness
    BY <1>8, <2>2, <2>3
  <2>6. length * FastPace <= length * CalmPace /\ FastPace * length = length * FastPace
    <3>1. FastPace \in Nat /\ FastPace <= CalmPace
      BY <1>4
    <3> QED  BY <1>4, <1>8, <3>1
  <2>7. /\ (length * CalmPace) * slowness \in Nat /\ FastPace * length \in Nat
        /\ (length * CalmPace) * MaxSlowness \in Nat
    <3>1. FastPace \in Nat
      BY <1>4
    <3> QED  BY <1>4, <1>7, <2>2, <2>3, <3>1
  <2>8. (length * CalmPace) * 1 = length * CalmPace
    BY <2>2
  <2> DEFINE pace == length * CalmPace
             most == pace * MaxSlowness
             real == pace * slowness
             fast == FastPace * length
             other == length * FastPace
  <2>9. /\ pace \in Nat \ {0} /\ pace <= real /\ real <= most
        /\ other <= pace /\ fast = other /\ fast \in Nat /\ real \in Nat /\ most \in Nat
    BY <2>2, <2>4, <2>5, <2>6, <2>7, <2>8
  <2>10. leg.travel = real /\ Travel(a, b, MaxSlowness) = most
    BY <2>1
  <2> HIDE DEF pace, most, real, fast, other
  <2>11. leg.travel \in Nat /\ fast <= leg.travel /\ leg.travel > 0
         /\ leg.travel <= Travel(a, b, MaxSlowness)
    BY <2>9, <2>10
  <2> QED  BY <2>11 DEF fast
<1>11. departure <= EndOf(frames) /\ EndOf(frames) \in Nat
  <2>1. /\ DOMAIN frames \subseteq Nat /\ DOMAIN frames \in SUBSET Int
        /\ IsFiniteSet(DOMAIN frames) /\ DOMAIN frames # {}
    BY DEF IsChart
  <2>2. EndOf(frames) \in DOMAIN frames
    BY <2>1, Extremes DEF EndOf
  <2> QED  BY <1>3, <2>1, <2>2 DEF Covers
<1>12. /\ edge.arrival \in Nat /\ edge.arrival > departure
       /\ edge.arrival <= EndOf(frames) + Travel(a, b, MaxSlowness)
  <2> HIDE DEF edge, leg, turn, w
  <2>1. edge.arrival = departure + leg.travel
    BY <1>1
  <2>2. Travel(a, b, MaxSlowness) \in Nat
    <3>1. length \in Nat /\ CalmPace \in Nat /\ MaxSlowness \in Nat
      BY <1>4
    <3>2. length * CalmPace * MaxSlowness \in Nat
      <4> HIDE DEF length
      <4> QED  BY <1>7, <3>1
    <3> QED  BY <3>2 DEF Travel
  <2> DEFINE travel == leg.travel
             most   == Travel(a, b, MaxSlowness)
  <2>3. travel \in Nat /\ travel > 0 /\ travel <= most /\ most \in Nat
    BY <1>10, <2>2
  <2>4. edge.arrival = departure + travel
    BY <2>1
  <2> HIDE DEF travel, most
  <2>5. /\ edge.arrival \in Nat /\ edge.arrival > departure
        /\ edge.arrival <= EndOf(frames) + most
    BY <1>11, <2>3, <2>4
  <2> QED  BY <2>5 DEF most
<1> HIDE DEF edge, leg, turn, w, length
<1> DEFINE sailed  == w.time * leg.travel
           gone    == w.distance * FastPace * length
           turned  == w.turn * TurnCost * turn
           exposed == w.risk * leg.travel * leg.risk * MaxConfidence
           unsure  == w.uncertainty * leg.travel * (MaxConfidence - leg.confidence)
                        * RiskScale
<1>13. edge.cost = CostUnit * (sailed + gone + turned) + exposed + unsure
  BY <1>1 DEF edge, CostOf, w
<1>14. /\ sailed \in Nat /\ gone \in Nat /\ turned \in Nat
       /\ exposed \in Nat /\ unsure \in Nat
  <2>1. FastPace \in Nat /\ length \in Nat /\ TurnCost \in Nat
    BY <1>4
  <2>2. MaxConfidence - leg.confidence \in Nat
    BY <1>3, <1>9
  <2>3. sailed \in Nat
    BY <1>6, <1>7, <1>10
  <2>4. gone \in Nat
    BY <1>6, <1>7, <2>1
  <2>5. turned \in Nat
    BY <1>5, <1>6, <1>7, <2>1
  <2>6. exposed \in Nat
    BY <1>3, <1>6, <1>7, <1>9, <1>10
  <2>7. unsure \in Nat
    <3>1. w.uncertainty * leg.travel \in Nat
      BY <1>6, <1>7, <1>10
    <3> DEFINE doubt == MaxConfidence - leg.confidence
    <3>2. doubt \in Nat
      BY <2>2
    <3> HIDE DEF doubt
    <3>3. w.uncertainty * leg.travel * doubt * RiskScale \in Nat
      BY <1>7, <1>9, <3>1, <3>2
    <3> QED  BY <3>3 DEF doubt
  <2> QED  BY <2>3, <2>4, <2>5, <2>6, <2>7
<1> DEFINE full == CostUnit * (w.time + w.distance) * (FastPace * length)
<1>15. full \in Nat /\ full <= edge.cost
  <2>1. FastPace * length \in Nat
    BY <1>4, <1>7
  <2>2. w.time * (FastPace * length) <= sailed
    BY <1>6, <1>8, <1>10, <2>1
  <2>3. w.distance * (FastPace * length) = gone
    BY <1>4, <1>6
  <2>4. (w.time + w.distance) * (FastPace * length)
          = w.time * (FastPace * length) + w.distance * (FastPace * length)
    <3> DEFINE fast == FastPace * length
    <3>1. fast \in Nat
      BY <2>1
    <3> HIDE DEF fast
    <3>2. (w.time + w.distance) * fast = w.time * fast + w.distance * fast
      BY <1>6, <3>1
    <3> QED  BY <3>2 DEF fast
  <2>5. w.time * (FastPace * length) \in Nat
    BY <1>6, <1>7, <2>1
  <2>6. (w.time + w.distance) * (FastPace * length) <= sailed + gone + turned
    <3> DEFINE slow == w.time * (FastPace * length)
               far  == w.distance * (FastPace * length)
               both == (w.time + w.distance) * (FastPace * length)
    <3>1. slow \in Nat /\ slow <= sailed /\ far = gone /\ both = slow + far
      BY <2>2, <2>3, <2>4, <2>5
    <3> HIDE DEF slow, far, both, sailed, gone, turned
    <3>2. both <= sailed + gone + turned
      BY <1>14, <3>1
    <3> QED  BY <3>2 DEF both
  <2> DEFINE both == (w.time + w.distance) * (FastPace * length)
             all  == sailed + gone + turned
  <2>7. both \in Nat /\ all \in Nat /\ both <= all
    <3>1. w.time + w.distance \in Nat
      BY <1>6
    <3>2. both \in Nat
      BY <1>7, <2>1, <3>1
    <3>3. all \in Nat
      <4> HIDE DEF sailed, gone, turned
      <4> QED  BY <1>14
    <3>4. both <= all
      BY <2>6
    <3> QED  BY <3>2, <3>3, <3>4
  <2>8. edge.cost = CostUnit * all + exposed + unsure
    BY <1>13
  <2>9. full = CostUnit * both
    <3> DEFINE fast == FastPace * length
               weight == w.time + w.distance
    <3>1. fast \in Nat /\ weight \in Nat
      BY <1>6, <2>1
    <3> HIDE DEF fast, weight
    <3>2. CostUnit * weight * fast = CostUnit * (weight * fast)
      BY <1>9, <3>1
    <3> QED  BY <3>2 DEF fast, weight
  <2> HIDE DEF full, both, all, exposed, unsure
  <2>10. CostUnit * both <= CostUnit * all /\ CostUnit * both \in Nat /\ CostUnit * all \in Nat
    BY <1>7, <1>8, <1>9, <2>7
  <2> QED  BY <1>14, <2>8, <2>9, <2>10
<1>16. edge.cost \in Nat
  <2> HIDE DEF sailed, gone, turned, exposed, unsure
  <2>1. CostUnit * (sailed + gone + turned) \in Nat
    <3>1. sailed + gone + turned \in Nat
      BY <1>14
    <3> QED  BY <1>7, <1>9, <3>1
  <2> QED  BY <1>13, <1>14, <2>1
<1>17. ASSUME NEW goal \in Grid
       PROVE  BoundOf(objective, Length[a, goal])
                <= edge.cost + BoundOf(objective, Length[b, goal])
  <2> DEFINE u == CostUnit * (w.time + w.distance)
  <2>1. /\ Length[a, goal] \in Nat /\ Length[b, goal] \in Nat
        /\ Length[a, goal] <= length + Length[b, goal]
    BY <1>4, EdgeAssumption DEF length
  <2>2. u \in Nat /\ FastPace \in Nat /\ length \in Nat
    <3>1. w.time + w.distance \in Nat
      BY <1>6
    <3> QED  BY <1>4, <1>7, <1>9, <3>1
  <2>3. /\ BoundOf(objective, Length[a, goal]) = u * (FastPace * Length[a, goal])
        /\ BoundOf(objective, Length[b, goal]) = u * (FastPace * Length[b, goal])
        /\ full = u * (FastPace * length)
    BY DEF BoundOf, w
  <2> HIDE DEF u, full
  <2>4. u * (FastPace * Length[a, goal])
          <= u * (FastPace * length) + u * (FastPace * Length[b, goal])
    BY <2>1, <2>2, BoundSplits
  <2>5. u * (FastPace * Length[a, goal]) \in Nat /\ u * (FastPace * Length[b, goal]) \in Nat
    BY <1>7, <2>1, <2>2
  <2> DEFINE near == u * (FastPace * Length[b, goal])
             far  == u * (FastPace * Length[a, goal])
  <2>6. near \in Nat /\ far \in Nat /\ far <= full + near
    BY <2>3, <2>4, <2>5
  <2>7. /\ BoundOf(objective, Length[a, goal]) = far
        /\ BoundOf(objective, Length[b, goal]) = near
    BY <2>3
  <2> HIDE DEF near, far
  <2>8. far <= edge.cost + near
    BY <1>15, <1>16, <2>6
  <2> QED  BY <2>7, <2>8
<1> QED  BY <1>12, <1>16, <1>17 DEF edge

(* An edge that can be sailed leaves open water: its first sample is what  *)
(* an inspection of its start finds at its departure.                      *)
THEOREM EdgesLeaveOpenWater ==
  ASSUME NEW frames, IsChart(frames), NEW a \in Grid, NEW b \in NeighborsOf(a),
         NEW departure \in Nat, NEW heading, NEW objective,
         EvaluateEdge(frames, a, b, departure, heading, objective).verdict = "ok"
  PROVE  Inspection(frames, a, departure) = "ok"
<1>1. Sail(frames, a, b, departure).verdict = "ok"
  BY DEF EvaluateEdge, Priced, Rejected
<1> QED  BY <1>1, LegIs

(* _evaluate_edge(): the objective prices an edge, it opens none and       *)
(* makes none faster.                                                      *)
THEOREM ObjectivesOnlyPrice ==
  ASSUME NEW frames, NEW a, NEW b, NEW departure, NEW heading,
         NEW o, NEW other,
         EvaluateEdge(frames, a, b, departure, heading, o).verdict = "ok"
  PROVE  LET edge == EvaluateEdge(frames, a, b, departure, heading, o)
             same == EvaluateEdge(frames, a, b, departure, heading, other)
         IN  same.verdict = "ok" /\ same.arrival = edge.arrival
<1>1. Sail(frames, a, b, departure).verdict = "ok"
  BY DEF EvaluateEdge, Priced, Rejected
<1> QED  BY <1>1 DEF EvaluateEdge, Priced

-------------------------------------------------------------------------------
(* The ends of an edge                                                     *)

(* A coordinate that is on a line of the grid is between no two lines.     *)
LEMMA OnLine ==
  ASSUME NEW p \in Nat \ {0}, NEW x \in Nat
  PROVE  /\ p * x \in Nat /\ (p * x) \div p = x
         /\ (p * x + p - 1) \div p = x
<1> DEFINE z == p * x
           q == z \div p
           r == z % p
           s == (z + p - 1) \div p
           u == (z + p - 1) % p
<1>1. z \in Nat /\ z = p * x
  OBVIOUS
<1> HIDE DEF z
<1>2. /\ q \in Int /\ r \in 0 .. p - 1 /\ z = p * q + r
      /\ s \in Int /\ u \in 0 .. p - 1 /\ z + p - 1 = p * s + u
  BY <1>1
<1> HIDE DEF q, r, s, u
<1>3. \A d \in Int : p * d \in 0 .. p - 1 => d = 0
  OBVIOUS
<1>4. p * (x - q) = p * x - p * q /\ p * (s - x) = p * s - p * x
  BY <1>2
<1>5. x - q = 0
  <2>1. x - q \in Int /\ p * (x - q) \in 0 .. p - 1
    BY <1>1, <1>2, <1>4
  <2> QED  BY <1>3, <2>1
<1>6. s - x = 0
  <2>1. s - x \in Int /\ p * (s - x) \in 0 .. p - 1
    BY <1>1, <1>2, <1>4
  <2> QED  BY <1>3, <2>1
<1> QED  BY <1>1, <1>2, <1>5, <1>6 DEF z, q, s

(* A sample at a node is of its cell alone.                                *)
LEMMA NodeIsAlone ==
  ASSUME NEW a \in Grid
  PROVE  Contributors(PointOf(a)) = {a}
<1>1. SampleParts \in Nat \ {0} /\ a[1] \in Nat /\ a[2] \in Nat /\ a = <<a[1], a[2]>>
  BY SamplingAssumption DEF Grid
<1>2. /\ PointOf(a)[1] = SampleParts * a[1] /\ PointOf(a)[2] = SampleParts * a[2]
  BY DEF PointOf
<1>3. /\ Below(PointOf(a)[1]) = a[1] /\ Above(PointOf(a)[1]) = a[1]
      /\ Below(PointOf(a)[2]) = a[2] /\ Above(PointOf(a)[2]) = a[2]
  BY <1>1, <1>2, OnLine DEF Below, Above
<1>4. Contributors(PointOf(a)) = {a[1]} \X {a[2]}
  BY <1>3 DEF Contributors
<1> QED  BY <1>1, <1>4

(* It is hard where the cell is, in a frame around the time.               *)
LEMMA HardAtNode ==
  ASSUME NEW frames, NEW a \in Grid, NEW time \in Int
  PROVE  LET sample == Sample(frames, time, PointOf(a))
         IN  /\ sample.failure \in {"none", "uncovered", "unknown"}
             /\ sample.failure = "none" =>
                  /\ Covers(frames, time)
                  /\ sample.hard <=> \E valid \in Bracket(frames, time) :
                                       frames[valid][a].hard
<1> DEFINE point   == PointOf(a)
           failure == Failure(frames, time, point)
           sample  == Sample(frames, time, point)
           cells   == {frames[valid][node] : valid \in Bracket(frames, time),
                                             node \in Contributors(point)}
<1>1. failure \in {"none", "uncovered", "unknown"} /\ (failure = "none" => Covers(frames, time))
  BY DEF Failure
<1>2. cells = {frames[valid][a] : valid \in Bracket(frames, time)}
  <2>1. Contributors(point) = {a}
    BY NodeIsAlone
  <2> HIDE DEF point
  <2> QED  BY <2>1
<1>3. /\ sample.failure = failure
      /\ failure = "none" => sample.hard = (\E cell \in cells : cell.hard)
  <2> HIDE DEF failure, cells, point
  <2>1. sample = IF failure # "none" THEN [failure |-> failure]
                 ELSE [failure |-> "none",
                       risk |-> RiskAt(frames, time, point),
                       hard |-> \E cell \in cells : cell.hard,
                       confidence |-> Min({cell.confidence : cell \in cells}),
                       slowness |-> Max({cell.slowness : cell \in cells})]
    BY DEF Sample, failure, cells
  <2> HIDE DEF sample
  <2> QED  BY <2>1
<1> HIDE DEF failure, cells, sample
<1>4. (\E cell \in cells : cell.hard)
        <=> \E valid \in Bracket(frames, time) : frames[valid][a].hard
  BY <1>2
<1> QED  BY <1>1, <1>3, <1>4 DEF sample

(* The start of a window is in its first frame alone.                      *)
LEMMA FirstOfWindow ==
  ASSUME NEW frames, IsChart(frames)
  PROVE  /\ StartOf(frames) \in DOMAIN frames /\ StartOf(frames) \in Nat
         /\ EndOf(frames) \in Nat
         /\ Bracket(frames, StartOf(frames)) = {StartOf(frames)}
<1> DEFINE D == DOMAIN frames
           start == StartOf(frames)
<1>1. D \in SUBSET Nat /\ IsFiniteSet(D) /\ D # {} /\ D \in SUBSET Int
  BY DEF IsChart
<1>2. start \in D /\ (\A x \in D : start <= x) /\ EndOf(frames) \in D
  <2> HIDE DEF D
  <2>1. Min(D) \in D /\ (\A x \in D : Min(D) <= x) /\ Max(D) \in D
    BY <1>1, Extremes
  <2> QED  BY <2>1 DEF StartOf, EndOf, D
<1> HIDE DEF start
<1>3. {valid \in D : valid >= start} = D
  BY <1>1, <1>2
<1>4. Upper(frames, start) = start
  BY <1>3 DEF Upper, StartOf, start
<1>5. {valid \in D : valid <= start} = {start}
  BY <1>1, <1>2
<1>6. Max({start}) = start
  <2>1. {start} \in SUBSET Int /\ {start} # {} /\ IsFiniteSet({start})
    BY <1>1, <1>2, FS_Singleton
  <2>2. Max({start}) \in {start}
    BY <2>1, Extremes
  <2> QED  BY <2>2
<1>7. Lower(frames, start) = start
  BY <1>5, <1>6 DEF Lower
<1> QED  BY <1>1, <1>2, <1>4, <1>7 DEF Bracket, start

(* The first sample of an edge is where it begins, the last where it ends. *)
LEMMA EndsOfEdge ==
  ASSUME NEW a \in Grid, NEW b \in NeighborsOf(a)
  PROVE  EdgePoint(a, b, SampleParts) = PointOf(b)
<1>1. /\ SampleParts \in Nat /\ a[1] \in Int /\ a[2] \in Int /\ b[1] \in Int /\ b[2] \in Int
  BY SamplingAssumption DEF NeighborsOf, Grid
<1>2. /\ (SampleParts - SampleParts) * a[1] + SampleParts * b[1] = SampleParts * b[1]
      /\ (SampleParts - SampleParts) * a[2] + SampleParts * b[2] = SampleParts * b[2]
  BY <1>1
<1>3. EdgePoint(a, b, SampleParts) =
        <<(SampleParts - SampleParts) * a[1] + SampleParts * b[1],
          (SampleParts - SampleParts) * a[2] + SampleParts * b[2]>>
  BY DEF EdgePoint
<1> QED  BY <1>2, <1>3 DEF PointOf

(* The last sample is at the arrival.                                      *)
LEMMA LastSample ==
  ASSUME NEW a \in Grid, NEW b \in NeighborsOf(a), NEW slowness \in Nat
  PROVE  LET travel == Travel(a, b, slowness)
         IN  travel \in Nat /\ (travel \div SampleParts) * SampleParts = travel
<1> DEFINE calm == CalmPace * Length[a, b]
           q == calm \div SampleParts
<1>1. /\ b \in Grid /\ Length[a, b] \in Nat /\ CalmPace \in Nat
      /\ SampleParts \in Nat \ {0} /\ calm % SampleParts = 0
  BY EdgeAssumption, SamplingAssumption DEF NeighborsOf
<1>2. calm \in Nat
  <2>1. \A x, y \in Nat : x * y \in Nat
    OBVIOUS
  <2> QED  BY <1>1, <2>1
<1> HIDE DEF calm
<1>3. q \in Nat /\ calm = SampleParts * q
  <2>1. \A p \in Nat \ {0}, c \in Nat :
          c = p * (c \div p) + (c % p) /\ c \div p \in Nat /\ p * (c \div p) \in Nat
    OBVIOUS
  <2>2. \A p \in Nat \ {0}, c \in Nat :
          c % p = 0 => c = p * (c \div p) /\ c \div p \in Nat
    BY <2>1
  <2> QED  BY <1>1, <1>2, <2>2
<1> HIDE DEF q
<1>4. Travel(a, b, slowness) = SampleParts * (q * slowness)
  <2>1. \A x, y, z \in Nat : (x * y) * z = (y * x) * z /\ (x * y) * z = x * (y * z)
    OBVIOUS
  <2>2. Length[a, b] * CalmPace * slowness = (CalmPace * Length[a, b]) * slowness
    BY <1>1, <2>1
  <2>3. (SampleParts * q) * slowness = SampleParts * (q * slowness)
    <3>1. SampleParts \in Nat /\ q \in Nat
      BY <1>1, <1>3
    <3> QED  BY <2>1, <3>1
  <2> QED  BY <1>3, <2>2, <2>3 DEF Travel, calm
<1>5. q * slowness \in Nat
  BY <1>3
<1> HIDE DEF calm
<1>6. LET n == q * slowness
      IN  SampleParts * n \in Nat /\ (SampleParts * n) \div SampleParts = n
  BY <1>1, <1>5, OnLine
<1>7. (q * slowness) * SampleParts = SampleParts * (q * slowness)
  <2>1. \A x, y \in Nat : x * y = y * x
    OBVIOUS
  <2> QED  BY <1>1, <1>5, <2>1
<1> QED  BY <1>4, <1>6, <1>7

(* _evaluate_edge(): an edge that can be sailed ends in open water, at the *)
(* arrival that calm water gives and at the one that its samples give; not,*)
(* for that, at the arrival that is answered.                              *)
THEOREM EdgesEnterOpenWater ==
  ASSUME NEW frames, IsChart(frames), NEW a \in Grid, NEW b \in NeighborsOf(a),
         NEW departure \in Nat, NEW heading, NEW objective,
         EvaluateEdge(frames, a, b, departure, heading, objective).verdict = "ok"
  PROVE  LET first == Samples(frames, a, b, departure, Travel(a, b, 1))
         IN  \A slowness \in {1, SlownessOf(first)} :
               /\ slowness \in 1 .. MaxSlowness
               /\ Inspection(frames, b, departure + Travel(a, b, slowness)) = "ok"
<1> DEFINE first  == Samples(frames, a, b, departure, Travel(a, b, 1))
           second == Samples(frames, a, b, departure, Travel(a, b, SlownessOf(first)))
           Passes(travel) == Verdict(Samples(frames, a, b, departure, travel)) = "ok"
<1>1. Sail(frames, a, b, departure).verdict = "ok"
  BY DEF EvaluateEdge, Priced, Rejected
<1>2. Verdict(first) = "ok" /\ Verdict(second) = "ok"
  BY <1>1 DEF Sail, NoLeg
<1>3. b \in Grid /\ SampleParts \in Nat \ {0} /\ SampleParts \in 0 .. SampleParts
  BY SamplingAssumption DEF NeighborsOf
<1>4. ASSUME NEW slowness \in Nat, Passes(Travel(a, b, slowness))
      PROVE  /\ Inspection(frames, b, departure + Travel(a, b, slowness)) = "ok"
             /\ SlownessOf(Samples(frames, a, b, departure, Travel(a, b, slowness)))
                  \in 1 .. MaxSlowness
  <2> DEFINE travel == Travel(a, b, slowness)
             samples == Samples(frames, a, b, departure, travel)
  <2>1. travel \in Nat /\ (travel \div SampleParts) * SampleParts = travel
    BY LastSample
  <2>2. /\ samples[SampleParts].failure = "none" /\ ~samples[SampleParts].hard
        /\ SlownessOf(samples) \in 1 .. MaxSlowness
    <3> HIDE DEF travel
    <3> QED  BY <1>3, <1>4, <2>1, PassedIs DEF travel
  <2>3. samples[SampleParts] = Sample(frames, departure + travel, PointOf(b))
    <3> HIDE DEF travel
    <3>1. samples[SampleParts] =
            Sample(frames, departure + (travel \div SampleParts) * SampleParts,
                   EdgePoint(a, b, SampleParts))
      BY <1>3 DEF Samples
    <3> QED  BY <2>1, <3>1, EndsOfEdge
  <2> HIDE DEF samples
  <2> QED  BY <2>2, <2>3 DEF Inspection, samples
<1>5. /\ SlownessOf(first) \in 1 .. MaxSlowness
      /\ Inspection(frames, b, departure + Travel(a, b, 1)) = "ok"
  BY <1>2, <1>4
<1>6. Inspection(frames, b, departure + Travel(a, b, SlownessOf(first))) = "ok"
  <2> DEFINE slow == SlownessOf(first)
  <2>1. slow \in Nat /\ Passes(Travel(a, b, slow))
    BY <1>2, <1>5
  <2> HIDE DEF slow
  <2>2. Inspection(frames, b, departure + Travel(a, b, slow)) = "ok"
    BY <1>4, <2>1
  <2> QED  BY <2>2 DEF slow
<1>7. 1 \in 1 .. MaxSlowness
  <2>1. MaxSlowness \in Nat
    BY EdgeAssumption
  <2> HIDE DEF first
  <2> QED  BY <1>5, <2>1
<1> HIDE DEF first
<1> QED  BY <1>5, <1>6, <1>7 DEF first

-------------------------------------------------------------------------------
(* What can be reached from a cell                                         *)

LEMMA GridIsFinite == IsFiniteSet(Grid) /\ Cardinality(Grid) \in Nat
<1>1. Rows - 1 \in Int /\ Columns - 1 \in Int
  BY SamplingAssumption
<1>2. IsFiniteSet(0 .. Rows - 1) /\ IsFiniteSet(0 .. Columns - 1)
  BY <1>1, FS_Interval
<1>3. IsFiniteSet(Grid)
  BY <1>2, FS_Product DEF Grid
<1> QED  BY <1>3, FS_CardinalityType

LEMMA AroundInGrid == \A nodes : OpenAround(nodes) \in SUBSET (Grid \ HardMask)
<1> SUFFICES ASSUME NEW nodes, NEW n \in OpenAround(nodes) PROVE n \in Grid \ HardMask
  OBVIOUS
<1> QED  BY DEF OpenAround, NeighborsOf

(* The waves of the search, one after the other.                           *)
Waves(wave, start) ==
  /\ wave \in [0 .. Cardinality(Grid) -> SUBSET Grid]
  /\ wave[0] = {start}
  /\ \A k \in 1 .. Cardinality(Grid) :
       wave[k] = wave[k - 1] \cup OpenAround(wave[k - 1])

LEMMA ComponentUnfolds ==
  ASSUME NEW start \in Grid
  PROVE  \E wave : /\ Waves(wave, start)
                   /\ ConnectedComponent(start) =
                        IF start \in HardMask THEN {} ELSE wave[Cardinality(Grid)]
<1> DEFINE L == Cardinality(Grid)
           Spread == [p \in (1 .. L) \X SUBSET Grid |-> p[2] \cup OpenAround(p[2])]
           Is(g) == g = [k \in 0 .. L |->
                           IF k = 0 THEN {start} ELSE g[k - 1] \cup OpenAround(g[k - 1])]
<1>1. L \in Nat
  BY GridIsFinite
<1>2. /\ Spread \in [(1 .. L) \X SUBSET Grid -> SUBSET Grid]
      /\ \A k \in 1 .. L, nodes \in SUBSET Grid :
           Spread[<<k, nodes>>] = nodes \cup OpenAround(nodes)
  <2>1. \A nodes \in SUBSET Grid : nodes \cup OpenAround(nodes) \in SUBSET Grid
    BY AroundInGrid
  <2>2. \A p \in (1 .. L) \X SUBSET Grid : p[2] \in SUBSET Grid
    OBVIOUS
  <2> HIDE DEF L
  <2> QED  BY <2>1, <2>2
<1> HIDE DEF Spread, L
<1>3. PICK g : Steps(g, L, SUBSET Grid, {start}, Spread)
  <2>1. {start} \in SUBSET Grid
    OBVIOUS
  <2> QED  BY <1>1, <1>2, <2>1, StepsExist
<1>4. /\ g \in [0 .. L -> SUBSET Grid] /\ g[0] = {start}
      /\ \A k \in 1 .. L : g[k] = Spread[<<k, g[k - 1]>>]
  BY <1>3 DEF Steps
<1>5. \A k \in 1 .. L : g[k] = g[k - 1] \cup OpenAround(g[k - 1])
  <2>1. \A k \in 1 .. L : g[k - 1] \in SUBSET Grid
    BY <1>1, <1>4
  <2> QED  BY <1>2, <1>4, <2>1
<1>6. Is(g)
  <2>1. \A k \in 0 .. L : k = 0 \/ k \in 1 .. L
    BY <1>1
  <2> QED  BY <1>4, <1>5, <2>1
<1> DEFINE wave == CHOOSE g1 : Is(g1)
<1>7. Is(wave)
  <2> HIDE DEF Is
  <2> QED  BY <1>6, Zenon
<1>8. ConnectedComponent(start) = IF start \in HardMask THEN {} ELSE wave[L]
  BY DEF ConnectedComponent, L
<1> HIDE DEF wave
<1>9. /\ DOMAIN wave = 0 .. L /\ wave = [k \in 0 .. L |-> wave[k]]
      /\ wave[0] = {start}
      /\ \A k \in 1 .. L : wave[k] = wave[k - 1] \cup OpenAround(wave[k - 1])
  <2>1. 0 \in 0 .. L /\ \A k \in 1 .. L : k \in 0 .. L /\ k # 0
    BY <1>1
  <2> QED  BY <1>7, <2>1
<1> DEFINE T == {k \in Nat : k <= L => wave[k] \in SUBSET Grid}
<1>10. 0 \in T
  BY <1>9
<1>11. \A k \in Nat : k \in T => k + 1 \in T
  <2> SUFFICES ASSUME NEW k \in Nat, k + 1 <= L, wave[k] \in SUBSET Grid
               PROVE  wave[k + 1] \in SUBSET Grid
    BY <1>1
  <2>1. k + 1 \in 1 .. L /\ (k + 1) - 1 = k
    BY <1>1
  <2>2. wave[k + 1] = wave[k] \cup OpenAround(wave[k])
    BY <1>9, <2>1
  <2> QED  BY <2>2, AroundInGrid
<1>12. Nat \subseteq T
  <2> HIDE DEF T
  <2> QED  BY <1>10, <1>11, EveryNatural
<1>13. wave \in [0 .. L -> SUBSET Grid]
  <2>1. \A k \in 0 .. L : wave[k] \in SUBSET Grid
    BY <1>1, <1>12
  <2> QED  BY <1>9, <2>1
<1>14. Waves(wave, start)
  BY <1>9, <1>13 DEF Waves, L
<1> QED  BY <1>8, <1>14 DEF L

(* A wave that reaches nothing new is the last; as long as there is one    *)
(* that does, they reach a cell more each, and so there are no more of them*)
(* than cells.                                                             *)
LEMMA WavesEnd ==
  ASSUME NEW start \in Grid, NEW wave, Waves(wave, start)
  PROVE  LET last == wave[Cardinality(Grid)] IN OpenAround(last) \in SUBSET last
<1> DEFINE L == Cardinality(Grid)
           Ended(k) == OpenAround(wave[k]) \in SUBSET wave[k]
           T == {k \in Nat : k <= L => Ended(k) \/ Cardinality(wave[k]) >= k + 1}
<1>1. /\ L \in Nat /\ IsFiniteSet(Grid)
      /\ wave \in [0 .. L -> SUBSET Grid] /\ wave[0] = {start}
      /\ \A k \in 1 .. L : wave[k] = wave[k - 1] \cup OpenAround(wave[k - 1])
  BY GridIsFinite DEF Waves
<1>2. ASSUME NEW k \in 0 .. L
      PROVE  /\ IsFiniteSet(wave[k]) /\ Cardinality(wave[k]) \in Nat
             /\ Cardinality(wave[k]) <= L
  <2>1. wave[k] \in SUBSET Grid
    BY <1>1
  <2>2. IsFiniteSet(wave[k]) /\ Cardinality(wave[k]) <= L
    BY <1>1, <2>1, FS_Subset
  <2> QED  BY <2>2, FS_CardinalityType
<1> HIDE DEF L
<1>3. 0 \in T
  <2>1. Cardinality(wave[0]) = 1
    BY <1>1, FS_Singleton
  <2> QED  BY <2>1
<1>4. \A k \in Nat : k \in T => k + 1 \in T
  <2> SUFFICES ASSUME NEW k \in Nat, k + 1 <= L,
                      Ended(k) \/ Cardinality(wave[k]) >= k + 1
               PROVE  Ended(k + 1) \/ Cardinality(wave[k + 1]) >= (k + 1) + 1
    <3> HIDE DEF Ended
    <3> QED  BY <1>1
  <2>1. k \in 0 .. L /\ k + 1 \in 0 .. L /\ k + 1 \in 1 .. L /\ (k + 1) - 1 = k
    BY <1>1
  <2>2. wave[k + 1] = wave[k] \cup OpenAround(wave[k])
    BY <1>1, <2>1
  <2>3. CASE Ended(k)
    <3>1. wave[k + 1] = wave[k]
      BY <2>2, <2>3
    <3> QED  BY <2>3, <3>1
  <2>4. CASE ~Ended(k)
    <3>1. wave[k] \in SUBSET wave[k + 1] /\ wave[k] # wave[k + 1]
      BY <2>2, <2>4
    <3>2. /\ Cardinality(wave[k]) <= Cardinality(wave[k + 1])
          /\ Cardinality(wave[k]) # Cardinality(wave[k + 1])
      BY <1>2, <2>1, <3>1, FS_Subset
    <3>3. Cardinality(wave[k]) \in Nat /\ Cardinality(wave[k + 1]) \in Nat
      BY <1>2, <2>1
    <3> QED  BY <2>4, <3>2, <3>3
  <2> QED  BY <2>3, <2>4
<1>5. Nat \subseteq T
  <2> HIDE DEF T
  <2> QED  BY <1>3, <1>4, EveryNatural
<1>6. Ended(L) \/ Cardinality(wave[L]) >= L + 1
  <2>1. L \in T
    BY <1>1, <1>5
  <2> HIDE DEF Ended
  <2> QED  BY <1>1, <2>1
<1>7. Cardinality(wave[L]) \in Nat /\ Cardinality(wave[L]) <= L
  <2>1. L \in 0 .. L
    BY <1>1
  <2> QED  BY <1>2, <2>1
<1>8. Ended(L)
  BY <1>1, <1>6, <1>7
<1> QED  BY <1>8 DEF L

(* RegularGrid.connected_component(): the cells that can be reached from   *)
(* the start over open ones, and no other.                                 *)
THEOREM ComponentIsReach ==
  ASSUME NEW start \in Grid \ HardMask
  PROVE  LET component == ConnectedComponent(start)
         IN  /\ start \in component /\ component \subseteq Grid \ HardMask
             /\ OpenAround(component) \subseteq component
             /\ \A nodes : start \in nodes /\ OpenAround(nodes) \subseteq nodes =>
                             component \subseteq nodes
<1> DEFINE L == Cardinality(Grid)
<1>1. PICK wave : Waves(wave, start) /\ ConnectedComponent(start) = wave[L]
  BY ComponentUnfolds
<1>2. /\ L \in Nat /\ wave[0] = {start}
      /\ \A k \in 1 .. L : wave[k] = wave[k - 1] \cup OpenAround(wave[k - 1])
  BY <1>1, GridIsFinite DEF Waves
<1>3. OpenAround(wave[L]) \subseteq wave[L]
  BY <1>1, WavesEnd
<1> HIDE DEF L
<1>4. ASSUME NEW P, {start} \subseteq P, \A nodes : nodes \subseteq P => OpenAround(nodes) \subseteq P
      PROVE  start \in wave[L] /\ wave[L] \subseteq P
  <2> DEFINE T == {k \in Nat : k <= L => start \in wave[k] /\ wave[k] \subseteq P}
  <2>1. 0 \in T
    BY <1>2, <1>4
  <2>2. \A k \in Nat : k \in T => k + 1 \in T
    <3> SUFFICES ASSUME NEW k \in Nat, k + 1 <= L, start \in wave[k], wave[k] \subseteq P
                 PROVE  start \in wave[k + 1] /\ wave[k + 1] \subseteq P
      BY <1>2
    <3>1. k + 1 \in 1 .. L /\ (k + 1) - 1 = k
      BY <1>2
    <3>2. wave[k + 1] = wave[k] \cup OpenAround(wave[k])
      BY <1>2, <3>1
    <3>3. OpenAround(wave[k]) \subseteq P
      BY <1>4
    <3> QED  BY <3>2, <3>3
  <2>3. Nat \subseteq T
    <3> HIDE DEF T
    <3> QED  BY <2>1, <2>2, EveryNatural
  <2> QED  BY <1>2, <2>3
<1>5. start \in wave[L] /\ wave[L] \subseteq Grid \ HardMask
  <2>1. \A nodes : OpenAround(nodes) \subseteq Grid \ HardMask
    BY AroundInGrid
  <2> QED  BY <1>4, <2>1
<1>6. ASSUME NEW nodes, start \in nodes, OpenAround(nodes) \subseteq nodes
      PROVE  wave[L] \subseteq nodes
  <2>1. \A some : some \subseteq nodes => OpenAround(some) \subseteq OpenAround(nodes)
    BY DEF OpenAround
  <2>2. \A some : some \subseteq nodes => OpenAround(some) \subseteq nodes
    BY <1>6, <2>1
  <2> QED  BY <1>4, <1>6, <2>2
<1> QED  BY <1>1, <1>3, <1>5, <1>6

-------------------------------------------------------------------------------
(* The cell that a place is mapped to                                      *)

LEMMA SnapIs ==
  ASSUME NEW place, place.away \in [Grid -> Nat], NEW permitted \in SUBSET Grid
  PROVE  LET candidates == Candidates(place, permitted)
         IN  IF candidates = {} THEN Snap(place, permitted) = Unmapped
             ELSE /\ Snap(place, permitted) \in candidates
                  /\ \A m \in candidates : NotFarther(place, Snap(place, permitted), m)
<1> DEFINE candidates == Candidates(place, permitted)
<1>1. candidates \in SUBSET Grid /\ IsFiniteSet(candidates)
  <2>1. candidates \in SUBSET Grid
    BY DEF Candidates
  <2> HIDE DEF candidates
  <2> QED  BY <2>1, GridIsFinite, FS_Subset
<1> HIDE DEF candidates
<1>2. CASE candidates = {}
  BY <1>2 DEF Snap, candidates
<1>3. CASE candidates # {}
  <2>1. ASSUME NEW f \in [Grid -> Int], NEW S \in SUBSET candidates, S # {}
        PROVE  \E n \in S : \A m \in S : f[n] <= f[m]
    <3> DEFINE g == [n \in S |-> f[n]]
               values == {g[n] : n \in S}
    <3>1. IsFiniteSet(S)
      BY <1>1, FS_Subset
    <3>2. DOMAIN g = S /\ g = [n \in S |-> g[n]] /\ \A n \in S : g[n] = f[n] /\ f[n] \in Int
      BY <1>1
    <3> HIDE DEF g
    <3>3. IsFiniteSet(values)
      BY <3>1, <3>2, ImageIsFinite
    <3>4. values \in SUBSET Int /\ values # {}
      BY <2>1, <3>2
    <3>5. Min(values) \in values /\ \A x \in values : Min(values) <= x
      <4> HIDE DEF values
      <4> QED  BY <3>3, <3>4, Extremes
    <3>6. PICK n \in S : g[n] = Min(values)
      BY <3>5
    <3>7. \A m \in S : g[n] <= g[m]
      BY <3>5, <3>6
    <3>8. \A m \in S : f[n] <= f[m]
      BY <3>2, <3>7
    <3> QED  BY <3>8
  <2> DEFINE row    == [n \in Grid |-> n[1]]
             column == [n \in Grid |-> n[2]]
  <2>2. /\ place.away \in [Grid -> Int] /\ row \in [Grid -> Int] /\ column \in [Grid -> Int]
        /\ \A n \in Grid : row[n] = n[1] /\ column[n] = n[2]
    <3>1. \A n \in Grid : n[1] \in Int /\ n[2] \in Int
      BY SamplingAssumption DEF Grid
    <3> QED  BY <3>1
  <2> HIDE DEF row, column
  <2>3. PICK a \in candidates : \A m \in candidates : place.away[a] <= place.away[m]
    <3>1. candidates \in SUBSET candidates
      OBVIOUS
    <3> QED  BY <1>3, <2>1, <2>2, <3>1
  <2> DEFINE near == {n \in candidates : place.away[n] = place.away[a]}
  <2>4. PICK b \in near : \A m \in near : row[b] <= row[m]
    <3>1. near \in SUBSET candidates /\ a \in near
      OBVIOUS
    <3> HIDE DEF near
    <3> QED  BY <2>1, <2>2, <3>1
  <2> DEFINE abreast == {n \in near : row[n] = row[b]}
  <2>5. PICK c \in abreast : \A m \in abreast : column[c] <= column[m]
    <3>1. abreast \in SUBSET candidates /\ b \in abreast
      OBVIOUS
    <3> HIDE DEF near, abreast
    <3> QED  BY <2>1, <2>2, <3>1
  <2>6. c \in candidates /\ place.away[c] = place.away[a] /\ row[c] = row[b]
    OBVIOUS
  <2>7. ASSUME NEW m \in candidates PROVE NotFarther(place, c, m)
    <3>1. /\ m \in Grid /\ c \in Grid /\ a \in Grid /\ b \in Grid
      BY <1>1, <2>6
    <3>2. /\ place.away[m] \in Int /\ place.away[c] \in Int /\ row[m] \in Int
          /\ row[c] \in Int /\ column[m] \in Int /\ column[c] \in Int
      BY <2>2, <3>1
    <3>3. place.away[c] <= place.away[m]
      BY <2>3, <2>6
    <3>4. place.away[m] = place.away[c] => row[c] <= row[m]
      BY <2>4, <2>6
    <3>5. place.away[m] = place.away[c] /\ row[m] = row[c] => column[c] <= column[m]
      BY <2>5, <2>6
    <3> HIDE DEF abreast, near
    <3> QED  BY <2>2, <3>1, <3>2, <3>3, <3>4, <3>5 DEF NotFarther
  <2>8. Snap(place, permitted) = CHOOSE n \in candidates : \A m \in candidates : NotFarther(place, n, m)
    BY <1>3 DEF Snap, candidates
  <2>9. \A m \in candidates : NotFarther(place, c, m)
    BY <2>7
  <2> HIDE DEF abreast, near
  <2>10. /\ Snap(place, permitted) \in candidates
         /\ \A m \in candidates : NotFarther(place, Snap(place, permitted), m)
    BY <2>6, <2>8, <2>9, Zenon
  <2> QED  BY <1>3, <2>10 DEF candidates
<1> QED  BY <1>2, <1>3

(* map_corridor_endpoints(): both endpoints are open cells of their regions*)
(* and near enough, one can be reached from the other over open cells, and *)
(* no other such cell is nearer to what was asked for.                     *)
THEOREM MappedEndpoints ==
  ASSUME NEW c \in Corridors, Mappable(c)
  PROVE  LET start == StartOfCorridor(c)
             goal  == GoalOfCorridor(c)
         IN  /\ start \in Candidates(c.start, Grid)
             /\ goal \in Candidates(c.goal, ConnectedComponent(start))
             /\ {start, goal} \subseteq ConnectedComponent(start) /\ start # goal
             /\ \A n \in Candidates(c.start, Grid) : NotFarther(c.start, start, n)
             /\ \A n \in Candidates(c.goal, ConnectedComponent(start)) :
                  NotFarther(c.goal, goal, n)
<1> DEFINE start == StartOfCorridor(c)
           goal  == GoalOfCorridor(c)
           reach == ConnectedComponent(start)
<1>1. /\ c.start.away \in [Grid -> Nat] /\ c.goal.away \in [Grid -> Nat]
      /\ c.start.region \subseteq Grid /\ c.goal.region \subseteq Grid
  BY EndpointsAssumption
<1>2. start # Unmapped /\ goal # Unmapped /\ goal # start
  BY DEF Mappable
<1>3. /\ start \in Candidates(c.start, Grid)
      /\ \A n \in Candidates(c.start, Grid) : NotFarther(c.start, start, n)
  BY <1>1, <1>2, SnapIs DEF StartOfCorridor
<1>4. start \in Grid \ HardMask
  BY <1>3 DEF Candidates
<1> HIDE DEF start
<1>5. start \in reach /\ reach \subseteq Grid \ HardMask
  BY <1>4, ComponentIsReach
<1>6. /\ goal \in Candidates(c.goal, reach)
      /\ \A n \in Candidates(c.goal, reach) : NotFarther(c.goal, goal, n)
  <2>1. goal = Snap(c.goal, reach) /\ reach \in SUBSET Grid
    BY <1>5 DEF GoalOfCorridor, start
  <2> HIDE DEF reach, goal
  <2> QED  BY <1>1, <1>2, <2>1, SnapIs
<1>7. goal \in reach
  BY <1>6 DEF Candidates
<1> QED  BY <1>2, <1>3, <1>5, <1>6, <1>7 DEF start

-------------------------------------------------------------------------------
(* Voyages under ice that stays                                            *)

(* A voyage that the ice of the first frame stays with does not leave the  *)
(* cells that can be reached from its start.                               *)
LEMMA VoyagesStayInReach ==
  ASSUME window \in Windows, IceStays, NEW r, r.start \in Grid \ HardMask,
         r.departure \in Times, r.objective \in Objectives,
         NEW u \in Sailed(window, r)[LastTime + 1]
  PROVE  u.node \in ConnectedComponent(r.start)
<1> DEFINE S == Sailed(window, r)
           C == ConnectedComponent(r.start)
           T == {t \in Nat : t <= LastTime + 1 => \A v \in S[t] : v.node \in C}
<1>1. r.start \in Nodes /\ LastTime \in Nat /\ Times \subseteq Nat
  BY GridAssumption, SearchAssumption, TimesAreNat
<1>2. /\ S \in [0 .. LastTime + 1 -> SUBSET Ends] /\ S[0] = {StartEnd(r)}
      /\ \A t \in 1 .. LastTime + 1 : S[t] = Later(window, r, t, S[t - 1])
  BY <1>1, SailedUnfolds
<1>3. r.start \in C /\ C \subseteq Grid \ HardMask /\ OpenAround(C) \subseteq C
  BY ComponentIsReach
<1> HIDE DEF S, C
<1>4. ASSUME NEW v \in Ends, v.node \in C, NEW x \in Extensions(window, r, v)
      PROVE  x.node \in C
  <2>1. PICK b \in Neighbors(v.node) :
          /\ Traverse(window, v.node, b, v.arrival, v.heading, r.objective).verdict = "ok"
          /\ x.node = b
    BY ExtensionIs
  <2>2. /\ v.node \in Grid /\ v.arrival \in Times /\ v.arrival \in Nat
        /\ v.heading \in Headings /\ b \in NeighborsOf(v.node) /\ b \in Grid
        /\ IsChart(Frames(window))
    BY <1>1, <2>1, GridAssumption DEF Ends, NeighborsOf
  <2>3. EvaluateEdge(Frames(window), v.node, b, v.arrival, v.heading, r.objective).verdict
          = "ok"
    BY <2>1, <2>2, GridAssumption DEF EvaluateEdge
  <2>4. PICK time \in Int : Inspection(Frames(window), b, time) = "ok"
    <3> DEFINE first == Samples(Frames(window), v.node, b, v.arrival,
                                Travel(v.node, b, 1))
    <3>1. Inspection(Frames(window), b, v.arrival + Travel(v.node, b, 1)) = "ok"
      BY <2>2, <2>3, EdgesEnterOpenWater
    <3>2. Travel(v.node, b, 1) \in Nat
      BY <2>2, LastSample
    <3> QED  BY <2>2, <3>1, <3>2
  <2>5. \E valid \in DOMAIN Frames(window) : ~Frames(window)[valid][b].hard
    <3> DEFINE frames == Frames(window)
               sample == Sample(frames, time, PointOf(b))
    <3>1. sample.failure = "none" /\ ~sample.hard
      <4>1. sample.failure \in {"none", "uncovered", "unknown"}
        BY <2>2, HardAtNode
      <4>2. "ok" = IF sample.failure # "none" THEN sample.failure
                   ELSE IF sample.hard THEN "hard" ELSE "ok"
        BY <2>4 DEF Inspection
      <4> HIDE DEF sample
      <4> QED  BY <4>1, <4>2
    <3>2. /\ Covers(frames, time)
          /\ sample.hard <=> \E valid \in Bracket(frames, time) : frames[valid][b].hard
      BY <2>2, <3>1, HardAtNode
    <3>3. Lower(frames, time) \in DOMAIN frames
      BY <2>2, <3>2, FramesAround
    <3>4. ~frames[Lower(frames, time)][b].hard
      BY <3>1, <3>2 DEF Bracket
    <3> QED  BY <3>3, <3>4
  <2>6. b \notin HardMask
    BY <2>5 DEF IceStays
  <2>7. b \in OpenAround(C)
    BY <1>4, <2>2, <2>6 DEF OpenAround
  <2> QED  BY <1>3, <2>1, <2>7
<1>5. 0 \in T
  BY <1>2, <1>3 DEF StartEnd
<1>6. \A t \in Nat : t \in T => t + 1 \in T
  <2> SUFFICES ASSUME NEW t \in Nat, t + 1 <= LastTime + 1,
                      \A v \in S[t] : v.node \in C, NEW x \in S[t + 1]
               PROVE  x.node \in C
    BY <1>1
  <2>1. t \in 0 .. LastTime + 1 /\ t + 1 \in 1 .. LastTime + 1 /\ (t + 1) - 1 = t
    BY <1>1
  <2>2. S[t + 1] = Later(window, r, t + 1, S[t]) /\ S[t] \in SUBSET Ends
    BY <1>2, <2>1
  <2>3. x \in S[t] \/ \E v \in S[t] : x \in Extensions(window, r, v)
    BY <2>2 DEF Later, CheapestOf
  <2> QED  BY <1>4, <2>2, <2>3
<1>7. Nat \subseteq T
  <2> HIDE DEF T
  <2> QED  BY <1>5, <1>6, EveryNatural
<1>8. LastTime + 1 \in T /\ u \in S[LastTime + 1]
  BY <1>1, <1>7 DEF S
<1> QED  BY <1>8 DEF C

(* Where no cell of the component is near enough, there is no voyage to any*)
(* that is.                                                                *)
LEMMA UnmappedIsUnreachable ==
  ASSUME window \in Windows, IceStays, NEW c \in Corridors,
         StartOfCorridor(c) # Unmapped, GoalOfCorridor(c) = Unmapped,
         NEW goal \in Candidates(c.goal, Grid),
         NEW r, r.start = StartOfCorridor(c), r.goal = goal,
         r.departure = c.departure, r.objective = "fastest"
  PROVE  CostsToGoal(window, r) = {}
<1> DEFINE start == StartOfCorridor(c)
           reach == ConnectedComponent(start)
<1>1. /\ c.start.away \in [Grid -> Nat] /\ c.goal.away \in [Grid -> Nat]
      /\ c.departure \in Times /\ Unmapped \notin Grid
  BY EndpointsAssumption
<1>2. start \in Grid \ HardMask
  <2>1. start \in Candidates(c.start, Grid)
    BY <1>1, SnapIs DEF StartOfCorridor
  <2> QED  BY <2>1 DEF Candidates
<1> HIDE DEF start
<1>3. reach \in SUBSET Grid
  BY <1>2, ComponentIsReach
<1>4. Snap(c.goal, reach) = Unmapped
  BY DEF GoalOfCorridor, start
<1> HIDE DEF reach
<1>5. Candidates(c.goal, reach) = {}
  <2>1. Candidates(c.goal, reach) \in SUBSET Grid
    BY <1>3 DEF Candidates
  <2> QED  BY <1>1, <1>3, <1>4, <2>1, SnapIs
<1>6. goal \notin reach
  BY <1>5 DEF Candidates
<1>7. "fastest" \in Objectives
  <2>1. Modes[1] = "fastest" /\ 1 \in 1 .. 3
    BY DEF Modes
  <2> QED  BY <2>1, LayerAssumption
<1>8. ASSUME NEW u \in Sailed(window, r)[LastTime + 1] PROVE u.node # goal
  BY <1>1, <1>2, <1>6, <1>7, VoyagesStayInReach DEF start, reach
<1> QED  BY <1>8 DEF CostsToGoal

-------------------------------------------------------------------------------
(* The steps of the command line                                           *)

LEMMA WindowStays ==
  ASSUME [CorridorNext]_corridorVars
  PROVE  window' = window
BY DEF CorridorNext, PlanFrames, Execute, Run, Ask, Begin, Refuse, Fail, Collect,
   Review, Overtaken, Rest, Step, Cancel, GiveUp, Discard, Abort, Expand, Arrive,
   Overrun, Done, corridorVars, allVars, vars, Answered

(* What a mapped corridor is asked for is a voyage that there may be.      *)
LEMMA CorridorSteps ==
  ASSUME window \in Windows, [CorridorNext]_corridorVars
  PROVE  [VoyagesNext]_allVars
<1>1. ASSUME NEW c \in Corridors, PlanFrames(c) PROVE [VoyagesNext]_allVars
  <2> DEFINE v == VoyageOf(window, c, StartOfCorridor(c), GoalOfCorridor(c))
  <2>1. CASE UNCHANGED allVars
    BY <2>1
  <2>2. CASE Mappable(c) /\ v.elapsed > 0 /\ Execute(v)
    <3>1. /\ StartOfCorridor(c) \in Grid /\ GoalOfCorridor(c) \in Grid
          /\ StartOfCorridor(c) # GoalOfCorridor(c)
      <4> DEFINE start == StartOfCorridor(c)
                 goal  == GoalOfCorridor(c)
      <4>1. /\ start \in Candidates(c.start, Grid) /\ start # goal
            /\ goal \in Candidates(c.goal, ConnectedComponent(start))
        BY <2>2, MappedEndpoints
      <4>2. c.goal.region \subseteq Grid
        BY EndpointsAssumption
      <4> HIDE DEF start, goal
      <4>3. start \in Grid /\ goal \in Grid
        BY <4>1, <4>2 DEF Candidates
      <4> QED  BY <4>1, <4>3 DEF start, goal
    <3>2. v \in Voyages
      BY <2>2, <3>1, EndpointsAssumption
    <3> HIDE DEF v
    <3> QED  BY <2>2, <3>2 DEF VoyagesNext
  <2> HIDE DEF v
  <2>3. UNCHANGED allVars \/ (Mappable(c) /\ v.elapsed > 0 /\ Execute(v))
    BY <1>1 DEF PlanFrames, v
  <2> QED  BY <2>1, <2>2, <2>3
<1>2. ASSUME NEW v \in Orders, Execute(v) PROVE [VoyagesNext]_allVars
  BY <1>2, EndpointsAssumption DEF VoyagesNext
<1>3. CASE Run \/ Overtaken \/ Rest
  BY <1>3 DEF VoyagesNext
<1>4. CASE UNCHANGED corridorVars
  BY <1>4 DEF corridorVars
<1> QED  BY <1>1, <1>2, <1>3, <1>4 DEF CorridorNext

(* _plan_frames(): with the command line in front of them, the services do *)
(* nothing that they would not do when asked directly.                     *)
THEOREM CommandLineUsesServices == CorridorSpec => VoyagesSpec
<1> DEFINE I == window \in Windows
<1>1. CorridorInit => I /\ VoyagesInit
  BY DEF CorridorInit, VoyagesInit, Init
<1>2. I /\ [CorridorNext]_corridorVars => I' /\ [VoyagesNext]_allVars
  BY WindowStays, CorridorSteps
<1> HIDE DEF I
<1> QED  BY <1>1, <1>2, PTL DEF CorridorSpec, VoyagesSpec

-------------------------------------------------------------------------------
(* The endpoints and the search                                            *)

(* A search that was turned away as hard was so where it was to start.     *)
HardStart ==
  /\ answer.outcome = "blocked" =>
       Inspect(window, request.start, request.departure) = "hard"
  /\ stage = "awaiting" =>
       request.start = voyage.start /\ request.departure = voyage.departure
  /\ stage = "blocked" => Inspect(window, voyage.start, voyage.departure) = "hard"

(* What the command line asked for.                                        *)
AsMapped ==
  /\ mapping # "none" => corridor \in Corridors
  /\ mapping = "mapped" =>
       /\ voyage.start \in Grid \ HardMask /\ voyage.departure = corridor.departure
       /\ Covers(Frames(window), corridor.departure)

LEMMA OnlyBeginBlocks ==
  ASSUME HardStart, Step \/ Cancel \/ UNCHANGED vars
  PROVE  /\ answer'.outcome = "blocked" =>
              Inspect(window', request'.start, request'.departure) = "hard"
         /\ window' = window /\ request' = request
<1>1. window' = window /\ request' = request
  BY DEF Step, Cancel, GiveUp, Discard, Abort, Expand, Arrive, Overrun, Done, vars
<1>2. answer' = answer \/ answer'.outcome # "blocked"
  <2>1. CASE GiveUp \/ Cancel
    BY <2>1, RaisedIs DEF GiveUp, Cancel, Done
  <2>2. ASSUME NEW e \in queue, Discard(e) \/ Abort(e) \/ Expand(e) \/ Arrive(e) \/ Overrun(e)
        PROVE  answer' = answer \/ answer'.outcome # "blocked"
    <3>1. CASE Discard(e) \/ Expand(e)
      BY <3>1 DEF Discard, Expand
    <3>2. CASE Abort(e) \/ Overrun(e)
      BY <3>2, RaisedIs DEF Abort, Overrun, Done
    <3>3. CASE Arrive(e)
      BY <3>3 DEF Arrive, Done
    <3> QED  BY <2>2, <3>1, <3>2, <3>3
  <2> QED  BY <2>1, <2>2 DEF Step, vars
<1> QED  BY <1>1, <1>2 DEF HardStart

LEMMA HardStartStays ==
  ASSUME ServicesInv, HardStart, [VoyagesNext]_allVars
  PROVE  HardStart'
<1>0. window \in Windows /\ ServiceInv
  BY DEF ServicesInv, SearchInv, SearchTypeOK, Kept
<1>1. ASSUME NEW v \in Voyages, Execute(v) PROVE HardStart'
  <2>1. stage' \in {"refused", "asking"} /\ UNCHANGED vars
    BY <1>1 DEF Execute
  <2> QED  BY <2>1 DEF HardStart, vars
<1>2. CASE Ask
  <2> DEFINE r == LayerRequest(LayerAt(Len(planned) + 1), ModeAt(Len(planned) + 1))
  <2>1. /\ stage' = "awaiting" /\ voyage' = voyage /\ window' = window
        /\ request' = r /\ (answer' = AtOnce(r) \/ answer' = Raised("cancelled"))
    BY <1>2 DEF Ask, Begin, Refuse
  <2>2. r.start = voyage.start /\ r.departure = voyage.departure
    BY DEF LayerRequest
  <2> HIDE DEF r
  <2>3. answer'.outcome = "blocked" => Inspect(window, r.start, r.departure) = "hard"
    <3>1. /\ \A why : Raised(why).outcome = why
          /\ ZeroLength(r).outcome = "route" /\ Pending.outcome = "pending"
      BY DEF Raised, ZeroLength, Pending, Nothing
    <3> DEFINE found == Inspect(window, r.start, r.departure)
    <3>2. \/ answer' \in {Raised("cancelled"), Raised("invalid"), ZeroLength(r), Pending}
          \/ answer' = Raised("blocked") /\ found = "hard"
          \/ answer' = Raised(found) /\ found # "hard" /\ r.start \in Nodes
      BY <2>1 DEF AtOnce
    <3>3. r.start \in Nodes => found \in {"ok", "hard", "uncovered", "unknown"}
      <4>1. r \in Requests
        BY <1>2, <1>0, NextAsked DEF Asked, Underway, Ask, r
      <4> QED  BY <1>0, <4>1, InspectionAssumption
    <3> HIDE DEF found
    <3> QED  BY <3>1, <3>2, <3>3 DEF found
  <2> QED  BY <2>1, <2>2, <2>3 DEF HardStart
<1>3. CASE Fail
  <2>1. /\ stage = "awaiting" /\ stage' = answer.outcome /\ UNCHANGED <<vars, voyage>>
    BY <1>3 DEF Fail, Answered
  <2> QED  BY <2>1 DEF HardStart, vars
<1>4. CASE Collect \/ Review
  <2>1. stage' \notin {"awaiting", "blocked"} /\ UNCHANGED vars
    BY <1>4 DEF Collect, Review, Proceed
  <2> QED  BY <2>1 DEF HardStart, vars
<1>5. CASE (Step \/ Cancel) /\ UNCHANGED serviceVars
  BY <1>5, OnlyBeginBlocks DEF HardStart, serviceVars
<1>6. CASE Overtaken
  BY <1>6 DEF Overtaken, HardStart, vars
<1>7. CASE Rest \/ UNCHANGED allVars
  BY <1>7 DEF Rest, HardStart, allVars, vars, serviceVars
<1> QED  BY <1>1, <1>2, <1>3, <1>4, <1>5, <1>6, <1>7 DEF VoyagesNext, Run

LEMMA AsMappedStays ==
  ASSUME window \in Windows, AsMapped, [CorridorNext]_corridorVars
  PROVE  AsMapped'
<1>1. window' = window
  BY WindowStays
<1>2. HardMask' = HardMask
  BY <1>1 DEF HardMask, FirstFrame
<1>3. ASSUME NEW c \in Corridors, PlanFrames(c) PROVE AsMapped'
  <2> DEFINE v == VoyageOf(window, c, StartOfCorridor(c), GoalOfCorridor(c))
  <2>1. /\ corridor' = c
        /\ mapping' = "mapped" => /\ Covers(Frames(window), c.departure)
                                  /\ Mappable(c) /\ voyage' = v
    <3> HIDE DEF v
    <3> QED  BY <1>3 DEF PlanFrames, Execute, v
  <2>2. v.start = StartOfCorridor(c) /\ v.departure = c.departure
    BY DEF VoyageOf
  <2>3. Mappable(c) => StartOfCorridor(c) \in Grid \ HardMask
    BY MappedEndpoints DEF Candidates
  <2> HIDE DEF v
  <2> QED  BY <1>1, <1>2, <2>1, <2>2, <2>3 DEF AsMapped
<1>4. ASSUME NEW v \in Orders, Execute(v), mapping' = "none" PROVE AsMapped'
  BY <1>4 DEF AsMapped
<1>5. CASE (Run \/ Overtaken \/ Rest) /\ UNCHANGED commandVars
  <2>1. voyage' = voyage
    BY <1>5 DEF Run, Ask, Fail, Collect, Review, Overtaken, Rest, serviceVars, allVars
  <2> QED  BY <1>1, <1>2, <1>5, <2>1 DEF AsMapped, commandVars
<1>6. CASE UNCHANGED corridorVars
  BY <1>1, <1>2, <1>6 DEF AsMapped, corridorVars, allVars, serviceVars, commandVars
<1> QED  BY <1>3, <1>4, <1>5, <1>6 DEF CorridorNext

LEMMA MappingAgrees ==
  ASSUME window \in Windows, HardStart, AsMapped
  PROVE  MappingMatchesSearch
<1>1. ASSUME mapping = "mapped", stage = "blocked"
      PROVE  corridor.departure > StartOf(Frames(window))
  <2> DEFINE frames == Frames(window)
             start  == voyage.start
             time   == corridor.departure
             sample == Sample(frames, time, PointOf(start))
  <2>1. /\ IsChart(frames) /\ start \in Grid \ HardMask /\ corridor \in Corridors
        /\ Covers(frames, time) /\ voyage.departure = time
    BY <1>1, GridAssumption DEF AsMapped
  <2>2. time \in Times /\ time \in Int
    <3>1. time \in Times
      BY <2>1, EndpointsAssumption
    <3> HIDE DEF time
    <3> QED  BY <3>1, TimesAreNat
  <2>3. Inspection(frames, start, time) = "hard"
    BY <1>1, <2>1, <2>2, GridAssumption DEF HardStart
  <2> HIDE DEF start, time
  <2>4. \E valid \in Bracket(frames, time) : frames[valid][start].hard
    <3>1. sample.failure \in {"none", "uncovered", "unknown"}
      BY <2>1, <2>2, HardAtNode
    <3>2. sample.failure = "none" /\ sample.hard
      BY <2>3, <3>1 DEF Inspection
    <3> QED  BY <2>1, <2>2, <3>2, HardAtNode
  <2>5. time # StartOf(frames)
    <3> SUFFICES ASSUME time = StartOf(frames) PROVE FALSE
      OBVIOUS
    <3>1. frames[StartOf(frames)][start].hard
      BY <2>1, <2>4, FirstOfWindow
    <3> QED  BY <2>1, <3>1 DEF HardMask, FirstFrame
  <2>6. StartOf(frames) <= time /\ StartOf(frames) \in Int
    BY <2>1, FirstOfWindow DEF Covers
  <2> QED  BY <2>2, <2>5, <2>6 DEF time
<1>2. ASSUME mapping = "unmapped", IceStays,
             StartOfCorridor(corridor) # Unmapped, GoalOfCorridor(corridor) = Unmapped,
             NEW goal \in Candidates(corridor.goal, Grid),
             NEW r, r = [start |-> StartOfCorridor(corridor), goal |-> goal,
                         bucket |-> 1, departure |-> corridor.departure,
                         objective |-> "fastest", limit |-> Limit,
                         ceiling |-> EndOf(Frames(window)) - corridor.departure]
      PROVE  CostsToGoal(window, r) = {}
  <2>1. corridor \in Corridors
    BY <1>2 DEF AsMapped
  <2>2. /\ r.start = StartOfCorridor(corridor) /\ r.goal = goal
        /\ r.departure = corridor.departure /\ r.objective = "fastest"
    BY <1>2
  <2> QED  BY <1>2, <2>1, <2>2, UnmappedIsUnreachable
<1> QED  BY <1>1, <1>2 DEF MappingMatchesSearch

(* _plan_frames(), map_corridor_endpoints(): the mapping turns away no     *)
(* corridor that the search could serve while the ice of the first frame   *)
(* stays, and the search none for the water at its start that the mapping  *)
(* found open in that frame.                                               *)
THEOREM MappingAlwaysMatches == CorridorSpec => []MappingMatchesSearch
<1> DEFINE I == HardStart /\ AsMapped
<1>1. CorridorInit => I
  BY DEF CorridorInit, VoyagesInit, Init, Nothing, HardStart, AsMapped
<1>2. ServicesInv /\ I /\ [CorridorNext]_corridorVars => I'
  <2> SUFFICES ASSUME ServicesInv, I, [CorridorNext]_corridorVars PROVE I'
    OBVIOUS
  <2>1. window \in Windows
    BY DEF ServicesInv, SearchInv, SearchTypeOK
  <2>2. HardStart'
    BY <2>1, CorridorSteps, HardStartStays
  <2>3. AsMapped'
    BY <2>1, AsMappedStays
  <2> QED  BY <2>2, <2>3
<1>3. ServicesInv /\ I => MappingMatchesSearch
  BY MappingAgrees DEF ServicesInv, SearchInv, SearchTypeOK
<1> HIDE DEF I
<1> QED  BY <1>1, <1>2, <1>3, CommandLineUsesServices, ServicesInvariant, PTL
         DEF CorridorSpec

(* What the voyages are checked for, of the command line, the services and *)
(* the search alike: what a search by itself keeps is kept when the        *)
(* services call it, and when the command line calls the services.         *)
THEOREM CommandLineKeepsAll ==
  CorridorSpec =>
    /\ [](/\ ChainConsistent /\ CheapestRoute /\ NoRouteIsMissed
          /\ WaypointsNavigable /\ ContractKept /\ ShorterLayersFollow)
    /\ SettledForGood
BY CommandLineUsesServices, ServicesUseSearch, ChainsConsistent, AnswersAreCheapest,
   NoRouteMissed, WaypointsOpen, ContractAlwaysKept, ShorterAlwaysFollow,
   NoReopening, PTL

-------------------------------------------------------------------------------
(* The end of an execution                                                 *)

(* How far an execution still has to go at most: the results that it lacks,*)
(* where it stands between two of them, the states that the search may     *)
(* still expand, and the entries that it may have to drop before.          *)
StageRank ==
  CASE stage = "layered" -> 2 [] stage = "asking" -> 1 [] OTHER -> 0

ToGo ==
  <<12 - Len(planned), StageRank,
    IF Searching THEN 1 + request.limit - expanded ELSE 0,
    Cardinality(queue)>>

(* The order of dictionaries.                                              *)
Sooner(p, q) ==
  \E i \in 1..4 : p[i] < q[i] /\ \A j \in 1 .. i - 1 : p[j] = q[j]

(* The queue is a finite one, and the count of expansions within its limit.*)
Bounded ==
  /\ IsFiniteSet(queue)
  /\ Searching => expanded <= request.limit

LEMMA ToGoIs ==
  ASSUME SearchInv, ServiceInv, Bounded, Planning
  PROVE  ToGo \in Nat \X Nat \X Nat \X Nat
<1>1. 12 - Len(planned) \in Nat
  BY DEF ServiceInv
<1>2. StageRank \in Nat
  BY DEF StageRank
<1>3. ASSUME Searching PROVE 1 + request.limit - expanded \in Nat
  <2>1. request \in Requests /\ expanded \in Nat /\ expanded <= request.limit
    BY <1>3 DEF SearchInv, SearchTypeOK, Bounded
  <2>2. request.limit \in Nat
    BY <2>1, SearchAssumption DEF IsRequest
  <2> QED  BY <2>1, <2>2
<1>4. Cardinality(queue) \in Nat
  BY FS_CardinalityType DEF Bounded
<1> QED  BY <1>1, <1>2, <1>3, <1>4 DEF ToGo

(* The queue of a search that goes on has a least entry.                   *)
LEMMA LeastExists ==
  ASSUME SearchInv, Bounded, queue # {}
  PROVE  \E e \in queue : \A f \in queue : Before(e, f)
<1>1. \A e \in queue : e.priority \in Nat /\ e.cost \in Nat
  BY DEF SearchInv, SearchTypeOK
<1> DEFINE P == {e.priority : e \in queue}
<1>2. P \in SUBSET Int /\ P # {} /\ IsFiniteSet(P)
  <2> DEFINE g == [f \in queue |-> f.priority]
  <2>1. g = [f \in queue |-> g[f]] /\ P = {g[f] : f \in queue}
    OBVIOUS
  <2>2. IsFiniteSet(P)
    <3> HIDE DEF g, P
    <3> QED  BY <2>1, ImageIsFinite DEF Bounded
  <2> QED  BY <1>1, <2>2
<1>3. PICK p \in P : \A q \in P : p <= q
  <2> HIDE DEF P
  <2> QED  BY <1>2, Extremes
<1> DEFINE Q == {e \in queue : e.priority = p}
           C == {e.cost : e \in Q}
<1>4. C \in SUBSET Int /\ C # {} /\ IsFiniteSet(C)
  <2>1. IsFiniteSet(Q)
    BY FS_Subset DEF Bounded
  <2> DEFINE g == [f \in Q |-> f.cost]
  <2>2. g = [f \in Q |-> g[f]] /\ C = {g[f] : f \in Q}
    OBVIOUS
  <2>3. IsFiniteSet(C)
    <3> HIDE DEF g, C, Q
    <3> QED  BY <2>1, <2>2, ImageIsFinite
  <2> QED  BY <1>1, <1>3, <2>3
<1>5. PICK c \in C : \A d \in C : c <= d
  <2> HIDE DEF C
  <2> QED  BY <1>4, Extremes
<1>6. PICK e \in Q : e.cost = c
  BY <1>5
<1>7. ASSUME NEW f \in queue PROVE Before(e, f)
  <2>1. p <= f.priority /\ e.priority = p /\ e \in queue
    BY <1>3, <1>6
  <2>2. f.priority = p => c <= f.cost
    BY <1>5
  <2> QED  BY <1>1, <1>6, <2>1, <2>2 DEF Before
<1> QED  BY <1>6, <1>7

(* A cell has finitely many neighbours, and so many labels to set.         *)
LEMMA FewImprovements ==
  ASSUME NEW s, s.node \in Nodes
  PROVE  IsFiniteSet(Improvements(s))
<1> DEFINE edge(b) == [to |-> b, is |-> Traverse(window, s.node, b, labels[s].arrival,
                                                 s.heading, request.objective)]
           move(e) == [to |-> NextState(s, e.to, e.is.arrival), edge |-> e.is.cost,
                       arrival |-> e.is.arrival, cost |-> labels[s].cost + e.is.cost]
           g == [b \in Neighbors(s.node) |-> edge(b)]
           F == {f \in Edges(s) : f.is.verdict = "ok" /\ ~TooLate(f.is)}
           h == [e \in F |-> move(e)]
<1>1. IsFiniteSet(Neighbors(s.node))
  BY GridIsFinite, GridAssumption, SearchAssumption, FS_Subset
<1>2. g = [b \in Neighbors(s.node) |-> g[b]] /\ Edges(s) = {g[b] : b \in Neighbors(s.node)}
  BY DEF Edges
<1>3. IsFiniteSet(Edges(s))
  <2> HIDE DEF g
  <2> QED  BY <1>1, <1>2, ImageIsFinite
<1>4. IsFiniteSet(F)
  BY <1>3, FS_Subset
<1>5. h = [e \in F |-> h[e]] /\ Moves(s) = {h[e] : e \in F}
  BY DEF Moves
<1>6. IsFiniteSet(Moves(s))
  <2> HIDE DEF h, F
  <2> QED  BY <1>4, <1>5, ImageIsFinite
<1> QED  BY <1>6, FS_Subset DEF Improvements

LEMMA BoundedStays ==
  ASSUME SearchInv, Bounded, [Next]_vars
  PROVE  Bounded'
<1>1. ASSUME NEW r \in Requests, Begin(r) \/ Refuse(r) PROVE Bounded'
  <2>1. r.limit \in Nat
    BY SearchAssumption DEF IsRequest
  <2>2. request' = r /\ expanded' = 0
    BY <1>1 DEF Begin, Refuse
  <2>3. queue' = {} \/ \E e : queue' = {e}
    BY <1>1 DEF Begin, Refuse
  <2>4. IsFiniteSet(queue')
    BY <2>3, FS_EmptySet, FS_Singleton
  <2> QED  BY <2>1, <2>2, <2>4 DEF Bounded
<1>2. ASSUME NEW result, Done(result), result # Pending PROVE Bounded'
  BY <1>2 DEF Done, Bounded, Searching, locals
<1>3. ASSUME NEW e \in queue, Discard(e) PROVE Bounded'
  <2>1. queue' \subseteq queue /\ UNCHANGED <<request, expanded, answer>>
    BY <1>3 DEF Discard, Popped
  <2> QED  BY <2>1, FS_Subset DEF Bounded, Searching
<1>4. ASSUME NEW e \in queue, Expand(e) PROVE Bounded'
  <2> DEFINE M == Improvements(e.state)
             entry == [m \in M |->
                         [priority |-> m.cost + Bound(request, Learned({m.to.node}), m.to.node),
                          cost |-> m.cost, state |-> m.to]]
  <2>1. e.state.node \in Nodes
    BY <1>4 DEF SearchInv, SearchTypeOK, State
  <2>2. IsFiniteSet(M)
    BY <2>1, FewImprovements
  <2>3. entry = [m \in M |-> entry[m]] /\ Entries(M) = {entry[m] : m \in M}
    BY DEF Entries
  <2>4. IsFiniteSet(Entries(M))
    <3> HIDE DEF M, entry
    <3> QED  BY <2>2, <2>3, ImageIsFinite
  <2>5. IsFiniteSet(Popped(e))
    BY FS_Subset DEF Bounded, Popped
  <2>6. /\ queue' = Popped(e) \cup Entries(M)
        /\ request' = request /\ expanded' = expanded + 1 /\ expanded < request.limit
        /\ Searching
    BY <1>4 DEF Expand, Current
  <2>7. expanded \in Nat /\ request.limit \in Nat
    BY <2>6, SearchAssumption DEF SearchInv, SearchTypeOK, IsRequest
  <2> HIDE DEF M
  <2>8. IsFiniteSet(queue')
    BY <2>4, <2>5, <2>6, FS_Union
  <2> QED  BY <2>6, <2>7, <2>8 DEF Bounded
<1>5. CASE Finished \/ UNCHANGED vars
  BY <1>5 DEF Finished, vars, locals, Bounded, Searching
<1> QED  BY <1>1, <1>2, <1>3, <1>4, <1>5, StepKinds DEF Next

(* A step of a search ends it, expands one more state, or drops an entry.  *)
LEMMA StepCounts ==
  ASSUME SearchInv, Bounded, Step \/ Cancel
  PROVE  /\ Searching /\ request' = request
         /\ \/ ~Searching'
            \/ Searching' /\ expanded' = expanded + 1
            \/ /\ Searching' /\ expanded' = expanded
               /\ Cardinality(queue') < Cardinality(queue)
<1>1. Searching /\ request' = request
  BY DEF Step, Cancel, GiveUp, Discard, Abort, Expand, Arrive, Overrun, Done, Current
<1>2. ASSUME NEW result, Done(result), result # Pending PROVE ~Searching'
  BY <1>2 DEF Done, Searching
<1>3. ASSUME NEW e \in queue, Discard(e)
      PROVE  /\ Searching' /\ expanded' = expanded
             /\ Cardinality(queue') < Cardinality(queue)
  <2>1. queue' = queue \ {e} /\ UNCHANGED <<expanded, answer>>
    BY <1>3 DEF Discard, Popped
  <2>2. Cardinality(queue \ {e}) = Cardinality(queue) - 1 /\ Cardinality(queue) \in Nat
    BY FS_RemoveElement, FS_CardinalityType DEF Bounded
  <2> QED  BY <1>1, <2>1, <2>2 DEF Searching
<1>4. ASSUME NEW e \in queue, Expand(e) PROVE Searching' /\ expanded' = expanded + 1
  BY <1>1, <1>4 DEF Expand, Searching
<1> QED  BY <1>1, <1>2, <1>3, <1>4, StepKinds

(* A search goes on only where its result is waited for.                   *)
AwaitedSearch == Searching => stage = "awaiting"

LEMMA AwaitedStays ==
  ASSUME AwaitedSearch, [VoyagesNext]_allVars
  PROVE  AwaitedSearch'
<1>1. ASSUME NEW v \in Voyages, Execute(v) PROVE AwaitedSearch'
  BY <1>1 DEF Execute, Planning, AwaitedSearch, Searching, vars
<1>2. CASE Ask
  BY <1>2 DEF Ask, AwaitedSearch
<1>3. CASE Fail \/ Collect \/ Review \/ Overtaken
  BY <1>3 DEF Fail, Collect, Review, Overtaken, Answered, AwaitedSearch, Searching, vars
<1>4. CASE (Step \/ Cancel) /\ UNCHANGED serviceVars
  <2>1. Searching
    BY <1>4 DEF Step, Cancel, GiveUp, Discard, Abort, Expand, Arrive, Overrun, Current
  <2> QED  BY <1>4, <2>1 DEF AwaitedSearch, serviceVars
<1>5. CASE Rest \/ UNCHANGED allVars
  BY <1>5 DEF Rest, AwaitedSearch, Searching, allVars, vars, serviceVars
<1> QED  BY <1>1, <1>2, <1>3, <1>4, <1>5 DEF VoyagesNext, Run

(* Every step of an execution that goes on brings it closer to its end.    *)
LEMMA ExecutionCounts ==
  ASSUME SearchInv, ServiceInv, RefusedForReason, Bounded, AwaitedSearch,
         [VoyagesNext]_allVars
  PROVE  [Planning /\ Planning' => Sooner(ToGo', ToGo)]_allVars
<1> SUFFICES ASSUME Planning, Planning', allVars' # allVars, VoyagesNext
             PROVE  Sooner(ToGo', ToGo)
  OBVIOUS
<1> DEFINE p == ToGo
           q == ToGo'
<1>1. /\ p[1] = 12 - Len(planned) /\ p[2] = StageRank
      /\ p[3] = IF Searching THEN 1 + request.limit - expanded ELSE 0
      /\ p[4] = Cardinality(queue)
  BY DEF ToGo
<1>2. /\ q[1] = 12 - Len(planned') /\ q[2] = StageRank'
      /\ q[3] = IF Searching' THEN 1 + request'.limit - expanded' ELSE 0
      /\ q[4] = Cardinality(queue')
  BY DEF ToGo
<1> HIDE DEF p, q
<1>3. SUFFICES \/ q[1] < p[1]
               \/ q[1] = p[1] /\ q[2] < p[2]
               \/ q[1] = p[1] /\ q[2] = p[2] /\ q[3] < p[3]
               \/ q[1] = p[1] /\ q[2] = p[2] /\ q[3] = p[3] /\ q[4] < p[4]
  BY DEF Sooner, p, q
<1>4. ~Rest /\ ~Overtaken /\ ~Fail /\ \A v \in Voyages : ~Execute(v)
  BY DEF Rest, Overtaken, Fail, Execute, Planning, RefusedForReason, Outcomes
<1>5. CASE Ask
  <2>1. stage = "asking" /\ stage' = "awaiting" /\ planned' = planned
    BY <1>5 DEF Ask
  <2> QED  BY <1>1, <1>2, <2>1 DEF StageRank
<1>6. CASE Collect
  <2>1. planned' = Append(planned, answer) /\ planned \in Seq(Routes)
    BY <1>6 DEF Collect, ServiceInv
  <2>2. Len(planned') = Len(planned) + 1 /\ Len(planned) \in Nat
    BY <2>1
  <2> QED  BY <1>1, <1>2, <2>2
<1>7. CASE Review
  <2>1. stage = "layered" /\ stage' = "asking" /\ planned' = planned
    BY <1>7 DEF Review, Proceed, Planning
  <2> QED  BY <1>1, <1>2, <2>1 DEF StageRank
<1>8. CASE (Step \/ Cancel) /\ UNCHANGED serviceVars
  <2>1. q[1] = p[1] /\ q[2] = p[2]
    BY <1>1, <1>2, <1>8 DEF serviceVars, StageRank
  <2>2. /\ Searching /\ request' = request
        /\ \/ ~Searching'
           \/ Searching' /\ expanded' = expanded + 1
           \/ /\ Searching' /\ expanded' = expanded
              /\ Cardinality(queue') < Cardinality(queue)
    BY <1>8, StepCounts
  <2>3. expanded \in Nat /\ request.limit \in Nat /\ expanded <= request.limit
    BY <2>2, SearchAssumption DEF SearchInv, SearchTypeOK, IsRequest, Bounded
  <2> QED  BY <1>1, <1>2, <2>1, <2>2, <2>3
<1> QED  BY <1>4, <1>5, <1>6, <1>7, <1>8 DEF VoyagesNext, Run

(* plan(), execute(): an execution cannot go on for ever, nor stop on its  *)
(* way: each of its steps leaves less to go, in an order that has no       *)
(* endless descent, although results, stages, expansions and a queue that  *)
(* grows again are counted by different loops; and until it has ended      *)
(* there is a next thing to do: an objective to ask for, a layer to review,*)
(* an answer to take, or a search with a least entry or none left.         *)
THEOREM ExecutionsRunOut ==
  VoyagesSpec =>
    /\ [](Planning => ToGo \in Nat \X Nat \X Nat \X Nat)
    /\ [][Planning /\ Planning' => Sooner(ToGo', ToGo)]_allVars
    /\ [](Planning => \/ stage = "asking" /\ ~Searching
                      \/ stage = "layered"
                      \/ Answered
                      \/ Searching /\ queue = {}
                      \/ Searching /\ \E e \in queue : Least(e))
<1> DEFINE I == ServicesInv /\ Bounded /\ AwaitedSearch
           OnItsWay == Planning => ToGo \in Nat \X Nat \X Nat \X Nat
           Ready == Planning => \/ stage = "asking" /\ ~Searching
                                \/ stage = "layered"
                                \/ Answered
                                \/ Searching /\ queue = {}
                                \/ Searching /\ \E e \in queue : Least(e)
<1>1. VoyagesInit => Bounded /\ AwaitedSearch
  BY FS_EmptySet DEF VoyagesInit, Init, Nothing, Pending, Bounded, AwaitedSearch, Searching
<1>2. /\ ServicesInv /\ Bounded /\ AwaitedSearch /\ [VoyagesNext]_allVars
      => /\ Bounded' /\ AwaitedSearch'
         /\ [Planning /\ Planning' => Sooner(ToGo', ToGo)]_allVars
  <2> SUFFICES ASSUME ServicesInv, Bounded, AwaitedSearch, [VoyagesNext]_allVars
               PROVE  /\ Bounded' /\ AwaitedSearch'
                      /\ [Planning /\ Planning' => Sooner(ToGo', ToGo)]_allVars
    OBVIOUS
  <2>1. SearchInv /\ ServiceInv /\ RefusedForReason /\ window \in Windows
    BY DEF ServicesInv, Kept, SearchInv, SearchTypeOK
  <2>2. [Next]_vars
    BY <2>1, ServiceSteps
  <2>3. Bounded'
    BY <2>1, <2>2, BoundedStays
  <2>4. AwaitedSearch'
    BY AwaitedStays
  <2>5. [Planning /\ Planning' => Sooner(ToGo', ToGo)]_allVars
    BY <2>1, ExecutionCounts
  <2> QED  BY <2>3, <2>4, <2>5
<1>3. I => OnItsWay
  BY ToGoIs DEF ServicesInv, Kept
<1>4. I => Ready
  <2> SUFFICES ASSUME I, Planning PROVE Ready
    OBVIOUS
  <2>1. Searching /\ queue # {} => \E e \in queue : Least(e)
    <3>1. SearchInv /\ Bounded
      BY DEF ServicesInv
    <3> QED  BY <3>1, LeastExists DEF Least
  <2> QED  BY <2>1 DEF Planning, Answered, AwaitedSearch
<1> HIDE DEF OnItsWay, Ready
<1>5. VoyagesSpec => []OnItsWay /\ []Ready
                     /\ [][Planning /\ Planning' => Sooner(ToGo', ToGo)]_allVars
  BY <1>1, <1>2, <1>3, <1>4, ServicesInvariant, PTL DEF VoyagesSpec
<1> QED  BY <1>5 DEF OnItsWay, Ready

===============================================================================
