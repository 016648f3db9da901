\* Buckets of an hour, and a strait that closes.
SPECIFICATION CorridorSpec
CONSTANTS
  Rows = 2
  Columns = 4
  SampleParts = 2
  FrameGap = 8
  MaxFrameGap = 8
  MaxRisk = 2
  MaxConfidence = 2
  AllowDiagonal = TRUE
  Length <- MCLength
  CalmPace = 2
  FastPace = 1
  Horizon = 24
  MaxSlowness = 3
  MinConfidence = 1
  RiskCeiling = 2
  TurnCost = 1
  ObjectiveModes = {"fastest", "low_risk", "recommended"}
  Weights <- MCWeights
  Nodes <- Grid
  Windows <- MCWindows
  Objectives <- ObjectiveModes
  Times <- MCTimes
  LastTime <- MCLastTime
  Unturned <- NoHeading
  Requests <- MCRequests
  Voyages <- MCVoyages
  NoVoyage = NoVoyage
  Orders <- MCOrders
  Corridors <- MCCorridors
  NoCorridor = NoCorridor
  Unmapped = Unmapped
  MaxAdjustment = 4
  Frames <- MCFrames
  Cutoffs <- MCCutoffs
  SearchLimit = 24
  Limit = 60
  MaxExecutions = 1
  Waters = "strait"
  MaxCalls = 12
  NoRequest = NoRequest
  Neighbors <- NeighborsOf
  Heading <- HeadingOf
  Remaining <- MCRemaining
  LowerBound <- BoundOf
  Traverse <- MCTraverse
  Inspect <- MCInspect
INVARIANT NoRouteMeansNone
