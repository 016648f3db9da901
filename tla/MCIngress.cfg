\* Three calls under exclusive and under shared leases.
SPECIFICATION FairFormalSpec
CONSTANTS
  r1 = r1
  r2 = r2
  r3 = r3
  Requests = {r1, r2, r3}
  LayeredRequests = {r3}
  Runs = {"A"}
  Scenarios = {"s"}
  Digests = {"x"}
  Subjects = {"v"}
  Contexts <- MCContexts
  Revisions = {0, 1, 2}
  Costs = {10}
  Risks = {5}
  GateReasons <- AnyReasons
  RiskHysteresis = 1
  MinImprovement = 10
  Calls <- MCCalls
  NoCall = NoCall
  Sharing = {1, 3}
  MinInterval = 1
  HighRisk = 8
  ClearRisk = 5
  RiskChange = 3
  UrgentBypasses = TRUE
  NoEvent = "none"
  NoBaseline = NoBaseline
  NoToken = NoToken
  NoPlan = NoPlan
  NoRequest = NoRequest
INVARIANTS BaselineFollowsDisplay BaselineWasShown NothingIsShown
PROPERTIES ReplacesOlder LeasesEnd
