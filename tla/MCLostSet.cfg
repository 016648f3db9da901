\* Two v3 requests whose activations change places.
SPECIFICATION LayeredSpec
CONSTANTS
  r1 = r1
  r2 = r2
  r3 = r3
  Requests = {r1, r2, r3}
  LayeredRequests = {r1, r2, r3}
  Runs = {"A"}
  Scenarios = {"s"}
  Digests = {"x"}
  Subjects = {"v"}
  Contexts <- MCContexts
  Revisions = {0, 1}
  Costs = {10}
  Risks = {1}
  GateReasons = {{"other"}}
  RiskHysteresis = 1
  MinImprovement = 10
  NoToken = NoToken
  NoPlan = NoPlan
  NoRequest = NoRequest
INVARIANT SetCancelledForAReason
