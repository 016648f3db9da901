\* Two v3 requests and a v2 one in one session.
SPECIFICATION LayeredSpec
CONSTANTS
  r1 = r1
  r2 = r2
  r3 = r3
  Requests = {r1, r2, r3}
  LayeredRequests = {r1, r2}
  Runs = {"A"}
  Scenarios = {"s"}
  Digests = {"x"}
  Subjects = {"v"}
  Contexts <- MCContexts
  Revisions = {0, 1}
  Costs = {10}
  Risks = {1}
  GateReasons = {{"other"}}
  RiskHysteresis = 1
  MinImprovement = 10
  NoToken = NoToken
  NoPlan = NoPlan
  NoRequest = NoRequest
SYMMETRY MCSymmetry
INVARIANTS V2CancelledForAReason RefusedAfterBeingSuperseded
PROPERTIES SetsAdvance SetGateSawWhatItReplaced
