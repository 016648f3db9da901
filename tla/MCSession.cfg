\* A plan and a replanning of one run: seeks, reconfigurations, newer data.
SPECIFICATION FairSpec
CONSTANTS
  r1 = r1
  r2 = r2
  Requests = {r1, r2}
  Runs = {"A"}
  Scenarios = {"s"}
  Digests = {"x", "y"}
  Subjects = {"v"}
  Contexts <- OneRunContexts
  Revisions = {0, 1}
  Costs = {9, 10}
  Risks = {0, 1, 2}
  GateReasons = {{"RISK"}, {"other"}}
  RiskHysteresis = 1
  MinImprovement = 10
  NoToken = NoToken
  NoPlan = NoPlan
  NoRequest = NoRequest
INVARIANTS FencesAgree SnapshotCoherent CancelledForAReason PublishedInInputOrder PreviousIsEarlier
PROPERTIES LatestWinsSpec GateSawWhatItReplaced InputsAdvance ServedUnlessRevoked SwitchIsAnImprovement
