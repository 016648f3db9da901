\* Three hours, two revisions, risks around the band; the caller keeps observing.
SPECIFICATION FairTriggerSpec
CONSTANTS
  MinInterval = 2
  HighRisk = 10
  ClearRisk = 5
  RiskChange = 3
  UrgentBypasses = TRUE
  RiskLevels = {5, 7, 10}
  Commits = {"a", "b"}
  Events = {"e"}
  NoEvent = "none"
  NoBaseline = NoBaseline
  MaxTime = 3
  MaxRevision = 1
INVARIANTS AlarmsRaised QuietAfterReplan
PROPERTIES Spaced SuppressedIsServed
