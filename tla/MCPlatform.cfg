SPECIFICATION FairSpec
CONSTANTS
  r1 = r1
  r2 = r2
  Requests = {r1, r2}
  Inputs <- AnyAndOne
  Secret = TRUE
  Outcomes = {"analysed", "failed"}
  Buckets <- TwoBuckets
  Latencies = {1, 3}
  MaxPolls = 2
  None = None
INVARIANTS
  AnswersMatchJobs
  MetricsBalance
  ScrapeConsistent
  LitdTellsTheTruth
PROPERTIES
  EveryRequestEnds
  ScanEnds
