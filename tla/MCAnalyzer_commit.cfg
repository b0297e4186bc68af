SPECIFICATION Spec
CONSTANTS
  j1 = j1
  j2 = j2
  r1 = r1
  c1 = c1
  c2 = c2
  short = short
  ShortSHAs = {short}
  None = None
  NoRepo = NoRepo
  Jobs = {j1, j2}
  Repos = {r1}
  Commits = {c1, c2}
  JobSets <- PullAndPush
  Flaws <- BothFlaws
  HasToken = TRUE
  Services = {"audit"}
  MaxAnnotations = 2
  MaxListed = 1
  MaxAttempts = 2
  TTL = 1
  MaxTime = 2
INVARIANTS
  ResultIsOfCommit
