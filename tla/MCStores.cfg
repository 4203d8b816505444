CONSTANTS
  Sessions = {s1, s2, s3}
  MaxVersions = 2
  Releases = {m1, m2}
  Curators = {u1, u2}
  Scorecards = {card}
  DecisionSLA = 1
  ReleaseTime = 1
  MaxTrail = 4
  NoEntry = NoEntry
  Null = Null
  Pinners = {s1, s2, s3}
  PinVersions = {1, 2}
  MaxPins = 3
  NoPin = NoPin
  r1 = r1
  r2 = r2
  WorkspaceIds = {ws1}
  WorkspaceNames = {n1, n2}
  NamesElsewhere = {n2}
  RepositoryNames = {r1, r2}
  Installation <- MCInstallation
  Tenants = {s1, s2}
  MaxLinks = 2
  NoWorkspace = NoWorkspace
  Nothing = Nothing
  Workers = {w1, w2}
  Signals = {g1}
  Reports = {"new", "done"}
  DedupWindow = 1
  MaxIssues = 2
  IssueTime = 2
  MaxEvents = 2
  NoLink = NoLink
  Never = Never
  Keys = {k1, k2, k3}
  Clients = {c1, c2}
  Capacity = 2
  TTL = 1
  CacheTime = 1
  Edited = {k1}
  MaxEdits = 1
  Threads = {t1, t2}
  Spaces = {w1, w2}
  Slots = 1
  Limit = 2
  Bodies = {b1, b2}
  KeyTTL = 1
  HourMax = 2
  MaxLetters = 3
  NoRecord = NoRecord
  agent1 = agent1
  agent2 = agent2
  Targets <- MCTargets
  Cards <- MCCards
  Baseline <- MCBaseline
  NoCard = NoCard
  tolerance = 0
  trend_window = 2
  decline_threshold = 2
  Whole = 4
  Nights = 3
  Database <- MCModelled
  Rows <- MCRows
  Quarter = 1
  Year = 1
  Windows = {0, 2}
  LastDay = 2
  Absent = Absent
  NULL = NULL
  q1 = q1
  q2 = q2
  q3 = q3
  Requests = {q1, q2, q3}
  Home <- MCHome
  Outlines <- MCOutlines
  MaxPlans = 1
  Missing = Missing
  Reporters = {p1}
  Codes = {401, 504}
  Texts <- MCTexts
  D14 = 0
  D30 = 1
  D90 = 2
  FlipThreshold = 30
  MaxResults = 3
  MaxCalls = 1
  FinalDay = 3
  Unset = Unset
  ReportCalls = {q1, q2}
  Servers = {1, 2}
  MaxFindings = 2
  LastSecond = 1
  MaxFetches = 1
  MaxRestarts = 1
  Base <- MCBase
  Inputs <- MCInputs
  Unscored = Unscored
  Watched = {"api_availability", "eval_success_rate"}
  Days = {0, 8, 31}
  Loads = {1, 25}
  MaxBatches = 3
  Unmeasured = Unmeasured
  Capabilities = {"pr_analysis", "evidence_report", "checkout"}
  NotRun = NotRun
  Feedback = {f1, f2, f3}
  Converters = {v1}
  Promoters = {p1}
  MaxCrashes = 0
  Moments = {1, 2}
  ReviewLimit = 2
  PendingLimit = 1
  Builds <- MCBuilds
  Designs <- MCDesigns
  Subjects = {"w1"}
  Bucket <- MCBucket
  MaxAssigned = 2
  Newest = Newest
SPECIFICATION StoresSpec
INVARIANTS StoresTypeOK PoliciesKept RegistryKept PinAsAudited LinksKept IssuesKept CacheKept ReliabilityKept AlertsTold SchemaKept GeneratedCodeKept FlakyNotBlamed ReportsKept RiskNeverEased BudgetsKept ReviewTells AssignmentsKept
PROPERTY SweepsByRule
CHECK_DEADLOCK FALSE
