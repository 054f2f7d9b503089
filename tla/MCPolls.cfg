SPECIFICATION Spec
CONSTANTS
  Subjects = {s1, s2}
  Torrents = {t1}
  Executors = {}
  AttemptIds = {a1}
  Pollers = {p1, p2}
  Clients = {}
  Null = Null
  MaxRetries = 2
  InitialDelay = 1
  MaxDelay = 3
  LeaseTtl = 1
  RetryDelays = {1}
  Observed <- Mixed
  BootstrapSkips = {TRUE}
  SkipEdits = FALSE
  ClockSteps <- BothWays
  MaxLag = 1
  MaxTime = 2
  MaxRevision = 100
  MaxGeneration = 4
SYMMETRY Interchangeable
VIEW Relevant
CHECK_DEADLOCK FALSE
INVARIANTS
  MetaWellFormed
  CurrentPollCanClose
  ActiveIsSeen
  PollBackoffBounded
