SPECIFICATION Spec
CONSTANTS
  Subjects = {s1}
  Torrents = {t1, t2}
  Executors = {e1}
  AttemptIds = {a1, a2}
  Pollers = {p1}
  Clients = {c1}
  Null = Null
  MaxRetries = 2
  InitialDelay = 1
  MaxDelay = 2
  LeaseTtl = 1
  RetryDelays = {1}
  Observed <- Wanted
  BootstrapSkips = {FALSE}
  SkipEdits = FALSE
  ClockSteps <- Forward
  MaxLag = 0
  MaxTime = 1
  MaxRevision = 100
  MaxGeneration = 2
SYMMETRY Interchangeable
VIEW Relevant
CHECK_DEADLOCK FALSE
INVARIANTS
  ReplacementOnTrack
PROPERTIES
  ConfirmedChoiceKept
  NoPushBeforeCleanup
