SPECIFICATION Spec
CONSTANTS
  Subjects = {s1}
  Torrents = {t1}
  Executors = {e1}
  AttemptIds = {a1}
  Pollers = {p1}
  Clients = {}
  Null = Null
  MaxRetries = 2
  InitialDelay = 1
  MaxDelay = 2
  LeaseTtl = 1
  RetryDelays = {1}
  Observed <- Wanted
  BootstrapSkips = {FALSE}
  SkipEdits = FALSE
  ClockSteps <- Forward
  MaxLag = 0
  MaxTime = 1
  MaxRevision = 100
  MaxGeneration = 1
SYMMETRY Interchangeable
VIEW Relevant
CHECK_DEADLOCK FALSE
INVARIANTS
  TvNeverClaimed
